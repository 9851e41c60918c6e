----------------------------- MODULE MemoCache -----------------------------
(***************************************************************************)
(* What cvefeed.Cache promises its callers, without locks, channels, sizes  *)
(* or a queue: a key that is cached or being computed is not computed       *)
(* again, whoever asks; only a cached key is dropped, and only to make room *)
(* for one being computed; a call is answered once its key has been         *)
(* computed.                                                                *)
(***************************************************************************)
CONSTANTS Calls, Keys, None

VARIABLES want,       \* the key each call asked for
          answered,   \* calls that have returned
          computing,  \* keys some goroutine matches against the dictionary
          cached,     \* keys whose result is kept
          known       \* keys computed at least once

mvars == <<want, answered, computing, cached, known>>

MInit ==
  /\ want = [c \in Calls |-> None]
  /\ answered = {} /\ computing = {} /\ cached = {} /\ known = {}

Ask(c, k) ==
  /\ want[c] = None
  /\ want' = [want EXCEPT ![c] = k]
  /\ computing' = computing \cup ({k} \ cached)
  /\ UNCHANGED <<answered, cached, known>>

Finish(k) ==
  /\ k \in computing
  /\ computing' = computing \ {k}
  /\ cached' = cached \cup {k}
  /\ known' = known \cup {k}
  /\ UNCHANGED <<want, answered>>

Drop(k) ==
  /\ k \in cached /\ computing # {}
  /\ cached' = cached \ {k}
  /\ UNCHANGED <<want, answered, computing, known>>

Answer(c) ==
  /\ want[c] \in known
  /\ c \notin answered
  /\ answered' = answered \cup {c}
  /\ UNCHANGED <<want, computing, cached, known>>

MNext ==
  \/ \E c \in Calls : Answer(c) \/ \E k \in Keys : Ask(c, k)
  \/ \E k \in Keys : Finish(k) \/ Drop(k)

MSpec == MInit /\ [][MNext]_mvars
=============================================================================
