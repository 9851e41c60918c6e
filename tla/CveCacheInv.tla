----------------------------- MODULE CveCacheInv -----------------------------
(***************************************************************************)
(* The inductive invariant behind the safety properties of CveCache.        *)
(***************************************************************************)
EXTENDS CveCache

\* A request without a usable CPE name is never made.
RequestsHaveNames == EmptyKey \notin Keys

\* The cache is never given a negative limit.
CachingIsOn == \A l \in Limits : l >= 0

\* What each call holds: nothing, its own entry, or the entry of the call that
\* computes its key.
Roles ==
  \A c \in Calls :
    /\ pc[c] = "idle" <=> req[c] = None
    /\ pc[c] \in {"idle", "nocache"} => held[c] = None
    /\ pc[c] = "nocache" => MaxSize < 0
    /\ pc[c] \in {"compute", "store", "evict", "push", "close"} => held[c] = c
    /\ pc[c] = "wait" => held[c] \in Calls
    /\ held[c] # None => held[held[c]] = held[c] /\ req[held[c]] = req[c]

\* The map has exactly the entries being computed and, of the finished ones,
\* those that are queued, each under its own key.
Ownership ==
  /\ \A k \in Keys : data[k] # None =>
       data[k] \in InFlight \cup Stored /\ held[data[k]] = data[k] /\ req[data[k]] = k
  /\ \A c \in InFlight : data[req[c]] = c
  /\ ready \subseteq {c \in Stored : pc[c] = "done"}

\* The mutex is held across steps only around evict.
Locking == \A c \in Calls : pc[c] \in {"evict", "push"} <=> mu = c

\* Only a call that is about to evict may have left the size above the limit.
WithinLimit ==
  MaxSize > 0 /\ (\A c \in Calls : pc[c] # "evict") => size <= MaxSize

\* A pushed entry has been given a position; without eviction it stays in range.
Indexed ==
  /\ \A c \in Stored : eindex[c] >= 1
  /\ MaxSize = 0 => /\ failure = "none"
                    /\ \A c \in Calls : pc[c] # "evict"
                    /\ \A c \in Stored : eindex[c] <= Len(queue)

IInv == TypeOK /\ Roles /\ Ownership /\ QueueIsData /\ Locking /\ WithinLimit /\ Indexed
=============================================================================
