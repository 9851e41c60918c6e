----------------------------- MODULE ApiClient -----------------------------
(* providers/lib: the client every request of a download goes through.  A request
   takes a token of the rate limiter and is then attempted until its answer is not
   to be retried.  The unit of time is the limiter's period over its requests. *)
EXTENDS Integers, Sequences, FiniteSets, SequencesExt

CONSTANTS Callers,        \* goroutines, each with one request after another
          PerPeriod,      \* requests-per-period: the limiter's capacity
          Retries,        \* what num-retries may be
          Delay,          \* retry-delay, in ticks
          Statuses, Retried,   \* answers there are, and those the policy retries
          FailAt          \* what NVD_FAIL_REQUEST may be

OK == 200
Broken == 0               \* no answer: the transport has failed

ASSUME ClientAssumption ==
  /\ PerPeriod \in Nat \ {0} /\ Delay \in Nat \ {0}
  /\ Retries \subseteq Nat /\ FailAt \subseteq Nat
  /\ \E m \in FailAt : \A n \in FailAt : n <= m
  /\ Retried \subseteq Statuses \ {OK, Broken}

VARIABLES retries, limited, failAt,     \* the configuration
          tick,       \* the Ticker's channel holds a tick
          filling,    \* the filler has taken a tick and waits to send its token
          tokens,
          queue,      \* callers blocked in Allow, in the order they came
          state,      \* caller -> what it does
          answers,    \* caller -> answers to its request so far
          delay, asleep,       \* caller -> the next delay, and ticks left of the current one
          slept,      \* caller -> ticks slept for this request
          result,     \* caller -> how its last request ended
          number,     \* requestNum, up to what matters
          surplus     \* requests allowed ahead of the ticks, at its peak since they were even

limitVars == <<tick, filling, tokens, queue>>
confVars == <<retries, limited, failAt>>
reqVars == <<answers, delay, asleep, slept, result>>
vars == <<confVars, limitVars, state, reqVars, number, surplus>>

Results == {"none", "returned", "broken", "refused", "exhausted", "debug"}
MaxNumber == Max(FailAt) + 1

Init ==
  /\ retries \in Retries /\ limited \in BOOLEAN /\ failAt \in FailAt
  /\ tick = FALSE /\ filling = FALSE /\ tokens = 0 /\ queue = <<>>
  /\ state = [c \in Callers |-> "idle"]
  /\ answers = [c \in Callers |-> <<>>]
  /\ delay = [c \in Callers |-> 0] /\ asleep = [c \in Callers |-> 0]
  /\ slept = [c \in Callers |-> 0]
  /\ result = [c \in Callers |-> "none"]
  /\ number = 0 /\ surplus = 0

-----------------------------------------------------------------------------
\* time passes for the Ticker, which drops a tick nobody has taken, and for sleepers
Tick ==
  /\ limited \/ \E c \in Callers : asleep[c] > 0
  /\ tick' = limited
  /\ asleep' = [c \in Callers |-> IF asleep[c] > 0 THEN asleep[c] - 1 ELSE 0]
  /\ slept' = [c \in Callers |-> IF asleep[c] > 0 THEN slept[c] + 1 ELSE slept[c]]
  /\ surplus' = IF surplus > 0 THEN surplus - 1 ELSE 0
  /\ UNCHANGED <<confVars, filling, tokens, queue, state, answers, delay, result, number>>
\* the filler's loop
TakeTick ==
  /\ tick /\ ~filling
  /\ tick' = FALSE /\ filling' = TRUE
  /\ UNCHANGED <<confVars, tokens, queue, state, reqVars, number, surplus>>
Allowed(c) ==
  /\ state' = [state EXCEPT ![c] = "attempt"]
  /\ surplus' = surplus + 1
\* A token goes to who has waited longest, or into the channel while it has room.
Fill(n) ==
  /\ filling
  /\ IF queue # <<>>
     THEN Allowed(Head(queue)) /\ queue' = Tail(queue) /\ UNCHANGED tokens
     ELSE tokens < n /\ tokens' = tokens + 1 /\ UNCHANGED <<queue, state, surplus>>
  /\ filling' = FALSE
  /\ UNCHANGED <<confVars, tick, reqVars, number>>
\* Faulty variant: the channel has room for one more.
SendTokenMore == Fill(PerPeriod + 1)
SendToken == Fill(PerPeriod)

\* client.Get: the request gets its number and may fail for it; else Do waits in Allow
Numbered == number' = IF number < MaxNumber THEN number + 1 ELSE number
Fails == number + 1 = failAt
Fresh(c) ==
  /\ answers' = [answers EXCEPT ![c] = <<>>]
  /\ delay' = [delay EXCEPT ![c] = Delay] /\ asleep' = [asleep EXCEPT ![c] = 0]
  /\ slept' = [slept EXCEPT ![c] = 0]
\* Faulty variant: who came last is served first.
WaitingFirst(c) == <<c>> \o queue
Waiting(c) == Append(queue, c)
Request(c) ==
  /\ state[c] = "idle"
  /\ Numbered /\ Fresh(c)
  /\ IF Fails
     THEN result' = [result EXCEPT ![c] = "debug"] /\ UNCHANGED <<tokens, queue, state, surplus>>
     ELSE /\ result' = [result EXCEPT ![c] = "none"]
          /\ IF ~limited
             THEN state' = [state EXCEPT ![c] = "attempt"] /\ UNCHANGED <<tokens, queue, surplus>>
             ELSE IF tokens > 0 THEN Allowed(c) /\ tokens' = tokens - 1 /\ UNCHANGED queue
             ELSE /\ state' = [state EXCEPT ![c] = "wait"] /\ queue' = Waiting(c)
                  /\ UNCHANGED <<tokens, surplus>>
  /\ UNCHANGED <<confVars, tick, filling>>

-----------------------------------------------------------------------------
\* what becomes of a request that was answered for the nth time
Ends(c, how) ==
  /\ result' = [result EXCEPT ![c] = how]
  /\ state' = [state EXCEPT ![c] = "idle"]
  /\ UNCHANGED <<delay, asleep>>
\* Faulty variant: the delay stays as it is.
RetriesEvenly(c, last) ==
  IF last THEN Ends(c, "exhausted")
  ELSE /\ state' = [state EXCEPT ![c] = "sleep"]
       /\ asleep' = [asleep EXCEPT ![c] = delay[c]]
       /\ UNCHANGED <<delay, result>>
\* Behind a retryable answer the delay passes, but for the last attempt's; it doubles each time.
RetriesAfter(c, last) ==
  IF last THEN Ends(c, "exhausted")
  ELSE /\ state' = [state EXCEPT ![c] = "sleep"]
       /\ asleep' = [asleep EXCEPT ![c] = delay[c]]
       /\ delay' = [delay EXCEPT ![c] = @ * 2]
       /\ UNCHANGED result
\* Faulty variant: one attempt too few.
RetriesFewer(c) == RetriesAfter(c, Len(answers[c]) + 1 = retries)
RetryLoop(c) == RetriesAfter(c, Len(answers[c]) + 1 > retries)
\* Without retries the client returns any answer there is.
Answered(c) ==
  /\ state[c] = "attempt"
  /\ \E s \in Statuses :
       /\ answers' = [answers EXCEPT ![c] = Append(@, s)]
       /\ IF s = Broken THEN Ends(c, "broken")
          ELSE IF s = OK \/ retries = 0 THEN Ends(c, "returned")
          ELSE IF s \notin Retried THEN Ends(c, "refused")
          ELSE RetryLoop(c)
  /\ UNCHANGED <<confVars, limitVars, slept, number, surplus>>
Wake(c) ==
  /\ state[c] = "sleep" /\ asleep[c] = 0
  /\ state' = [state EXCEPT ![c] = "attempt"]
  /\ UNCHANGED <<confVars, limitVars, reqVars, number, surplus>>

Next ==
  \/ Tick \/ TakeTick \/ SendToken
  \/ \E c \in Callers : Request(c) \/ Answered(c) \/ Wake(c)
Spec == Init /\ [][Next]_vars
\* Time passes and goroutines are scheduled.  The transport has no time-out (client.go:30):
\* a server may leave a request without an answer for ever.
FairSpec ==
  /\ Spec
  /\ WF_vars(Tick) /\ WF_vars(TakeTick) /\ WF_vars(SendToken)
  /\ \A c \in Callers : WF_vars(Wake(c))

-----------------------------------------------------------------------------
TypeOK ==
  /\ retries \in Retries /\ limited \in BOOLEAN /\ failAt \in FailAt
  /\ tick \in BOOLEAN /\ filling \in BOOLEAN /\ tokens \in 0 .. PerPeriod
  /\ queue \in Seq(Callers) /\ IsInjective(queue)
  /\ state \in [Callers -> {"idle", "wait", "attempt", "sleep"}]
  /\ {c \in Callers : state[c] = "wait"} = {queue[k] : k \in DOMAIN queue}
  /\ answers \in [Callers -> Seq(Statuses)]
  /\ delay \in [Callers -> Nat] /\ asleep \in [Callers -> Nat]
  /\ slept \in [Callers -> Nat]
  /\ result \in [Callers -> Results]
  /\ number \in 0 .. MaxNumber /\ surplus \in Nat

(* In any stretch of time the limiter allows no more requests than it had ticks, and
   PerPeriod more from the channel, one from the filler and one from the Ticker's
   channel: two more than the burst it is documented to allow (rate/rate.go:31). *)
WithinRate == limited => surplus <= PerPeriod + 2

(* A request is attempted again after each answer the policy retries, and after no other,
   retries times at most, and its result is that of the last answer; only when all
   of them were retryable is it FailedRetries. *)
Decided ==
  \A c \in Callers :
    LET n == Len(answers[c]) IN
    /\ n <= retries + 1
    /\ \A k \in 1 .. n - 1 : answers[c][k] \in Retried
    /\ state[c] = "idle" /\ n > 0 =>
         IF answers[c][n] = Broken THEN result[c] = "broken"
         ELSE IF retries = 0 \/ answers[c][n] = OK THEN result[c] = "returned"
         ELSE IF answers[c][n] \in Retried THEN result[c] = "exhausted" /\ n = retries + 1
         ELSE result[c] = "refused"

(* In every state requests and queue are of their types, the rate is kept and answers
   decide what a request does.                                                  *)
Inv == TypeOK /\ WithinRate /\ Decided

(* Between n attempts a request has slept for 1 + 2 + 4 ... delays, n - 1 of them, and
   after the last of all it does not sleep in vain. *)
DelaysDouble ==
  \A c \in Callers :
    LET n == Len(answers[c]) IN
    state[c] = "idle" /\ n > 0 => slept[c] = Delay * ((2 ^ (n - 1)) - 1)

(* Each request comes to its end unless one of its own attempts is never answered:
   whoever waits for the limiter or sleeps is not held up by others, whom a silent
   server may keep for ever, and cannot be overtaken by them for ever.            *)
EveryRequestEnds ==
  \A c \in Callers : \/ state[c] # "idle" ~> state[c] = "idle"
                     \/ <>[](state[c] = "attempt")
=============================================================================
