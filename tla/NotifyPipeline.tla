--------------------------- MODULE NotifyPipeline ---------------------------
(* cmd/lininfosec/notify.go: the goroutines of one call of Notifications().
   A producer reads the monitored configurations from the database, the caller
   forwards them to the workers, the workers send what vulnerabilities match
   them, and a drainer collects the results.  The drainer is started only when
   every configuration was forwarded.                                        *)
EXTENDS Integers, Sequences, FiniteSets

CONSTANTS Cases,        \* vectors with, for each monitored configuration, the
                        \* number of vulnerabilities that match in both caches what
                        \* getSoftwareConfiguration returns of it: all of its CPEs, or
                        \* the first when its rows end with an error, not looked at
          Workers,      \* the processing goroutines (4 in the code)
          Cap,          \* capacity of each of the three channels (4 in the code)
          QueriesFail   \* whether the database may fail

ASSUME PipelineAssumption ==
  /\ \A m \in Cases : m \in Seq(Nat)
  /\ Cap \in Nat \ {0} /\ QueriesFail \in BOOLEAN
  /\ IsFiniteSet(Workers) /\ Workers # {}

Error == 0             \* a pair with an error; the other pairs are configurations
Blank == <<0, 0>>      \* what a racing reader finds where no result was stored yet

VARIABLES
  matches,              \* what this call meets: a vector of Cases
  row,                  \* configurations the producer has read
  pairs, pairsClosed,   \* chan pair
  main, hand,           \* the caller's step, the pair it received
  confs, confsClosed,   \* configurationsCh
  worker,               \* each worker's step and the results it has yet to send
  vulns, vulnsClosed,   \* vCh
  drainer, item,        \* the drainer's step and the result it received
  res,                  \* the results collected so far
  seen,                 \* the results the caller read
  result                \* what Notifications goes on with: "none", "ok" or "error"

Configs == Len(matches)
All == UNION {{c} \X (1 .. matches[c]) : c \in 1 .. Configs}
\* those of the configurations that were read
OfRead == {m \in All : m[1] <= row}

produced == <<matches, row, pairs, pairsClosed>>
drained == <<drainer, item, res>>
vars == <<matches, row, pairs, pairsClosed, main, hand, confs, confsClosed, worker,
          vulns, vulnsClosed, drainer, item, res, seen, result>>

Init ==
  /\ matches \in Cases
  /\ row = 0 /\ pairs = <<>> /\ pairsClosed = FALSE
  /\ main = "recv" /\ hand = Error
  /\ confs = <<>> /\ confsClosed = FALSE
  /\ worker = [w \in Workers |-> [pc |-> "idle", todo |-> <<>>]]
  /\ vulns = <<>> /\ vulnsClosed = FALSE
  /\ drainer = "none" /\ item = Blank /\ res = <<>>
  /\ seen = <<>> /\ result = "none"

-----------------------------------------------------------------------------
(* getConfigurations: one pair per row; an error ends the goroutine, which
   closes the channel in any case.                                           *)
ProduceRow ==
  /\ ~pairsClosed /\ row < Configs /\ Len(pairs) < Cap
  /\ row' = row + 1 /\ pairs' = Append(pairs, row + 1)
  /\ UNCHANGED <<matches, pairsClosed, main, hand, confs, confsClosed, worker, vulns,
                 vulnsClosed, drained, seen, result>>

ProduceError ==
  /\ QueriesFail /\ ~pairsClosed /\ row < Configs /\ Len(pairs) < Cap
  /\ pairs' = Append(pairs, Error) /\ pairsClosed' = TRUE
  /\ UNCHANGED <<matches, row, main, hand, confs, confsClosed, worker, vulns,
                 vulnsClosed, drained, seen, result>>

\* rows.Next() is false after the last row and after an error, which is not looked at.
ProduceEnd ==
  /\ ~pairsClosed /\ (row = Configs \/ QueriesFail)
  /\ pairsClosed' = TRUE
  /\ UNCHANGED <<matches, row, pairs, main, hand, confs, confsClosed, worker, vulns,
                 vulnsClosed, drained, seen, result>>

-----------------------------------------------------------------------------
(* The caller: for pair := range pairsChs.                                   *)
Goto(pc) ==
  /\ main' = pc
  /\ UNCHANGED <<worker, vulns, item, res>>

Receive ==
  /\ main = "recv" /\ pairs # <<>>
  /\ hand' = Head(pairs) /\ pairs' = Tail(pairs)
  /\ Goto(IF Head(pairs) = Error THEN "close" ELSE "forward")
  /\ result' = IF Head(pairs) = Error THEN "error" ELSE result
  /\ UNCHANGED <<matches, row, pairsClosed, confs, confsClosed, vulnsClosed, drainer, seen>>

Forward ==
  /\ main = "forward" /\ Len(confs) < Cap
  /\ confs' = Append(confs, hand) /\ hand' = Error
  /\ Goto("recv")
  /\ UNCHANGED <<produced, confsClosed, vulnsClosed, drainer,
                 seen, result>>

StartDrainer ==
  /\ main = "recv" /\ pairs = <<>> /\ pairsClosed
  /\ drainer' = "recv"
  /\ Goto("close")
  /\ UNCHANGED <<produced, hand, confs, confsClosed, vulnsClosed, seen, result>>

\* Faulty variant: the workers are waited for without closing their channel.
CloseConfsForgotten ==
  /\ main = "close"
  /\ Goto("wait")
  /\ UNCHANGED <<produced, hand, confs, confsClosed, vulnsClosed, drainer,
                 seen, result>>

CloseConfs ==
  /\ main = "close"
  /\ confsClosed' = TRUE
  /\ Goto("wait")
  /\ UNCHANGED <<produced, hand, confs, vulnsClosed, drainer,
                 seen, result>>

\* Faulty variant: the result channel is closed as soon as no input is left.
WaitWorkersInputOnly ==
  /\ main = "wait" /\ confs = <<>>
  /\ vulnsClosed' = TRUE
  /\ Goto(IF result = "error" THEN "done" ELSE "read")
  /\ UNCHANGED <<produced, hand, confs, confsClosed, drainer, seen, result>>

\* procWG.Wait(); close(vCh)
WaitWorkers ==
  /\ main = "wait" /\ \A w \in Workers : worker[w].pc = "done"
  /\ vulnsClosed' = TRUE
  /\ Goto(IF result = "error" THEN "done" ELSE "read")
  /\ UNCHANGED <<produced, hand, confs, confsClosed, drainer, seen, result>>

(* res is read while the drainer may be appending to it: append stores the new
   length before the element.                                                *)
Readable == IF drainer = "append" THEN {res, Append(res, Blank)} ELSE {res}
ReadResults ==
  /\ main = "read"
  /\ seen' \in Readable
  /\ result' = "ok"
  /\ Goto("done")
  /\ UNCHANGED <<produced, hand, confs, confsClosed, vulnsClosed, drainer>>

-----------------------------------------------------------------------------
(* processAll: for rec := range in.                                          *)
Take(w) ==
  /\ worker[w].pc = "idle" /\ confs # <<>>
  /\ worker' = [worker EXCEPT ![w] =
       LET c == Head(confs) IN
       IF matches[c] = 0 THEN @
       ELSE [pc |-> "send", todo |-> [k \in 1 .. matches[c] |-> <<c, k>>]]]
  /\ confs' = Tail(confs)
  /\ UNCHANGED <<produced, main, hand, confsClosed, vulns, vulnsClosed, drained,
                 seen, result>>

Send(w) ==
  /\ worker[w].pc = "send" /\ Len(vulns) < Cap
  /\ vulns' = Append(vulns, Head(worker[w].todo))
  /\ worker' = [worker EXCEPT ![w] =
       [pc |-> IF Len(@.todo) = 1 THEN "idle" ELSE "send", todo |-> Tail(@.todo)]]
  /\ UNCHANGED <<produced, main, hand, confs, confsClosed, vulnsClosed, drained,
                 seen, result>>

EndWorker(w) ==
  /\ worker[w].pc = "idle" /\ confs = <<>> /\ confsClosed
  /\ worker' = [worker EXCEPT ![w].pc = "done"]
  /\ UNCHANGED <<produced, main, hand, confs, confsClosed, vulns, vulnsClosed,
                 drained, seen, result>>

-----------------------------------------------------------------------------
(* The drainer: for v := range vCh { res = append(res, v) }.                 *)
DrainReceive ==
  /\ drainer = "recv" /\ vulns # <<>>
  /\ item' = Head(vulns) /\ vulns' = Tail(vulns) /\ drainer' = "append"
  /\ UNCHANGED <<produced, main, hand, confs, confsClosed, worker, vulnsClosed,
                 res, seen, result>>

DrainAppend ==
  /\ drainer = "append"
  /\ res' = Append(res, item) /\ item' = Blank /\ drainer' = "recv"
  /\ UNCHANGED <<produced, main, hand, confs, confsClosed, worker, vulns,
                 vulnsClosed, seen, result>>

DrainEnd ==
  /\ drainer = "recv" /\ vulns = <<>> /\ vulnsClosed
  /\ drainer' = "done"
  /\ UNCHANGED <<produced, main, hand, confs, confsClosed, worker, vulns,
                 vulnsClosed, item, res, seen, result>>

-----------------------------------------------------------------------------
Producer == ProduceRow \/ ProduceError \/ ProduceEnd
Main == Receive \/ Forward \/ StartDrainer \/ CloseConfs \/ WaitWorkers \/ ReadResults
Worker(w) == Take(w) \/ Send(w) \/ EndWorker(w)
Drainer == DrainReceive \/ DrainAppend \/ DrainEnd
Step == Producer \/ Main \/ Drainer \/ \E w \in Workers : Worker(w)
Next == Step

Spec == Init /\ [][Next]_vars
\* The runtime runs every goroutine that can go on.
Fairness ==
  /\ WF_vars(Producer) /\ WF_vars(Main) /\ WF_vars(Drainer)
  /\ \A w \in Workers : WF_vars(Worker(w))
FairSpec == Spec /\ Fairness

-----------------------------------------------------------------------------
\* The variables have their types and no channel holds more than its capacity.
TypeOK ==
  /\ matches \in Cases /\ row \in 0 .. Configs
  /\ pairs \in Seq(0 .. Configs) /\ Len(pairs) <= Cap
  /\ confs \in Seq(1 .. Configs) /\ Len(confs) <= Cap
  /\ vulns \in Seq(All) /\ Len(vulns) <= Cap
  /\ main \in {"recv", "forward", "close", "wait", "read", "done"}
  /\ hand \in 0 .. Configs
  /\ worker \in [Workers -> [pc : {"idle", "send", "done"}, todo : Seq(All)]]
  /\ drainer \in {"none", "recv", "append", "done"}
  /\ item \in All \cup {Blank} /\ res \in Seq(All) /\ seen \in Seq(All \cup {Blank})
  /\ result \in {"none", "ok", "error"}
  /\ pairsClosed \in BOOLEAN /\ confsClosed \in BOOLEAN /\ vulnsClosed \in BOOLEAN

\* No worker sends on the result channel once it is closed: that would panic.
NoSendOnClosed == vulnsClosed => \A w \in Workers : worker[w].pc # "send"

(* Every result the workers have produced is in exactly one place: still to be
   sent, in the channel, in the drainer's hand, or collected.                *)
Places ==
  [m \in All |->
     Cardinality({w \in Workers : \E i \in 1 .. Len(worker[w].todo) : worker[w].todo[i] = m})
     + Cardinality({i \in 1 .. Len(vulns) : vulns[i] = m})
     + Cardinality({i \in 1 .. Len(res) : res[i] = m})
     + IF item = m THEN 1 ELSE 0]
Waiting(c) ==
  \/ row < c
  \/ \E i \in 1 .. Len(pairs) : pairs[i] = c
  \/ hand = c
  \/ \E i \in 1 .. Len(confs) : confs[i] = c
EachResultOnce == \A m \in All : Places[m] = IF Waiting(m[1]) THEN 0 ELSE 1

(* Of the configurations that were read the caller may miss results, but no more than the
   channel and the drainer's hand can hold.  What rows ended early by an error have not
   read it misses altogether.                                                *)
LossIsBounded ==
  result = "ok" =>
    Cardinality({m \in OfRead : ~\E i \in 1 .. Len(seen) : seen[i] = m}) <= Cap + 1

(* In every state the channels are within their capacities, nobody sends on a closed
   one, and every result is in one place.                                    *)
Inv == TypeOK /\ NoSendOnClosed /\ EachResultOnce

(* Notifications returns, for any number of configurations and matches.      *)
RoundEnds == <>(main = "done")

(* The goroutines come to a halt before Notifications returns in one way only: the
   result channel is full and its drainer was never started, which takes more results
   of the configurations read than the channel holds.                        *)
HaltedUndrained == drainer = "none" /\ Len(vulns) = Cap /\ main \in {"forward", "wait"}
RoundEndsUnlessFull ==
  <>(main = "done") \/ <>[](HaltedUndrained /\ Cardinality(OfRead) > Cap)

(* Notifications goes on with every vulnerability its workers found.         *)
NothingLost == result = "ok" => \A m \in All : \E i \in 1 .. Len(seen) : seen[i] = m
=============================================================================
