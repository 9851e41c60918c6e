------------------------ MODULE NotifyPipeline_proofs ------------------------
(* What holds of the goroutines of Notifications() for any configurations and
   matches, any number of workers and any capacity of the channels.          *)
EXTENDS NotifyPipeline, FiniteSetTheorems, TLAPS

In(m, s) == \E i \in 1 .. Len(s) : s[i] = m
NoneTwice(s) == \A i, j \in 1 .. Len(s) : s[i] = s[j] => i = j

\* Who is in the middle of something has it in hand.
Hands ==
  /\ hand # Error <=> main = "forward"
  /\ item # Blank <=> drainer = "append"
  /\ \A w \in Workers : worker[w].pc = "send" <=> worker[w].todo # <<>>

\* Configurations go through the channels in order, so that each is in one place.
Increasing(s) == \A i, j \in 1 .. Len(s) : i < j /\ s[j] # Error => s[i] # Error /\ s[i] < s[j]
InOrder ==
  /\ Increasing(pairs) /\ Increasing(confs) /\ hand <= row
  /\ \A c \in 0 .. Configs : In(c, pairs) =>
       c <= row /\ (IF c = Error THEN pairsClosed ELSE hand < c)
  /\ \A b \in 1 .. Configs : In(b, confs) =>
       /\ b <= row /\ (hand # Error => b < hand)
       /\ \A c \in 1 .. Configs : In(c, pairs) => b < c

\* The channels are closed in order; who goes on without an error has received everything.
Closing ==
  /\ confsClosed => main \in {"wait", "read", "done"}
  /\ \A w \in Workers : worker[w].pc = "done" => confsClosed /\ confs = <<>>
  /\ vulnsClosed => main \in {"read", "done"} /\ \A w \in Workers : worker[w].pc = "done"
  /\ main \in {"recv", "forward"} => result = "none" /\ drainer = "none"
  /\ main = "read" => vulnsClosed /\ result = "none"
  /\ main \in {"close", "wait", "read"} /\ result = "none" => pairs = <<>> /\ pairsClosed
  /\ result = "ok" => main = "done" /\ pairsClosed

\* A result is nowhere as long as its configuration has not been taken by a worker, and
\* then in one place.
Placed ==
  /\ NoneTwice(vulns) /\ NoneTwice(res) /\ \A w \in Workers : NoneTwice(worker[w].todo)
  /\ \A m \in All :
       /\ \A w \in Workers : In(m, worker[w].todo) =>
            /\ \A x \in Workers : In(m, worker[x].todo) => x = w
            /\ ~In(m, vulns) /\ ~In(m, res) /\ item # m
       /\ In(m, vulns) => ~In(m, res) /\ item # m
       /\ In(m, res) => item # m
       /\ Waiting(m[1]) <=> /\ \A w \in Workers : ~In(m, worker[w].todo)
                            /\ ~In(m, vulns) /\ ~In(m, res) /\ item # m

NotifyInv == TypeOK /\ Hands /\ InOrder /\ Closing /\ Placed
-----------------------------------------------------------------------------
LEMMA AppendFacts ==
  ASSUME NEW S, NEW s \in Seq(S), NEW e \in S
  PROVE  /\ Append(s, e) \in Seq(S) /\ Len(Append(s, e)) = Len(s) + 1
         /\ \A i \in 1 .. Len(s) : Append(s, e)[i] = s[i]
         /\ Append(s, e)[Len(s) + 1] = e
         /\ \A m : In(m, Append(s, e)) <=> In(m, s) \/ m = e
         /\ NoneTwice(s) /\ ~In(e, s) => NoneTwice(Append(s, e))
<1>1. /\ Append(s, e) \in Seq(S) /\ Len(Append(s, e)) = Len(s) + 1
      /\ \A i \in 1 .. Len(s) : Append(s, e)[i] = s[i]
      /\ Append(s, e)[Len(s) + 1] = e
  OBVIOUS
<1>2. Len(s) \in Nat
  OBVIOUS
<1>3. ASSUME NEW m PROVE In(m, Append(s, e)) <=> In(m, s) \/ m = e
  BY <1>1, <1>2 DEF In
<1>4. NoneTwice(s) /\ ~In(e, s) => NoneTwice(Append(s, e))
  BY <1>1, <1>2 DEF In, NoneTwice
<1> QED BY <1>1, <1>3, <1>4

LEMMA TailFacts ==
  ASSUME NEW S, NEW s \in Seq(S), s # <<>>
  PROVE  /\ Tail(s) \in Seq(S) /\ Len(Tail(s)) = Len(s) - 1 /\ Head(s) \in S /\ Len(s) > 0
         /\ Head(s) = s[1] /\ \A i \in 1 .. Len(Tail(s)) : Tail(s)[i] = s[i + 1]
         /\ In(Head(s), s) /\ \A m : In(m, s) <=> In(m, Tail(s)) \/ m = Head(s)
         /\ NoneTwice(s) => NoneTwice(Tail(s)) /\ ~In(Head(s), Tail(s))
<1>1. /\ Tail(s) \in Seq(S) /\ Len(Tail(s)) = Len(s) - 1 /\ Head(s) \in S /\ Len(s) > 0
      /\ Head(s) = s[1] /\ \A i \in 1 .. Len(Tail(s)) : Tail(s)[i] = s[i + 1]
  OBVIOUS
<1>2. Len(s) \in Nat
  OBVIOUS
<1>3. ASSUME NEW m PROVE In(m, s) <=> In(m, Tail(s)) \/ m = Head(s)
  <2>1. ASSUME NEW i \in 1 .. Len(s), s[i] = m, m # Head(s) PROVE In(m, Tail(s))
    <3>1. i - 1 \in 1 .. Len(Tail(s)) /\ Tail(s)[i - 1] = s[i]
      BY <1>1, <1>2, <2>1
    <3> QED BY <2>1, <3>1 DEF In
  <2>2. ASSUME NEW i \in 1 .. Len(Tail(s)), Tail(s)[i] = m PROVE In(m, s)
    BY <1>1, <1>2, <2>2 DEF In
  <2>3. In(Head(s), s)
    BY <1>1, <1>2 DEF In
  <2> QED BY <2>1, <2>2, <2>3 DEF In
<1>4. NoneTwice(s) => NoneTwice(Tail(s)) /\ ~In(Head(s), Tail(s))
  BY <1>1, <1>2 DEF In, NoneTwice
<1> QED BY <1>1, <1>3, <1>4

LEMMA InSeq == \A S : \A s \in Seq(S) : \A m : In(m, s) => m \in S
BY DEF In

LEMMA EmptySeq == \A S : \A s \in Seq(S) : s = <<>> <=> Len(s) = 0
OBVIOUS

LEMMA IncreasingAppend ==
  ASSUME NEW N \in Nat, NEW s \in Seq(0 .. N), NEW e \in 0 .. N, Increasing(s), ~In(Error, s),
         e = Error \/ \A c \in 0 .. N : In(c, s) => c < e
  PROVE  Increasing(Append(s, e))
<1> DEFINE longer == Append(s, e)
<1>1. /\ Len(s) \in Nat /\ Len(longer) = Len(s) + 1
      /\ \A i \in 1 .. Len(s) : longer[i] = s[i]
      /\ longer[Len(s) + 1] = e
  OBVIOUS
<1>2. \A i \in 1 .. Len(s) : s[i] \in 0 .. N /\ s[i] # Error /\ (e = Error \/ s[i] < e)
  BY DEF In
<1> SUFFICES ASSUME NEW i \in 1 .. Len(longer), NEW j \in 1 .. Len(longer), i < j,
                    longer[j] # Error
             PROVE  longer[i] # Error /\ longer[i] < longer[j]
  BY DEF Increasing
<1>3. i \in 1 .. Len(s) /\ longer[i] = s[i]
  BY <1>1
<1>4. CASE j = Len(s) + 1
  BY <1>1, <1>2, <1>3, <1>4
<1>5. CASE j # Len(s) + 1
  <2>1. j \in 1 .. Len(s) /\ longer[j] = s[j]
    BY <1>1, <1>5
  <2> QED BY <1>3, <2>1 DEF Increasing
<1> QED BY <1>4, <1>5

LEMMA IncreasingTail ==
  ASSUME NEW S, NEW s \in Seq(S), s # <<>>, Increasing(s)
  PROVE  Increasing(Tail(s)) /\ \A c : In(c, Tail(s)) /\ c # Error => Head(s) # Error /\ Head(s) < c
<1>1. /\ Len(s) \in Nat /\ Len(Tail(s)) = Len(s) - 1 /\ Head(s) = s[1]
      /\ \A i \in 1 .. Len(Tail(s)) : Tail(s)[i] = s[i + 1]
  OBVIOUS
<1>2. Increasing(Tail(s))
  BY <1>1 DEF Increasing
<1>3. \A i \in 1 .. Len(Tail(s)) : Tail(s)[i] # Error => Head(s) # Error /\ Head(s) < Tail(s)[i]
  BY <1>1 DEF Increasing
<1> QED BY <1>2, <1>3 DEF In

LEMMA WaitingIs ==
  \A c : /\ Waiting(c) <=> row < c \/ In(c, pairs) \/ hand = c \/ In(c, confs)
         /\ Waiting(c)' <=> row' < c \/ In(c, pairs') \/ hand' = c \/ In(c, confs')
BY DEF Waiting, In

LEMMA EmptyFacts == ~(\E m : In(m, <<>>)) /\ NoneTwice(<<>>) /\ Increasing(<<>>)
BY DEF In, NoneTwice, Increasing

\* A result is of a configuration.
LEMMA AllFacts ==
  ASSUME matches \in Cases
  PROVE  /\ Configs \in Nat /\ \A c \in 1 .. Configs : matches[c] \in Nat
         /\ \A m \in All : m[1] \in 1 .. Configs /\ m # Blank
         /\ \A m \in All : m = <<m[1], m[2]>> /\ m[2] \in 1 .. matches[m[1]]
         /\ \A c \in 1 .. Configs : \A k \in 1 .. matches[c] : <<c, k>> \in All
<1>1. Configs \in Nat /\ \A c \in 1 .. Configs : matches[c] \in Nat
  BY PipelineAssumption DEF Configs
<1> QED BY <1>1 DEF All, Blank

LEMMA InitNotifyInv == Init => NotifyInv
<1> SUFFICES ASSUME Init PROVE NotifyInv
  OBVIOUS
<1> USE AllFacts, EmptyFacts DEF Init
<1>1. TypeOK
  <2>1. Configs \in Nat /\ Cap \in Nat
    BY PipelineAssumption
  <2>2. worker \in [Workers -> [pc : {"idle", "send", "done"}, todo : Seq(All)]]
    OBVIOUS
  <2>3. row \in 0 .. Configs /\ hand \in 0 .. Configs
    BY <2>1 DEF Error
  <2>4. /\ pairs \in Seq(0 .. Configs) /\ Len(pairs) <= Cap
        /\ confs \in Seq(1 .. Configs) /\ Len(confs) <= Cap
        /\ vulns \in Seq(All) /\ Len(vulns) <= Cap
        /\ res \in Seq(All) /\ seen \in Seq(All \cup {Blank})
    BY <2>1
  <2> QED BY <2>2, <2>3, <2>4 DEF TypeOK
<1>2. Hands
  BY DEF Hands
<1>3. InOrder
  BY DEF InOrder, Error
<1>4. Closing
  BY DEF Closing
<1>5. Placed
  BY DEF Placed, Waiting
<1> QED BY <1>1, <1>2, <1>3, <1>4, <1>5 DEF NotifyInv

-----------------------------------------------------------------------------
\* The results that are on their way stay where they are.
LEMMA PlacesStay ==
  ASSUME Placed, UNCHANGED <<matches, worker, vulns, res, item>>,
         \A c \in 1 .. Configs : Waiting(c)' <=> Waiting(c), TypeOK
  PROVE  Placed'
<1>1. All' = All /\ \A m \in All : m[1] \in 1 .. Configs
  BY AllFacts DEF All, Configs, TypeOK
<1>2. \A m \in All : Waiting(m[1])' <=> Waiting(m[1])
  BY <1>1
<1> QED BY <1>1, <1>2 DEF Placed

LEMMA ProduceKeeps ==
  ASSUME NotifyInv, Producer PROVE NotifyInv'
<1> USE DEF NotifyInv
<1>1. /\ ~pairsClosed
      /\ UNCHANGED <<matches, main, hand, confs, confsClosed, worker, vulns, vulnsClosed,
                     drainer, item, res, seen, result>>
  BY DEF Producer, ProduceRow, ProduceError, ProduceEnd, drained
<1>2. /\ Configs' = Configs /\ All' = All /\ Configs \in Nat /\ row \in 0 .. Configs
      /\ pairs \in Seq(0 .. Configs) /\ confs \in Seq(1 .. Configs) /\ hand \in 0 .. Configs
      /\ Len(pairs) \in Nat /\ Len(confs) \in Nat
  BY <1>1, AllFacts DEF TypeOK, Configs, All
<1>3. CASE ProduceRow
  <2>1. row < Configs /\ Len(pairs) < Cap /\ row' = row + 1 /\ pairs' = Append(pairs, row + 1)
        /\ pairsClosed' = pairsClosed
    BY <1>3 DEF ProduceRow
  <2>2. /\ pairs' \in Seq(0 .. Configs) /\ Len(pairs') = Len(pairs) + 1
        /\ \A i \in 1 .. Len(pairs) : pairs'[i] = pairs[i]
        /\ pairs'[Len(pairs) + 1] = row + 1
        /\ \A c : In(c, pairs') <=> In(c, pairs) \/ c = row + 1
    <3>1. row + 1 \in 0 .. Configs
      BY <1>2, <2>1
    <3> DEFINE longer == Append(pairs, row + 1)
    <3>2. /\ longer \in Seq(0 .. Configs) /\ Len(longer) = Len(pairs) + 1
          /\ \A i \in 1 .. Len(pairs) : longer[i] = pairs[i]
          /\ longer[Len(pairs) + 1] = row + 1
          /\ \A c : In(c, longer) <=> In(c, pairs) \/ c = row + 1
      BY <1>2, <3>1, AppendFacts
    <3> QED BY <2>1, <3>2
  <2>3. TypeOK'
    BY <1>1, <1>2, <2>1, <2>2, PipelineAssumption DEF TypeOK
  <2>4. Hands' /\ Closing'
    BY <1>1, <1>2, <2>1 DEF Hands, Closing
  <2>5. ~In(Error, pairs) /\ \A c \in 0 .. Configs : In(c, pairs) => c < row + 1
    BY <1>1, <1>2 DEF InOrder, Error
  <2>6. Increasing(pairs')
    BY <1>2, <2>1, <2>5, IncreasingAppend DEF InOrder
  <2>7. InOrder'
    BY <1>1, <1>2, <2>1, <2>2, <2>5, <2>6 DEF InOrder, Error
  <2>8. \A c \in 1 .. Configs : Waiting(c)' <=> Waiting(c)
    <3>1. \A c \in 1 .. Configs : row < c <=> row' < c \/ c = row + 1
      BY <1>2, <2>1
    <3> QED BY <1>1, <2>2, <3>1, WaitingIs
  <2> QED BY <1>1, <2>3, <2>4, <2>7, <2>8, PlacesStay
<1>4. CASE ProduceError
  <2>1. row < Configs /\ Len(pairs) < Cap /\ pairs' = Append(pairs, Error) /\ pairsClosed'
        /\ row' = row
    BY <1>4 DEF ProduceError
  <2>2. /\ pairs' \in Seq(0 .. Configs) /\ Len(pairs') = Len(pairs) + 1
        /\ \A i \in 1 .. Len(pairs) : pairs'[i] = pairs[i]
        /\ pairs'[Len(pairs) + 1] = Error
        /\ \A c : In(c, pairs') <=> In(c, pairs) \/ c = Error
    <3>1. Error \in 0 .. Configs
      BY <1>2 DEF Error
    <3> DEFINE longer == Append(pairs, Error)
    <3>2. /\ longer \in Seq(0 .. Configs) /\ Len(longer) = Len(pairs) + 1
          /\ \A i \in 1 .. Len(pairs) : longer[i] = pairs[i]
          /\ longer[Len(pairs) + 1] = Error
          /\ \A c : In(c, longer) <=> In(c, pairs) \/ c = Error
      BY <1>2, <3>1, AppendFacts
    <3> QED BY <2>1, <3>2
  <2>3. TypeOK'
    BY <1>1, <1>2, <2>1, <2>2, PipelineAssumption DEF TypeOK
  <2>4. Hands'
    BY <1>1, <1>2, <2>1 DEF Hands
  <2>5. ~In(Error, pairs)
    BY <1>1, <1>2 DEF InOrder, Error
  <2>6. InOrder'
    <3>1. Increasing(pairs')
      BY <1>2, <2>1, <2>5, IncreasingAppend DEF InOrder, Error
    <3> QED BY <1>1, <1>2, <2>1, <2>2, <3>1 DEF InOrder, Error
  <2>7. Closing'
    <3>1. main \in {"close", "wait", "read"} /\ result = "none" => FALSE
      BY <1>1 DEF Closing
    <3> QED BY <1>1, <1>2, <2>1, <3>1 DEF Closing
  <2>8. \A c \in 1 .. Configs : Waiting(c)' <=> Waiting(c)
    BY <1>1, <1>2, <2>1, <2>2, WaitingIs DEF Error
  <2> QED BY <1>1, <2>3, <2>4, <2>6, <2>7, <2>8, PlacesStay
<1>5. CASE ProduceEnd
  <2>1. pairsClosed' = TRUE /\ row' = row /\ pairs' = pairs
    BY <1>5 DEF ProduceEnd
  <2>2. TypeOK' /\ Hands' /\ InOrder' /\ Closing'
    BY <1>1, <1>2, <2>1 DEF TypeOK, Hands, InOrder, Closing
  <2>3. \A c \in 1 .. Configs : Waiting(c)' <=> Waiting(c)
    BY <1>1, <2>1 DEF Waiting
  <2> QED BY <1>1, <2>2, <2>3, PlacesStay
<1> QED BY <1>3, <1>4, <1>5 DEF Producer

-----------------------------------------------------------------------------
LEMMA ReceiveKeeps ==
  ASSUME NotifyInv, Receive PROVE NotifyInv'
<1> USE DEF NotifyInv
<1>1. /\ main = "recv" /\ pairs # <<>> /\ hand' = Head(pairs) /\ pairs' = Tail(pairs)
      /\ main' = IF Head(pairs) = Error THEN "close" ELSE "forward"
      /\ result' = IF Head(pairs) = Error THEN "error" ELSE result
      /\ UNCHANGED <<matches, row, pairsClosed, confs, confsClosed, worker, vulns, vulnsClosed,
                     drainer, item, res, seen>>
  BY DEF Receive, Goto
<1>2. /\ Configs' = Configs /\ All' = All /\ Configs \in Nat /\ row \in 0 .. Configs
      /\ pairs \in Seq(0 .. Configs) /\ confs \in Seq(1 .. Configs) /\ hand = Error
      /\ Len(pairs) \in Nat /\ Len(confs) \in Nat /\ result = "none"
  BY <1>1, AllFacts DEF TypeOK, Configs, All, Hands, Closing
<1>3. /\ pairs' \in Seq(0 .. Configs) /\ Len(pairs') = Len(pairs) - 1
      /\ hand' \in 0 .. Configs /\ Len(pairs) > 0 /\ hand' = pairs[1]
      /\ \A i \in 1 .. Len(pairs') : pairs'[i] = pairs[i + 1]
      /\ \A c : In(c, pairs) <=> In(c, pairs') \/ c = hand'
  <2> DEFINE shorter == Tail(pairs)
  <2>1. /\ shorter \in Seq(0 .. Configs) /\ Len(shorter) = Len(pairs) - 1
        /\ Head(pairs) \in 0 .. Configs /\ Len(pairs) > 0 /\ Head(pairs) = pairs[1]
        /\ \A i \in 1 .. Len(shorter) : shorter[i] = pairs[i + 1]
        /\ \A c : In(c, pairs) <=> In(c, shorter) \/ c = Head(pairs)
    BY <1>1, <1>2, TailFacts
  <2> QED BY <1>1, <2>1
<1>4. TypeOK'
  BY <1>1, <1>2, <1>3, PipelineAssumption DEF TypeOK
<1>5. Hands'
  BY <1>1, <1>2, <1>3 DEF Hands
<1>6. InOrder'
  <2>1. Increasing(pairs') /\ \A c : In(c, pairs') /\ c # Error => hand' # Error /\ hand' < c
    BY <1>1, <1>2, IncreasingTail DEF InOrder
  <2> QED BY <1>1, <1>2, <1>3, <2>1 DEF InOrder, Error
<1>7. Closing'
  <2>1. /\ ~confsClosed /\ ~vulnsClosed
        /\ main' \in {"close", "forward"} /\ (main' = "close" <=> result' = "error")
        /\ result' \in {"none", "error"} /\ (result' = "error" \/ result' = "none")
    BY <1>1, <1>2 DEF Closing
  <2> QED BY <1>1, <1>2, <2>1 DEF Closing
<1>8. \A c \in 1 .. Configs : Waiting(c)' <=> Waiting(c)
  BY <1>1, <1>2, <1>3, WaitingIs DEF Error
<1> QED BY <1>1, <1>4, <1>5, <1>6, <1>7, <1>8, PlacesStay

LEMMA ForwardKeeps ==
  ASSUME NotifyInv, Forward PROVE NotifyInv'
<1> USE DEF NotifyInv
<1>1. /\ main = "forward" /\ Len(confs) < Cap /\ confs' = Append(confs, hand) /\ hand' = Error
      /\ main' = "recv"
      /\ UNCHANGED <<matches, row, pairs, pairsClosed, confsClosed, worker, vulns, vulnsClosed,
                     drainer, item, res, seen, result>>
  BY DEF Forward, Goto, produced
<1>2. /\ Configs' = Configs /\ All' = All /\ Configs \in Nat /\ row \in 0 .. Configs
      /\ pairs \in Seq(0 .. Configs) /\ confs \in Seq(1 .. Configs)
      /\ hand \in 1 .. Configs /\ Len(pairs) \in Nat /\ Len(confs) \in Nat
  BY <1>1, AllFacts DEF TypeOK, Configs, All, Hands, Error
<1>3. /\ confs' \in Seq(1 .. Configs) /\ Len(confs') = Len(confs) + 1
      /\ \A i \in 1 .. Len(confs) : confs'[i] = confs[i]
      /\ confs'[Len(confs) + 1] = hand
      /\ \A c : In(c, confs') <=> In(c, confs) \/ c = hand
  <2> DEFINE longer == Append(confs, hand)
  <2>1. /\ longer \in Seq(1 .. Configs) /\ Len(longer) = Len(confs) + 1
        /\ \A i \in 1 .. Len(confs) : longer[i] = confs[i]
        /\ longer[Len(confs) + 1] = hand
        /\ \A c : In(c, longer) <=> In(c, confs) \/ c = hand
    BY <1>2, AppendFacts
  <2> QED BY <1>1, <2>1
<1>4. TypeOK'
  BY <1>1, <1>2, <1>3, PipelineAssumption DEF TypeOK, Error
<1>5. Hands'
  BY <1>1 DEF Hands
<1>6. InOrder'
  <2>1. ~In(Error, confs) /\ \A c \in 0 .. Configs : In(c, confs) => c < hand
    BY <1>2 DEF In, InOrder, Error
  <2>2. confs \in Seq(0 .. Configs) /\ hand \in 0 .. Configs
    BY <1>2
  <2>3. Increasing(confs')
    BY <1>1, <1>2, <2>1, <2>2, IncreasingAppend DEF InOrder
  <2>4. hand <= row /\ \A c \in 1 .. Configs : In(c, pairs) => hand < c
    BY <1>2 DEF InOrder, Error
  <2> QED BY <1>1, <1>2, <1>3, <2>3, <2>4 DEF InOrder, Error
<1>7. Closing'
  BY <1>1, <1>2 DEF Closing
<1>8. \A c \in 1 .. Configs : Waiting(c)' <=> Waiting(c)
  BY <1>1, <1>2, <1>3, WaitingIs DEF Error
<1> QED BY <1>1, <1>4, <1>5, <1>6, <1>7, <1>8, PlacesStay

\* The caller's steps that move nothing.
LEMMA CallerKeeps ==
  ASSUME NotifyInv, StartDrainer \/ CloseConfs \/ WaitWorkers \/ ReadResults PROVE NotifyInv'
<1> USE DEF NotifyInv
<1>1. UNCHANGED <<matches, row, pairs, pairsClosed, hand, confs, worker, vulns, item, res>>
  BY DEF StartDrainer, CloseConfs, WaitWorkers, ReadResults, Goto, produced
<1>2. Configs' = Configs /\ All' = All
  BY <1>1 DEF Configs, All
<1>3. \A c \in 1 .. Configs : Waiting(c)' <=> Waiting(c)
  BY <1>1 DEF Waiting
<1>4. InOrder' /\ Placed'
  BY <1>1, <1>2, <1>3, PlacesStay DEF InOrder
<1>5. CASE StartDrainer
  <2>1. /\ main = "recv" /\ pairs = <<>> /\ pairsClosed /\ drainer' = "recv" /\ main' = "close"
        /\ UNCHANGED <<confsClosed, vulnsClosed, seen, result>>
    BY <1>5 DEF StartDrainer, Goto
  <2>2. drainer # "append"
    BY <2>1 DEF Closing
  <2>3. TypeOK' /\ Hands' /\ Closing'
    BY <1>1, <1>2, <2>1, <2>2 DEF TypeOK, Hands, Closing
  <2> QED BY <1>4, <2>3
<1>6. CASE CloseConfs
  <2>1. /\ main = "close" /\ confsClosed' = TRUE /\ main' = "wait"
        /\ UNCHANGED <<vulnsClosed, drainer, seen, result>>
    BY <1>6 DEF CloseConfs, Goto
  <2>2. TypeOK' /\ Hands' /\ Closing'
    BY <1>1, <1>2, <2>1 DEF TypeOK, Hands, Closing
  <2> QED BY <1>4, <2>2
<1>7. CASE WaitWorkers
  <2>1. /\ main = "wait" /\ (\A w \in Workers : worker[w].pc = "done") /\ vulnsClosed' = TRUE
        /\ main' = IF result = "error" THEN "done" ELSE "read"
        /\ UNCHANGED <<confsClosed, drainer, seen, result>>
    BY <1>7 DEF WaitWorkers, Goto
  <2>2. result \in {"none", "error"}
    BY <2>1 DEF Closing, TypeOK
  <2>3. TypeOK' /\ Hands' /\ Closing'
    BY <1>1, <1>2, <2>1, <2>2 DEF TypeOK, Hands, Closing
  <2> QED BY <1>4, <2>3
<1>8. CASE ReadResults
  <2>1. /\ main = "read" /\ seen' \in Readable /\ result' = "ok" /\ main' = "done"
        /\ UNCHANGED <<confsClosed, vulnsClosed, drainer>>
    BY <1>8 DEF ReadResults, Goto
  <2>2. seen' \in Seq(All \cup {Blank})
    <3>1. res \in Seq(All \cup {Blank})
      BY DEF TypeOK
    <3> QED BY <2>1, <3>1 DEF Readable
  <2>3. TypeOK' /\ Hands' /\ Closing'
    BY <1>1, <1>2, <2>1, <2>2 DEF TypeOK, Hands, Closing
  <2> QED BY <1>4, <2>3
<1> QED BY <1>5, <1>6, <1>7, <1>8

-----------------------------------------------------------------------------
LEMMA EndWorkerKeeps ==
  ASSUME NotifyInv, NEW w \in Workers, EndWorker(w) PROVE NotifyInv'
<1> USE DEF NotifyInv
<1>1. /\ worker[w].pc = "idle" /\ confs = <<>> /\ confsClosed
      /\ worker' = [worker EXCEPT ![w].pc = "done"]
      /\ UNCHANGED <<matches, row, pairs, pairsClosed, main, hand, confs, confsClosed, vulns,
                     vulnsClosed, drainer, item, res, seen, result>>
  BY DEF EndWorker, produced, drained
<1>2. Configs' = Configs /\ All' = All
  BY <1>1 DEF Configs, All
<1>3. /\ worker' \in [Workers -> [pc : {"idle", "send", "done"}, todo : Seq(All)]]
      /\ \A x \in Workers : /\ worker'[x].todo = worker[x].todo
                            /\ worker'[x].pc = IF x = w THEN "done" ELSE worker[x].pc
  BY <1>1 DEF TypeOK
<1>4. TypeOK' /\ Hands' /\ InOrder'
  BY <1>1, <1>2, <1>3 DEF TypeOK, Hands, InOrder
<1>5. Closing'
  BY <1>1, <1>2, <1>3 DEF Closing
<1>6. Placed'
  <2>1. \A c : Waiting(c)' <=> Waiting(c)
    BY <1>1 DEF Waiting
  <2> QED BY <1>1, <1>2, <1>3, <2>1 DEF Placed
<1> QED BY <1>4, <1>5, <1>6

\* A worker takes a configuration: its results are begun with.
LEMMA TakeKeeps ==
  ASSUME NotifyInv, NEW w \in Workers, Take(w) PROVE NotifyInv'
<1> USE DEF NotifyInv
<1> DEFINE c == Head(confs)
           results == [k \in 1 .. matches[c] |-> <<c, k>>]
<1>1. /\ worker[w].pc = "idle" /\ confs # <<>> /\ confs' = Tail(confs)
      /\ worker' = [worker EXCEPT ![w] =
                     IF matches[c] = 0 THEN @ ELSE [pc |-> "send", todo |-> results]]
      /\ UNCHANGED <<matches, row, pairs, pairsClosed, main, hand, confsClosed, vulns,
                     vulnsClosed, drainer, item, res, seen, result>>
  BY DEF Take, produced, drained
<1>2. /\ Configs' = Configs /\ All' = All /\ Configs \in Nat /\ row \in 0 .. Configs
      /\ pairs \in Seq(0 .. Configs) /\ confs \in Seq(1 .. Configs) /\ hand \in 0 .. Configs
      /\ Len(confs) \in Nat
  BY <1>1, AllFacts DEF TypeOK, Configs, All
<1>3. /\ confs' \in Seq(1 .. Configs) /\ Len(confs') = Len(confs) - 1
      /\ c \in 1 .. Configs /\ In(c, confs)
      /\ \A b : In(b, confs) <=> In(b, confs') \/ b = c
      /\ Increasing(confs') /\ \A b : In(b, confs') /\ b # Error => b > c
  <2> DEFINE shorter == Tail(confs)
  <2>1. /\ shorter \in Seq(1 .. Configs) /\ Len(shorter) = Len(confs) - 1
        /\ Head(confs) \in 1 .. Configs /\ In(Head(confs), confs)
        /\ \A b : In(b, confs) <=> In(b, shorter) \/ b = Head(confs)
    BY <1>1, <1>2, TailFacts
  <2>2. Increasing(shorter) /\ \A b : In(b, shorter) /\ b # Error => Head(confs) < b
    BY <1>1, <1>2, IncreasingTail DEF InOrder
  <2>3. \A b : In(b, shorter) => b \in 1 .. Configs
    BY <2>1, InSeq
  <2> HIDE DEF shorter
  <2>4. \A b : In(b, shorter) /\ b # Error => b > Head(confs)
    BY <1>2, <2>1, <2>2, <2>3
  <2> QED BY <1>1, <2>1, <2>2, <2>4 DEF shorter
<1>4. matches[c] \in Nat /\ matches \in Cases
  BY <1>3, AllFacts DEF TypeOK
<1>5. /\ results \in Seq(All) /\ NoneTwice(results)
      /\ \A m \in All : In(m, results) <=> m[1] = c
      /\ matches[c] # 0 => results # <<>>
      /\ matches[c] = 0 => ~ \E m \in All : m[1] = c
  <2>1. \A k \in 1 .. matches[c] : <<c, k>> \in All
    BY <1>3, <1>4, AllFacts
  <2>2. results \in Seq(All) /\ Len(results) = matches[c]
    BY <1>4, <2>1
  <2>3. NoneTwice(results)
    BY <2>2 DEF NoneTwice
  <2>4. \A m \in All : m[1] = c => m = <<c, m[2]>> /\ m[2] \in 1 .. matches[c]
    BY <1>4, AllFacts
  <2>5. \A m \in All : In(m, results) <=> m[1] = c
    <3>1. ASSUME NEW m \in All, m[1] = c PROVE In(m, results)
      <4>1. m[2] \in 1 .. Len(results) /\ results[m[2]] = m
        BY <2>2, <2>4, <3>1
      <4> QED BY <4>1 DEF In
    <3>2. ASSUME NEW m \in All, In(m, results) PROVE m[1] = c
      <4>1. \A i \in 1 .. Len(results) : results[i] = <<c, i>>
        BY <2>2
      <4> HIDE DEF results
      <4> QED BY <3>2, <4>1 DEF In
    <3> QED BY <3>1, <3>2
  <2> QED BY <1>4, <2>2, <2>3, <2>4, <2>5
<1> HIDE DEF c, results
<1>6. /\ worker' \in [Workers -> [pc : {"idle", "send", "done"}, todo : Seq(All)]]
      /\ \A x \in Workers \ {w} : worker'[x] = worker[x]
      /\ worker'[w].todo = IF matches[c] = 0 THEN <<>> ELSE results
      /\ worker'[w].pc = IF matches[c] = 0 THEN "idle" ELSE "send"
      /\ worker[w].todo = <<>>
  BY <1>1, <1>5 DEF TypeOK, Hands
<1>7. TypeOK'
  BY <1>1, <1>2, <1>3, <1>6, PipelineAssumption, SMTT(30) DEF TypeOK
<1>8. Hands'
  BY <1>1, <1>5, <1>6 DEF Hands
<1>9. InOrder'
  BY <1>1, <1>2, <1>3 DEF InOrder
<1>10. Closing'
  <2>1. \A x \in Workers : worker[x].pc # "done"
    BY <1>1 DEF Closing
  <2> QED BY <1>1, <1>2, <1>6, <2>1 DEF Closing
<1>11. Placed'
  <2>1. \A b \in 1 .. Configs : Waiting(b)' <=> Waiting(b) /\ b # c
    <3>1. row >= c /\ hand # c /\ ~In(c, pairs) /\ ~In(c, confs')
      BY <1>2, <1>3, SMTT(30) DEF InOrder, Error
    <3> QED BY <1>1, <1>2, <1>3, <3>1, WaitingIs
  <2>2. Waiting(c) /\ \A m \in All : m[1] \in 1 .. Configs
    BY <1>3, <1>4, WaitingIs, AllFacts
  <2>3. \A m \in All : In(m, worker'[w].todo) <=> m[1] = c
    BY <1>5, <1>6, EmptyFacts
  <2>4. ~ \E m : In(m, worker[w].todo)
    BY <1>6, EmptyFacts
  <2>5. \A m \in All : m[1] = c =>
          /\ \A x \in Workers : ~In(m, worker[x].todo)
          /\ ~In(m, vulns) /\ ~In(m, res) /\ item # m
    BY <2>2 DEF Placed
  <2>6. NoneTwice(worker'[w].todo)
    BY <1>5, <1>6, EmptyFacts
  <2>7. \A m \in All : Waiting(m[1])' <=> Waiting(m[1]) /\ m[1] # c
    BY <2>1, <2>2
  <2>8. ASSUME NEW m \in All
        PROVE  /\ \A x \in Workers : In(m, worker'[x].todo) =>
                    /\ \A y \in Workers : In(m, worker'[y].todo) => y = x
                    /\ ~In(m, vulns) /\ ~In(m, res) /\ item # m
               /\ Waiting(m[1])' <=> /\ \A x \in Workers : ~In(m, worker'[x].todo)
                                     /\ ~In(m, vulns) /\ ~In(m, res) /\ item # m
    <3>1. CASE m[1] = c
      BY <1>6, <2>3, <2>5, <2>7, <3>1
    <3>2. CASE m[1] # c
      <4>1. \A x \in Workers : In(m, worker'[x].todo) <=> In(m, worker[x].todo)
        BY <1>6, <2>3, <2>4, <3>2
      <4> QED BY <2>7, <3>2, <4>1 DEF Placed
    <3> QED BY <3>1, <3>2
  <2>9. \A x \in Workers : NoneTwice(worker'[x].todo)
    BY <1>6, <2>6 DEF Placed
  <2> QED BY <1>1, <1>2, <2>8, <2>9 DEF Placed
<1> QED BY <1>7, <1>8, <1>9, <1>10, <1>11

LEMMA SendKeeps ==
  ASSUME NotifyInv, NEW w \in Workers, Send(w) PROVE NotifyInv'
<1> USE DEF NotifyInv
<1> DEFINE todo == worker[w].todo
           first == Head(todo)
<1>1. /\ worker[w].pc = "send" /\ Len(vulns) < Cap /\ vulns' = Append(vulns, first)
      /\ worker' = [worker EXCEPT ![w] =
                     [pc |-> IF Len(todo) = 1 THEN "idle" ELSE "send", todo |-> Tail(todo)]]
      /\ UNCHANGED <<matches, row, pairs, pairsClosed, main, hand, confs, confsClosed,
                     vulnsClosed, drainer, item, res, seen, result>>
  BY DEF Send, produced, drained
<1>2. Configs' = Configs /\ All' = All /\ vulns \in Seq(All) /\ todo \in Seq(All) /\ todo # <<>>
  BY <1>1 DEF Configs, All, TypeOK, Hands
<1>3. /\ Tail(todo) \in Seq(All) /\ Len(Tail(todo)) = Len(todo) - 1 /\ first \in All
      /\ (Len(todo) = 1 <=> Tail(todo) = <<>>)
      /\ In(first, todo) /\ \A m : In(m, todo) <=> In(m, Tail(todo)) \/ m = first
      /\ NoneTwice(Tail(todo)) /\ ~In(first, Tail(todo))
  <2>1. NoneTwice(todo)
    BY DEF Placed
  <2>2. /\ Tail(todo) \in Seq(All) /\ Len(Tail(todo)) = Len(todo) - 1 /\ first \in All
        /\ In(first, todo) /\ \A m : In(m, todo) <=> In(m, Tail(todo)) \/ m = first
        /\ NoneTwice(Tail(todo)) /\ ~In(first, Tail(todo))
    BY <1>2, <2>1, TailFacts
  <2>3. Len(todo) = 1 <=> Tail(todo) = <<>>
    <3>1. Tail(todo) = <<>> <=> Len(Tail(todo)) = 0
      BY <2>2, EmptySeq
    <3>2. Len(todo) \in Nat
      BY <1>2
    <3> QED BY <2>2, <3>1, <3>2
  <2> QED BY <2>2, <2>3
<1> HIDE DEF first, todo
<1>4. ~In(first, vulns) /\ ~In(first, res) /\ item # first
  BY <1>3 DEF Placed, todo
<1>5. /\ vulns' \in Seq(All) /\ Len(vulns') = Len(vulns) + 1 /\ NoneTwice(vulns')
      /\ \A m : In(m, vulns') <=> In(m, vulns) \/ m = first
  <2> DEFINE longer == Append(vulns, first)
  <2>1. NoneTwice(vulns)
    BY DEF Placed
  <2>2. /\ longer \in Seq(All) /\ Len(longer) = Len(vulns) + 1 /\ NoneTwice(longer)
        /\ \A m : In(m, longer) <=> In(m, vulns) \/ m = first
    BY <1>2, <1>3, <1>4, <2>1, AppendFacts
  <2> QED BY <1>1, <2>2
<1>6. /\ worker' \in [Workers -> [pc : {"idle", "send", "done"}, todo : Seq(All)]]
      /\ \A x \in Workers \ {w} : worker'[x] = worker[x]
      /\ worker'[w].todo = Tail(todo)
      /\ worker'[w].pc = IF Tail(todo) = <<>> THEN "idle" ELSE "send"
  BY <1>1, <1>3 DEF TypeOK
<1>7. TypeOK'
  <2>1. Len(vulns') <= Cap
    BY <1>1, <1>2, <1>5, PipelineAssumption
  <2> QED BY <1>1, <1>2, <1>5, <1>6, <2>1 DEF TypeOK
<1>8. Hands' /\ InOrder'
  BY <1>1, <1>2, <1>6 DEF Hands, InOrder
<1>9. Closing'
  BY <1>1, <1>2, <1>6 DEF Closing
<1>10. Placed'
  <2>1. \A b : Waiting(b)' <=> Waiting(b)
    BY <1>1 DEF Waiting
  <2>2. \A m : In(m, worker[w].todo) <=> In(m, worker'[w].todo) \/ m = first
    BY <1>3, <1>6 DEF todo
  <2>3. ~In(first, worker'[w].todo) /\ \A x \in Workers \ {w} : ~In(first, worker[x].todo)
    BY <1>3, <1>6, <2>2 DEF Placed
  <2>4. \A x \in Workers \ {w} : \A m : In(m, worker'[x].todo) <=> In(m, worker[x].todo)
    BY <1>6
  <2>5. \A x \in Workers : NoneTwice(worker'[x].todo)
    BY <1>3, <1>6 DEF Placed
  <2>6. ASSUME NEW m \in All
        PROVE  /\ \A x \in Workers : In(m, worker'[x].todo) =>
                    /\ \A y \in Workers : In(m, worker'[y].todo) => y = x
                    /\ ~In(m, vulns') /\ ~In(m, res) /\ item # m
               /\ In(m, vulns') => ~In(m, res) /\ item # m
               /\ Waiting(m[1]) <=> /\ \A x \in Workers : ~In(m, worker'[x].todo)
                                    /\ ~In(m, vulns') /\ ~In(m, res) /\ item # m
    <3>1. CASE m = first
      <4>1. In(m, worker[w].todo) /\ In(m, vulns')
        BY <1>5, <2>2, <3>1
      <4>2. ~Waiting(m[1])
        BY <4>1 DEF Placed
      <4> QED BY <1>4, <2>3, <2>4, <3>1, <4>1, <4>2
    <3>2. CASE m # first
      <4>1. /\ In(m, vulns') <=> In(m, vulns)
            /\ \A x \in Workers : In(m, worker'[x].todo) <=> In(m, worker[x].todo)
        BY <1>5, <2>2, <2>4, <3>2
      <4> QED BY <4>1 DEF Placed
    <3> QED BY <3>1, <3>2
  <2> QED BY <1>1, <1>2, <1>5, <2>1, <2>5, <2>6 DEF Placed
<1> QED BY <1>7, <1>8, <1>9, <1>10

-----------------------------------------------------------------------------
LEMMA DrainReceiveKeeps ==
  ASSUME NotifyInv, DrainReceive PROVE NotifyInv'
<1> USE DEF NotifyInv
<1>1. /\ drainer = "recv" /\ vulns # <<>> /\ item' = Head(vulns) /\ vulns' = Tail(vulns)
      /\ drainer' = "append"
      /\ UNCHANGED <<matches, row, pairs, pairsClosed, main, hand, confs, confsClosed, worker,
                     vulnsClosed, res, seen, result>>
  BY DEF DrainReceive, produced
<1>2. Configs' = Configs /\ All' = All /\ vulns \in Seq(All) /\ item = Blank /\ NoneTwice(vulns)
  BY <1>1 DEF Configs, All, TypeOK, Hands, Placed
<1>3. /\ vulns' \in Seq(All) /\ Len(vulns') = Len(vulns) - 1 /\ item' \in All
      /\ In(item', vulns) /\ \A m : In(m, vulns) <=> In(m, vulns') \/ m = item'
      /\ NoneTwice(vulns') /\ ~In(item', vulns')
  <2> DEFINE shorter == Tail(vulns)
             first == Head(vulns)
  <2>1. /\ shorter \in Seq(All) /\ Len(shorter) = Len(vulns) - 1 /\ first \in All
        /\ In(first, vulns) /\ \A m : In(m, vulns) <=> In(m, shorter) \/ m = first
        /\ NoneTwice(shorter) /\ ~In(first, shorter)
    BY <1>1, <1>2, TailFacts
  <2> QED BY <1>1, <2>1
<1>4. \A m \in All : m # Blank
  BY AllFacts DEF TypeOK
<1>5. TypeOK'
  BY <1>1, <1>2, <1>3, PipelineAssumption DEF TypeOK
<1>6. Hands' /\ InOrder' /\ Closing'
  BY <1>1, <1>2, <1>3, <1>4 DEF Hands, InOrder, Closing
<1>7. Placed'
  <2>1. \A b : Waiting(b)' <=> Waiting(b)
    BY <1>1 DEF Waiting
  <2> QED BY <1>1, <1>2, <1>3, <1>4, <2>1 DEF Placed
<1> QED BY <1>5, <1>6, <1>7

LEMMA DrainAppendKeeps ==
  ASSUME NotifyInv, DrainAppend PROVE NotifyInv'
<1> USE DEF NotifyInv
<1>1. /\ drainer = "append" /\ res' = Append(res, item) /\ item' = Blank /\ drainer' = "recv"
      /\ UNCHANGED <<matches, row, pairs, pairsClosed, main, hand, confs, confsClosed, worker,
                     vulns, vulnsClosed, seen, result>>
  BY DEF DrainAppend, produced
<1>2. /\ Configs' = Configs /\ All' = All /\ res \in Seq(All) /\ item \in All /\ NoneTwice(res)
  BY <1>1 DEF Configs, All, TypeOK, Hands, Placed
<1>3. ~In(item, res)
  BY <1>2 DEF Placed
<1>4. /\ res' \in Seq(All) /\ NoneTwice(res')
      /\ \A m : In(m, res') <=> In(m, res) \/ m = item
  <2> DEFINE longer == Append(res, item)
  <2>1. /\ longer \in Seq(All) /\ NoneTwice(longer)
        /\ \A m : In(m, longer) <=> In(m, res) \/ m = item
    BY <1>2, <1>3, AppendFacts
  <2> QED BY <1>1, <2>1
<1>5. \A m \in All : m # Blank
  BY AllFacts DEF TypeOK
<1>6. TypeOK' /\ Hands' /\ InOrder' /\ Closing'
  BY <1>1, <1>2, <1>4 DEF TypeOK, Hands, InOrder, Closing
<1>7. Placed'
  <2>1. \A b : Waiting(b)' <=> Waiting(b)
    BY <1>1 DEF Waiting
  <2>2. ~In(item, vulns) /\ \A x \in Workers : ~In(item, worker[x].todo)
    BY <1>2 DEF Placed
  <2> QED BY <1>1, <1>2, <1>4, <1>5, <2>1, <2>2 DEF Placed
<1> QED BY <1>6, <1>7

LEMMA DrainEndKeeps ==
  ASSUME NotifyInv, DrainEnd PROVE NotifyInv'
<1> USE DEF NotifyInv
<1>1. /\ drainer = "recv" /\ drainer' = "done"
      /\ UNCHANGED <<matches, row, pairs, pairsClosed, main, hand, confs, confsClosed, worker,
                     vulns, vulnsClosed, item, res, seen, result>>
  BY DEF DrainEnd, produced
<1>2. Configs' = Configs /\ All' = All /\ \A c \in 1 .. Configs : Waiting(c)' <=> Waiting(c)
  BY <1>1 DEF Configs, All, Waiting
<1>3. TypeOK' /\ Hands' /\ InOrder' /\ Closing'
  BY <1>1, <1>2 DEF TypeOK, Hands, InOrder, Closing
<1> QED BY <1>1, <1>2, <1>3, PlacesStay

LEMMA StutterKeeps ==
  ASSUME NotifyInv, UNCHANGED vars PROVE NotifyInv'
<1> USE DEF NotifyInv
<1>1. UNCHANGED <<matches, row, pairs, pairsClosed, main, hand, confs, confsClosed, worker,
                  vulns, vulnsClosed, drainer, item, res, seen, result>>
  BY DEF vars
<1>2. Configs' = Configs /\ All' = All /\ \A c \in 1 .. Configs : Waiting(c)' <=> Waiting(c)
  BY <1>1 DEF Configs, All, Waiting
<1>3. TypeOK' /\ Hands' /\ InOrder' /\ Closing'
  BY <1>1, <1>2 DEF TypeOK, Hands, InOrder, Closing
<1> QED BY <1>1, <1>2, <1>3, PlacesStay

LEMMA NextNotifyInv == NotifyInv /\ [Next]_vars => NotifyInv'
BY ProduceKeeps, ReceiveKeeps, ForwardKeeps, CallerKeeps, EndWorkerKeeps, TakeKeeps, SendKeeps,
   DrainReceiveKeeps, DrainAppendKeeps, DrainEndKeeps, StutterKeeps
   DEF Next, Step, Main, Worker, Drainer

LEMMA AlwaysNotifyInv == Spec => []NotifyInv
BY InitNotifyInv, NextNotifyInv, PTL DEF Spec

-----------------------------------------------------------------------------
LEMMA CountOf ==
  ASSUME NEW S, NEW s \in Seq(S), NoneTwice(s), NEW m
  PROVE  Cardinality({i \in 1 .. Len(s) : s[i] = m}) = IF In(m, s) THEN 1 ELSE 0
<1> DEFINE at == {i \in 1 .. Len(s) : s[i] = m}
<1>1. CASE In(m, s)
  <2>1. PICK i \in 1 .. Len(s) : s[i] = m
    BY <1>1 DEF In
  <2>2. at = {i}
    BY <2>1 DEF NoneTwice
  <2> HIDE DEF at
  <2>3. Cardinality(at) = 1
    BY <2>2, FS_Singleton
  <2> QED BY <1>1, <2>3 DEF at
<1>2. CASE ~In(m, s)
  <2>1. at = {}
    BY <1>2 DEF In
  <2> QED BY <1>2, <2>1, FS_EmptySet
<1> QED BY <1>1, <1>2

(* getConfigurations, processAll, Notifications: for any matches, workers and capacity,
   failing queries and every interleaving, no worker sends on the closed result channel,
   and each result is produced once and is in one place on its way.          *)
THEOREM ResultsAreKept == Spec => []Inv
<1>1. ASSUME NotifyInv PROVE NoSendOnClosed
  BY <1>1 DEF NotifyInv, Closing, NoSendOnClosed
<1>2. ASSUME NotifyInv PROVE EachResultOnce
  <2> USE <1>2 DEF NotifyInv
  <2> SUFFICES ASSUME NEW m \in All PROVE Places[m] = IF Waiting(m[1]) THEN 0 ELSE 1
    BY DEF EachResultOnce
  <2> DEFINE holders == {w \in Workers :
                          \E i \in 1 .. Len(worker[w].todo) : worker[w].todo[i] = m}
             held == Cardinality(holders)
             sent == Cardinality({i \in 1 .. Len(vulns) : vulns[i] = m})
             kept == Cardinality({i \in 1 .. Len(res) : res[i] = m})
  <2>1. Places[m] = held + sent + kept + (IF item = m THEN 1 ELSE 0)
    BY DEF Places
  <2>2. sent = (IF In(m, vulns) THEN 1 ELSE 0) /\ kept = (IF In(m, res) THEN 1 ELSE 0)
    BY CountOf DEF Placed, TypeOK
  <2>3. held = IF \E w \in Workers : In(m, worker[w].todo) THEN 1 ELSE 0
    <3>1. holders = {w \in Workers : In(m, worker[w].todo)}
      BY DEF In
    <3>2. CASE \E w \in Workers : In(m, worker[w].todo)
      <4>1. PICK w \in Workers : In(m, worker[w].todo)
        BY <3>2
      <4>2. holders = {w}
        BY <3>1, <4>1 DEF Placed
      <4> HIDE DEF holders
      <4> QED BY <3>2, <4>2, FS_Singleton
    <3>3. CASE ~ \E w \in Workers : In(m, worker[w].todo)
      <4>1. holders = {}
        BY <3>1, <3>3
      <4> HIDE DEF holders
      <4> QED BY <3>3, <4>1, FS_EmptySet
    <3> QED BY <3>2, <3>3
  <2> HIDE DEF holders, held, sent, kept
  <2>4. /\ Waiting(m[1]) <=> /\ ~ \E w \in Workers : In(m, worker[w].todo)
                             /\ ~In(m, vulns) /\ ~In(m, res) /\ item # m
        /\ (\E w \in Workers : In(m, worker[w].todo)) =>
             ~In(m, vulns) /\ ~In(m, res) /\ item # m
        /\ In(m, vulns) => ~In(m, res) /\ item # m
        /\ In(m, res) => item # m
    BY DEF Placed
  <2> QED BY <2>1, <2>2, <2>3, <2>4
<1>3. NotifyInv => Inv
  BY <1>1, <1>2 DEF NotifyInv, Inv
<1> QED BY <1>3, AlwaysNotifyInv, PTL

-----------------------------------------------------------------------------
\* What a sequence holds is no more than its length.
LEMMA RangeBound ==
  ASSUME NEW S, NEW s \in Seq(S)
  PROVE  IsFiniteSet({s[i] : i \in 1 .. Len(s)}) /\ Cardinality({s[i] : i \in 1 .. Len(s)}) <= Len(s)
<1> DEFINE elements == {s[i] : i \in 1 .. Len(s)}
           f == [i \in 1 .. Len(s) |-> s[i]]
<1>1. Len(s) \in Nat
  OBVIOUS
<1>2. IsFiniteSet(1 .. Len(s)) /\ Cardinality(1 .. Len(s)) = Len(s)
  BY <1>1, FS_Interval, SMTT(30)
<1>3. f \in Surjection(1 .. Len(s), elements)
  BY DEF Surjection
<1> HIDE DEF elements, f
<1>4. IsFiniteSet(elements) /\ Cardinality(elements) <= Len(s)
  BY <1>2, <1>3, FS_Surjection
<1> QED BY <1>4 DEF elements

LEMMA LossAtTheRead ==
  ASSUME NotifyInv, ReadResults
  PROVE  Cardinality({m \in OfRead : ~\E i \in 1 .. Len(seen') : seen'[i] = m}) <= Cap + 1
<1> USE DEF NotifyInv
<1> DEFINE missing == {m \in OfRead : ~\E i \in 1 .. Len(seen') : seen'[i] = m}
           sent == {vulns[i] : i \in 1 .. Len(vulns)}
<1>1. /\ main = "read" /\ seen' \in Readable /\ vulnsClosed /\ result = "none"
      /\ pairs = <<>> /\ hand = Error
  BY DEF ReadResults, Closing, Hands
<1>2. confs = <<>>
  BY <1>1, PipelineAssumption DEF Closing
<1>3. \A m \in OfRead : m \in All /\ m[1] \in 1 .. Configs /\ m[1] <= row
  BY AllFacts DEF TypeOK, OfRead
<1>4. \A m \in OfRead : ~Waiting(m[1])
  <2>1. Configs \in Nat /\ row \in 0 .. Configs
    BY AllFacts DEF TypeOK
  <2> QED BY <1>1, <1>2, <1>3, <2>1, WaitingIs, EmptyFacts DEF Error
<1>5. \A w \in Workers : worker[w].todo = <<>>
  BY <1>1 DEF Closing, Hands, TypeOK
<1>6. \A m \in OfRead : In(m, vulns) \/ In(m, res) \/ item = m
  BY <1>3, <1>4, <1>5, EmptyFacts DEF Placed
<1>7. \A m \in All : In(m, res) => In(m, seen')
  <2>1. res \in Seq(All \cup {Blank}) /\ Blank \in All \cup {Blank}
    BY DEF TypeOK
  <2>2. \A m : In(m, res) => In(m, Append(res, Blank))
    BY <2>1, AppendFacts
  <2> QED BY <1>1, <2>2 DEF Readable
<1>8. missing \subseteq sent \cup {item}
  BY <1>3, <1>6, <1>7 DEF In
<1> HIDE DEF missing, sent
<1>9. IsFiniteSet(sent) /\ Cardinality(sent) <= Len(vulns)
  BY RangeBound DEF TypeOK, sent
<1>10. /\ IsFiniteSet(sent \cup {item})
       /\ Cardinality(sent \cup {item}) <= Cardinality(sent) + 1
       /\ Cardinality(sent) \in Nat
  <2>1. /\ IsFiniteSet(sent \cup {item})
        /\ Cardinality(sent \cup {item}) =
             IF item \in sent THEN Cardinality(sent) ELSE Cardinality(sent) + 1
    BY <1>9, FS_AddElement
  <2>2. Cardinality(sent) \in Nat
    BY <1>9, FS_CardinalityType
  <2> QED BY <2>1, <2>2
<1>11. /\ Cardinality(missing) <= Cardinality(sent \cup {item})
       /\ Cardinality(missing) \in Nat /\ Cardinality(sent \cup {item}) \in Nat
  BY <1>8, <1>10, FS_Subset, FS_CardinalityType
<1>12. Len(vulns) <= Cap /\ Len(vulns) \in Nat /\ Cap \in Nat
  BY PipelineAssumption DEF TypeOK
<1>13. Cardinality(missing) <= Cap + 1
  BY <1>9, <1>10, <1>11, <1>12
<1> QED BY <1>13 DEF missing

(* Notifications: what the racing read misses of the results of the configurations that
   were read is in the channel or in the drainer's hand, wherever the rows end, and however
   many configurations, matches and workers there are. *)
THEOREM FewAreLost == Spec => []LossIsBounded
<1> DEFINE LossInv == NotifyInv /\ LossIsBounded
<1>1. Init => LossInv
  BY InitNotifyInv DEF Init, LossIsBounded
<1>2. ASSUME LossInv, [Next]_vars PROVE LossInv'
  <2>1. NotifyInv'
    BY <1>2, NextNotifyInv
  <2>2. LossIsBounded'
    <3>1. CASE ReadResults
      <4>1. OfRead' = OfRead
        BY <3>1 DEF ReadResults, produced, All, Configs, OfRead
      <4> QED BY <1>2, <3>1, <4>1, LossAtTheRead DEF LossIsBounded
    <3>2. CASE ~ReadResults
      <4>1. /\ matches' = matches /\ (row' = row \/ ProduceRow)
            /\ result' = "ok" => result = "ok" /\ seen' = seen
        BY <1>2, <3>2 DEF Next, Step, Producer, ProduceError, ProduceEnd, ProduceRow, Main, Receive,
           Forward, StartDrainer, CloseConfs, WaitWorkers, Worker, Take, Send, EndWorker, Drainer,
           DrainReceive, DrainAppend, DrainEnd, produced, vars
      <4>2. result = "ok" => ~ProduceRow
        BY <1>2 DEF ProduceRow, NotifyInv, Closing
      <4>3. result' = "ok" => OfRead' = OfRead
        BY <4>1, <4>2 DEF OfRead, All, Configs
      <4> QED BY <1>2, <4>1, <4>3 DEF LossIsBounded
    <3> QED BY <3>1, <3>2
  <2> QED BY <2>1, <2>2
<1>3. LossInv => LossIsBounded
  OBVIOUS
<1> HIDE DEF LossInv
<1> QED BY <1>1, <1>2, <1>3, AlwaysNotifyInv, PTL DEF Spec
=============================================================================
