--------------------------- MODULE ApiClient_proofs ---------------------------
(* What holds of the client's requests for any callers, rate, numbers of retries,
   delays, answers and debugging failures.                                     *)
EXTENDS ApiClient, FiniteSetTheorems, TLAPS

Line(q) == {q[k] : k \in DOMAIN q}
Waiters(st) == {c \in Callers : st[c] = "wait"}
Bit(b) == IF b THEN 1 ELSE 0

\* Requests allowed ahead of the ticks were allowed with what the channel, the filler
\* and the Ticker's channel no longer hold.
RateIsHeld ==
  limited => surplus + tokens + Bit(filling) + Bit(tick) <= PerPeriod + 2

\* A request that has not ended has only been given answers to be retried, and one
\* that waits for the limiter none.
OnlyRetried ==
  \A c \in Callers :
    /\ state[c] = "wait" => answers[c] = <<>>
    /\ state[c] \in {"attempt", "sleep"} =>
         /\ Len(answers[c]) <= retries
         /\ \A k \in 1 .. Len(answers[c]) : answers[c][k] \in Retried

ClientInv == TypeOK /\ RateIsHeld /\ OnlyRetried /\ Decided

-----------------------------------------------------------------------------
LEMMA Joins ==
  ASSUME NEW S, NEW q \in Seq(S), NEW c \in S, IsInjective(q), c \notin Line(q)
  PROVE  /\ Append(q, c) \in Seq(S) /\ IsInjective(Append(q, c))
         /\ Line(Append(q, c)) = Line(q) \cup {c}
<1> DEFINE r == Append(q, c)
<1>1. /\ r \in Seq(S) /\ DOMAIN r = DOMAIN q \cup {Len(q) + 1} /\ r[Len(q) + 1] = c
      /\ Len(q) + 1 \notin DOMAIN q
      /\ \A k \in DOMAIN q : r[k] = q[k]
  OBVIOUS
<1> HIDE DEF r
<1>2. IsInjective(r)
  BY <1>1 DEF IsInjective, Line
<1>3. Line(r) = Line(q) \cup {c}
  BY <1>1 DEF Line
<1> QED BY <1>1, <1>2, <1>3 DEF r

LEMMA Leaves ==
  ASSUME NEW S, NEW q \in Seq(S), IsInjective(q), q # <<>>
  PROVE  /\ Tail(q) \in Seq(S) /\ IsInjective(Tail(q))
         /\ Head(q) \in S /\ Head(q) \in Line(q)
         /\ Line(Tail(q)) = Line(q) \ {Head(q)}
<1> DEFINE r == Tail(q)
           n == Len(q)
<1>1. /\ n \in Nat \ {0} /\ DOMAIN q = 1 .. n /\ Head(q) = q[1] /\ q[1] \in S
      /\ r \in Seq(S) /\ DOMAIN r = 1 .. (n - 1)
      /\ \A k \in 1 .. (n - 1) : r[k] = q[k + 1]
  OBVIOUS
<1> HIDE DEF r, n
<1>2. \A a, b \in 1 .. n : q[a] = q[b] => a = b
  BY <1>1 DEF IsInjective
<1>3. \A k \in 1 .. (n - 1) : k + 1 \in 1 .. n /\ k + 1 # 1
  BY <1>1
<1>4. \A k \in 1 .. n : k # 1 => k - 1 \in 1 .. (n - 1) /\ (k - 1) + 1 = k
  BY <1>1
<1>5. IsInjective(r)
  <2> SUFFICES ASSUME NEW a \in 1 .. (n - 1), NEW b \in 1 .. (n - 1), r[a] = r[b] PROVE a = b
    BY <1>1 DEF IsInjective
  <2>1. a + 1 = b + 1
    BY <1>1, <1>2, <1>3
  <2> QED BY <1>1, <2>1
<1>6. Line(r) = Line(q) \ {q[1]}
  <2>1. ASSUME NEW x \in Line(r) PROVE x \in Line(q) \ {q[1]}
    <3>1. PICK k \in 1 .. (n - 1) : x = r[k]
      BY <1>1 DEF Line
    <3>2. x = q[k + 1] /\ k + 1 \in 1 .. n /\ 1 \in 1 .. n /\ k + 1 # 1
      BY <1>1, <1>3, <3>1
    <3> QED BY <1>1, <1>2, <3>2 DEF Line
  <2>2. ASSUME NEW x \in Line(q), x # q[1] PROVE x \in Line(r)
    <3>1. PICK k \in 1 .. n : x = q[k]
      BY <1>1 DEF Line
    <3>2. k # 1
      BY <2>2, <3>1
    <3>3. k - 1 \in 1 .. (n - 1) /\ x = r[k - 1]
      BY <1>1, <1>4, <3>1, <3>2
    <3> QED BY <1>1, <3>3 DEF Line
  <2> QED BY <2>1, <2>2
<1>7. q[1] \in Line(q)
  BY <1>1 DEF Line
<1> QED BY <1>1, <1>5, <1>6, <1>7 DEF r

LEMMA LastNumber == ASSUME FailAt # {} PROVE MaxNumber \in Nat \ {0}
<1>1. PICK m \in FailAt : \A n \in FailAt : n <= m
  BY ClientAssumption
<1>2. FailAt \subseteq Nat
  BY ClientAssumption
<1>3. \E x \in FailAt : \A y \in FailAt : x >= y
  BY <1>1, <1>2
<1>4. Max(FailAt) \in FailAt
  BY <1>3, Zenon DEF Max
<1>5. \A top \in FailAt : top + 1 \in Nat \ {0}
  BY <1>2
<1> QED BY <1>4, <1>5 DEF MaxNumber

\* The type invariant, and what is left of it to show when the configuration stays.
Typed ==
  /\ tick \in BOOLEAN /\ filling \in BOOLEAN /\ tokens \in 0 .. PerPeriod
  /\ queue \in Seq(Callers) /\ IsInjective(queue)
  /\ state \in [Callers -> {"idle", "wait", "attempt", "sleep"}]
  /\ Waiters(state) = Line(queue)
  /\ answers \in [Callers -> Seq(Statuses)]
  /\ delay \in [Callers -> Nat] /\ asleep \in [Callers -> Nat]
  /\ slept \in [Callers -> Nat]
  /\ result \in [Callers -> Results]
  /\ number \in 0 .. MaxNumber /\ surplus \in Nat

LEMMA TypeIsTyped ==
  /\ TypeOK => Typed /\ MaxNumber \in Nat \ {0}
  /\ TypeOK /\ Typed' /\ UNCHANGED confVars => TypeOK'
<1>1. ASSUME TypeOK PROVE Typed /\ MaxNumber \in Nat \ {0}
  BY <1>1, LastNumber, ClientAssumption DEF TypeOK, Typed, Waiters, Line
<1>2. ASSUME TypeOK, Typed', UNCHANGED confVars PROVE TypeOK'
  BY <1>2 DEF TypeOK, Typed, Waiters, Line, confVars
<1> QED BY <1>1, <1>2

LEMMA InitClientInv == Init => ClientInv
<1> SUFFICES ASSUME Init PROVE ClientInv
  OBVIOUS
<1> USE ClientAssumption DEF Init
<1>1. TypeOK
  <2>1. MaxNumber \in Nat \ {0} /\ 0 \in 0 .. MaxNumber /\ 0 \in 0 .. PerPeriod
    BY LastNumber
  <2>2. /\ <<>> \in Seq(Callers) /\ <<>> \in Seq(Statuses) /\ IsInjective(<<>>)
        /\ Line(<<>>) = {}
    BY DEF IsInjective, Line
  <2>3. Waiters(state) = {}
    BY DEF Waiters
  <2> QED BY <2>1, <2>2, <2>3 DEF TypeOK, Results, Line, Waiters
<1>2. RateIsHeld
  BY DEF RateIsHeld, Bit
<1>3. OnlyRetried /\ Decided
  BY DEF OnlyRetried, Decided
<1> QED BY <1>1, <1>2, <1>3 DEF ClientInv

-----------------------------------------------------------------------------
LEMMA TickKeeps == ASSUME ClientInv, Tick PROVE ClientInv'
<1> USE ClientAssumption DEF ClientInv
<1>1. UNCHANGED <<confVars, filling, tokens, queue, state, answers, result, number>>
  BY DEF Tick
<1>2. /\ asleep' \in [Callers -> Nat] /\ slept' \in [Callers -> Nat] /\ delay' = delay
      /\ surplus' \in Nat /\ tick' \in BOOLEAN
  BY DEF Tick, TypeOK
<1>3. TypeOK'
  BY <1>1, <1>2, TypeIsTyped DEF Typed
<1>4. RateIsHeld'
  <2>1. surplus' = IF surplus > 0 THEN surplus - 1 ELSE 0
    BY DEF Tick
  <2>2. /\ surplus \in Nat /\ tokens \in 0 .. PerPeriod
        /\ Bit(filling) \in {0, 1} /\ Bit(tick) \in {0, 1} /\ Bit(tick') \in {0, 1}
    BY DEF TypeOK, Bit
  <2>3. filling' = filling /\ tokens' = tokens /\ limited' = limited
    BY <1>1 DEF confVars
  <2> QED BY <2>1, <2>2, <2>3 DEF RateIsHeld
<1>5. OnlyRetried' /\ Decided'
  BY <1>1 DEF OnlyRetried, Decided, confVars
<1> QED BY <1>3, <1>4, <1>5

LEMMA TakeTickKeeps == ASSUME ClientInv, TakeTick PROVE ClientInv'
<1> USE DEF ClientInv
<1>1. /\ UNCHANGED <<confVars, tokens, queue, state, reqVars, number, surplus>>
      /\ tick = TRUE /\ filling = FALSE /\ tick' = FALSE /\ filling' = TRUE
  BY DEF TakeTick, TypeOK
<1>2. TypeOK'
  BY <1>1, TypeIsTyped DEF Typed, reqVars
<1>3. OnlyRetried' /\ Decided'
  BY <1>1 DEF OnlyRetried, Decided, confVars, reqVars
<1>4. RateIsHeld'
  <2>1. Bit(tick) = 1 /\ Bit(filling) = 0 /\ Bit(tick') = 0 /\ Bit(filling') = 1
    BY <1>1 DEF Bit
  <2>2. surplus \in Nat /\ tokens \in Nat /\ PerPeriod \in Nat
    BY ClientAssumption DEF TypeOK
  <2>3. limited' = limited /\ surplus' = surplus /\ tokens' = tokens
    BY <1>1 DEF confVars
  <2> QED BY <2>1, <2>2, <2>3 DEF RateIsHeld
<1> QED BY <1>2, <1>3, <1>4

LEMMA SendTokenKeeps == ASSUME ClientInv, SendToken PROVE ClientInv'
<1> USE ClientAssumption DEF ClientInv
<1>1. /\ UNCHANGED <<confVars, tick, reqVars, number>>
      /\ filling = TRUE /\ filling' = FALSE
      /\ \/ queue # <<>> /\ Allowed(Head(queue)) /\ queue' = Tail(queue) /\ tokens' = tokens
         \/ tokens < PerPeriod /\ tokens' = tokens + 1 /\ UNCHANGED <<queue, state, surplus>>
  BY DEF SendToken, Fill, TypeOK
<1>2. /\ UNCHANGED <<confVars, reqVars, number>> /\ Typed
      /\ tick' \in BOOLEAN /\ filling' \in BOOLEAN
  BY <1>1, TypeIsTyped DEF Typed
<1>3. CASE tokens < PerPeriod /\ tokens' = tokens + 1 /\ UNCHANGED <<queue, state, surplus>>
  <2>1. tokens' \in 0 .. PerPeriod
    BY <1>2, <1>3 DEF Typed
  <2>2. Typed'
    BY <1>2, <1>3, <2>1 DEF Typed, reqVars
  <2>3. TypeOK'
    BY <1>2, <2>2, TypeIsTyped
  <2>4. TypeOK' /\ OnlyRetried' /\ Decided'
    BY <1>1, <1>3, <2>3 DEF OnlyRetried, Decided, confVars, reqVars
  <2>5. RateIsHeld'
    BY <1>1, <1>3 DEF RateIsHeld, Bit, confVars, TypeOK
  <2> QED BY <2>4, <2>5
<1>4. CASE queue # <<>> /\ Allowed(Head(queue)) /\ queue' = Tail(queue) /\ tokens' = tokens
  <2> DEFINE c == Head(queue)
             q == Tail(queue)
  <2>1. /\ q \in Seq(Callers) /\ IsInjective(q) /\ c \in Callers
        /\ c \in Line(queue) /\ Line(q) = Line(queue) \ {c} /\ Typed
    BY <1>4, Leaves, TypeIsTyped DEF Typed
  <2>2. /\ state[c] = "wait" /\ state' = [state EXCEPT ![c] = "attempt"]
        /\ surplus' = surplus + 1 /\ queue' = q
    BY <1>4, <2>1 DEF Typed, Waiters, Allowed
  <2> HIDE DEF c, q
  <2>3. Waiters(state') = Waiters(state) \ {c}
    BY <2>1, <2>2 DEF Typed, Waiters
  <2>4. /\ tokens' \in 0 .. PerPeriod /\ surplus' \in Nat
        /\ state' \in [Callers -> {"idle", "wait", "attempt", "sleep"}]
    BY <1>4, <2>1, <2>2 DEF Typed
  <2>5. Waiters(state') = Line(queue')
    BY <2>1, <2>2, <2>3 DEF Typed
  <2>6. Typed'
    BY <1>2, <2>1, <2>2, <2>4, <2>5 DEF Typed, reqVars
  <2>7. RateIsHeld'
    BY <1>1, <1>4, <2>2 DEF RateIsHeld, Bit, confVars, TypeOK
  <2>8. \A d \in Callers : d # c => state'[d] = state[d]
    BY <2>1, <2>2 DEF TypeOK
  <2>9. state'[c] = "attempt" /\ answers[c] = <<>> /\ retries \in Nat
    BY <2>1, <2>2 DEF TypeOK, OnlyRetried
  <2>10. OnlyRetried' /\ Decided'
    BY <1>1, <2>8, <2>9 DEF OnlyRetried, Decided, confVars, reqVars
  <2> QED BY <1>1, <2>6, <2>7, <2>10, TypeIsTyped
<1> QED BY <1>1, <1>3, <1>4

LEMMA WakeKeeps == ASSUME ClientInv, NEW c \in Callers, Wake(c) PROVE ClientInv'
<1> USE ClientAssumption DEF ClientInv
<1>1. /\ UNCHANGED <<confVars, limitVars, reqVars, number, surplus>>
      /\ state[c] = "sleep" /\ state' = [state EXCEPT ![c] = "attempt"]
  BY DEF Wake
<1>2. /\ \A d \in Callers : d # c => state'[d] = state[d]
      /\ state'[c] = "attempt"
  BY <1>1 DEF TypeOK
<1>3. Waiters(state') = Waiters(state)
  BY <1>1, <1>2 DEF Waiters
<1>4. TypeOK'
  BY <1>1, <1>3, TypeIsTyped DEF Typed, limitVars, reqVars
<1>5. RateIsHeld'
  BY <1>1 DEF RateIsHeld, confVars, limitVars
<1>6. OnlyRetried' /\ Decided'
  BY <1>1, <1>2 DEF OnlyRetried, Decided, confVars, reqVars
<1> QED BY <1>4, <1>5, <1>6

LEMMA RequestKeeps == ASSUME ClientInv, NEW c \in Callers, Request(c) PROVE ClientInv'
<1> USE ClientAssumption DEF ClientInv
<1>1. /\ UNCHANGED <<confVars, tick, filling>> /\ state[c] = "idle" /\ Numbered
      /\ answers' = [answers EXCEPT ![c] = <<>>]
      /\ delay' = [delay EXCEPT ![c] = Delay] /\ asleep' = [asleep EXCEPT ![c] = 0]
      /\ slept' = [slept EXCEPT ![c] = 0]
      /\ \E how \in {"debug", "none"} : result' = [result EXCEPT ![c] = how]
  BY DEF Request, Fresh
<1>2. \/ UNCHANGED <<tokens, queue, state, surplus>>
      \/ /\ ~limited /\ state' = [state EXCEPT ![c] = "attempt"]
         /\ UNCHANGED <<tokens, queue, surplus>>
      \/ /\ tokens > 0 /\ Allowed(c) /\ tokens' = tokens - 1 /\ queue' = queue
      \/ /\ state' = [state EXCEPT ![c] = "wait"] /\ queue' = Append(queue, c)
         /\ UNCHANGED <<tokens, surplus>>
  BY DEF Request, Waiting
<1>3. /\ queue' \in Seq(Callers) /\ IsInjective(queue')
      /\ state' \in [Callers -> {"idle", "wait", "attempt", "sleep"}]
      /\ Waiters(state') = Line(queue')
  <2>1. c \notin Line(queue) /\ Typed
    BY <1>1, TypeIsTyped DEF Typed, Waiters
  <2>2. CASE UNCHANGED <<queue, state>>
    BY <2>1, <2>2 DEF Typed
  <2>3. CASE queue' = queue /\ state' = [state EXCEPT ![c] = "attempt"]
    <3>1. Waiters(state') = Waiters(state)
      BY <1>1, <2>1, <2>3 DEF Typed, Waiters
    <3> QED BY <2>1, <2>3, <3>1 DEF Typed
  <2>4. CASE state' = [state EXCEPT ![c] = "wait"] /\ queue' = Append(queue, c)
    <3>1. Waiters(state') = Waiters(state) \cup {c}
      BY <2>1, <2>4 DEF Typed, Waiters
    <3>2. queue \in Seq(Callers) /\ IsInjective(queue)
      BY <2>1 DEF Typed
    <3>3. /\ Append(queue, c) \in Seq(Callers) /\ IsInjective(Append(queue, c))
          /\ Line(Append(queue, c)) = Line(queue) \cup {c}
      BY <2>1, <3>2, Joins
    <3> QED BY <2>1, <2>4, <3>1, <3>3 DEF Typed
  <2> QED BY <1>2, <2>2, <2>3, <2>4 DEF Allowed
<1>4. tokens' \in 0 .. PerPeriod /\ surplus' \in Nat
  <2>1. tokens \in 0 .. PerPeriod /\ surplus \in Nat /\ PerPeriod \in Nat
    BY DEF TypeOK
  <2>2. /\ tokens' = tokens \/ (tokens > 0 /\ tokens' = tokens - 1)
        /\ surplus' = surplus \/ surplus' = surplus + 1
    BY <1>2 DEF Allowed
  <2> QED BY <2>1, <2>2
<1>5. number' \in 0 .. MaxNumber
  BY <1>1, LastNumber DEF TypeOK, Numbered
<1>6. TypeOK'
  <2>1. /\ answers' \in [Callers -> Seq(Statuses)]
        /\ delay' \in [Callers -> Nat] /\ asleep' \in [Callers -> Nat]
        /\ slept' \in [Callers -> Nat] /\ result' \in [Callers -> Results]
    BY <1>1 DEF TypeOK, Results
  <2>2. retries' = retries /\ retries \in Nat /\ tick' \in BOOLEAN /\ filling' \in BOOLEAN
    BY <1>1 DEF TypeOK, confVars
  <2> QED BY <1>1, <1>3, <1>4, <1>5, <2>1, <2>2, TypeIsTyped DEF Typed
<1>7. RateIsHeld'
  <2>1. /\ surplus \in Nat /\ tokens \in 0 .. PerPeriod
        /\ Bit(filling) \in {0, 1} /\ Bit(tick) \in {0, 1}
    BY DEF TypeOK, Bit
  <2>2. limited' = limited /\ filling' = filling /\ tick' = tick
    BY <1>1 DEF confVars
  <2> QED BY <1>2, <2>1, <2>2 DEF RateIsHeld, Allowed
<1>8. OnlyRetried' /\ Decided'
  <2>1. /\ answers'[c] = <<>> /\ retries' = retries /\ retries \in Nat
        /\ \A d \in Callers : d # c =>
             answers'[d] = answers[d] /\ state'[d] = state[d] /\ result'[d] = result[d]
    BY <1>1, <1>2 DEF TypeOK, Allowed, confVars
  <2> QED BY <2>1 DEF OnlyRetried, Decided
<1> QED BY <1>6, <1>7, <1>8

LEMMA AnsweredKeeps == ASSUME ClientInv, NEW c \in Callers, Answered(c) PROVE ClientInv'
<1> USE ClientAssumption DEF ClientInv
<1> DEFINE n == Len(answers[c]) + 1
<1>1. PICK s \in Statuses :
        /\ answers' = [answers EXCEPT ![c] = Append(@, s)]
        /\ IF s = Broken THEN Ends(c, "broken")
           ELSE IF s = OK \/ retries = 0 THEN Ends(c, "returned")
           ELSE IF s \notin Retried THEN Ends(c, "refused")
           ELSE RetryLoop(c)
  BY DEF Answered
<1>2. /\ UNCHANGED <<confVars, limitVars, slept, number, surplus>> /\ state[c] = "attempt"
      /\ n \in Nat \ {0} /\ n <= retries + 1 /\ retries \in Nat
      /\ \A k \in 1 .. n - 1 : answers[c][k] \in Retried
  BY DEF Answered, TypeOK, OnlyRetried
<1>3. /\ Len(answers'[c]) = n /\ answers'[c] \in Seq(Statuses) /\ answers'[c][n] = s
      /\ \A k \in 1 .. n - 1 : answers'[c][k] = answers[c][k]
      /\ answers' \in [Callers -> Seq(Statuses)]
      /\ \A d \in Callers : d # c => answers'[d] = answers[d]
  BY <1>1 DEF TypeOK
<1> HIDE DEF n
<1>4. \/ \E how \in {"broken", "returned", "refused", "exhausted"} :
           /\ Ends(c, how)
           /\ IF s = Broken THEN how = "broken"
              ELSE IF retries = 0 \/ s = OK THEN how = "returned"
              ELSE IF s \in Retried THEN how = "exhausted" /\ n = retries + 1
              ELSE how = "refused"
      \/ /\ s \in Retried /\ n <= retries /\ UNCHANGED result
         /\ state' = [state EXCEPT ![c] = "sleep"]
         /\ asleep' = [asleep EXCEPT ![c] = delay[c]]
         /\ delay' = [delay EXCEPT ![c] = @ * 2]
  <2>1. CASE s = Broken \/ s = OK \/ retries = 0 \/ s \notin Retried
    BY <1>1, <2>1
  <2>2. CASE s \in Retried /\ s # Broken /\ s # OK /\ retries # 0
    <3>1. RetriesAfter(c, n > retries)
      BY <1>1, <2>2 DEF RetryLoop, n
    <3>2. CASE n > retries
      <4>1. Ends(c, "exhausted") /\ n = retries + 1
        BY <1>2, <3>1, <3>2 DEF RetriesAfter
      <4> QED BY <2>2, <4>1
    <3>3. CASE ~(n > retries)
      BY <1>2, <2>2, <3>1, <3>3 DEF RetriesAfter
    <3> QED BY <3>2, <3>3
  <2> QED BY <2>1, <2>2
<1>5. /\ \A d \in Callers : d # c => state'[d] = state[d] /\ result'[d] = result[d]
      /\ state'[c] \in {"idle", "sleep"}
      /\ state' \in [Callers -> {"idle", "wait", "attempt", "sleep"}]
      /\ result' \in [Callers -> Results]
      /\ delay' \in [Callers -> Nat] /\ asleep' \in [Callers -> Nat]
  <2> Typed
    BY TypeIsTyped
  <2>1. CASE \E how \in {"broken", "returned", "refused", "exhausted"} : Ends(c, how)
    BY <2>1 DEF Ends, Typed, Results
  <2>2. CASE /\ UNCHANGED result /\ state' = [state EXCEPT ![c] = "sleep"]
             /\ asleep' = [asleep EXCEPT ![c] = delay[c]]
             /\ delay' = [delay EXCEPT ![c] = @ * 2]
    BY <2>2 DEF Typed
  <2> QED BY <1>4, <2>1, <2>2
<1>6. Waiters(state') = Waiters(state)
  BY <1>2, <1>5 DEF Waiters
<1>7. TypeOK'
  <2> Typed
    BY TypeIsTyped
  <2>1. Typed'
    BY <1>2, <1>3, <1>5, <1>6 DEF Typed, confVars, limitVars
  <2> QED BY <1>2, <2>1, TypeIsTyped
<1>8. RateIsHeld'
  BY <1>2 DEF RateIsHeld, confVars, limitVars
<1>9. OnlyRetried'
  <2>1. state'[c] = "sleep" => n <= retries /\ s \in Retried
    BY <1>4 DEF Ends, TypeOK
  <2>2. \A k \in 1 .. n : k = n \/ k \in 1 .. n - 1
    BY <1>2
  <2>3. retries' = retries
    BY <1>2 DEF confVars
  <2> SUFFICES ASSUME NEW d \in Callers
               PROVE  /\ state'[d] = "wait" => answers'[d] = <<>>
                      /\ state'[d] \in {"attempt", "sleep"} =>
                           /\ Len(answers'[d]) <= retries
                           /\ \A k \in 1 .. Len(answers'[d]) : answers'[d][k] \in Retried
    BY <2>3 DEF OnlyRetried
  <2>4. CASE d = c
    BY <1>2, <1>3, <1>5, <2>1, <2>2, <2>4
  <2>5. CASE d # c
    <3>1. answers'[d] = answers[d] /\ state'[d] = state[d]
      BY <1>3, <1>5, <2>5
    <3> QED BY <3>1 DEF OnlyRetried
  <2> QED BY <2>4, <2>5
<1>10. Decided'
  <2>1. state'[c] = "idle" =>
          IF s = Broken THEN result'[c] = "broken"
          ELSE IF retries = 0 \/ s = OK THEN result'[c] = "returned"
          ELSE IF s \in Retried THEN result'[c] = "exhausted" /\ n = retries + 1
          ELSE result'[c] = "refused"
    BY <1>4 DEF Ends, TypeOK
  <2>2. retries' = retries
    BY <1>2 DEF confVars
  <2>3. ASSUME NEW d \in Callers, d # c
        PROVE  answers'[d] = answers[d] /\ state'[d] = state[d] /\ result'[d] = result[d]
    BY <1>3, <1>5, <2>3
  <2>4. \A k \in 1 .. n - 1 : answers'[c][k] \in Retried
    BY <1>2, <1>3
  <2> QED BY <1>2, <1>3, <2>1, <2>2, <2>3, <2>4, SMTT(30) DEF Decided
<1> QED BY <1>7, <1>8, <1>9, <1>10

LEMMA StutterKeepsClient == ASSUME ClientInv, UNCHANGED vars PROVE ClientInv'
<1> USE DEF vars, confVars, limitVars, reqVars
<1>1. TypeOK'
  BY TypeIsTyped DEF ClientInv, Typed
<1>2. RateIsHeld' /\ OnlyRetried' /\ Decided'
  BY DEF ClientInv, RateIsHeld, OnlyRetried, Decided
<1> QED BY <1>1, <1>2 DEF ClientInv

LEMMA ClientInvariant == Spec => []ClientInv
<1>1. ASSUME ClientInv, [Next]_vars PROVE ClientInv'
  BY <1>1, TickKeeps, TakeTickKeeps, SendTokenKeeps, RequestKeeps, AnsweredKeeps, WakeKeeps,
     StutterKeepsClient DEF Next
<1> QED BY <1>1, InitClientInv, PTL DEF Spec

(* In every state the requests, the queue of those who wait and the tokens are of their
   types, the limiter (rate.go) allows no more than its burst and two more, and a
   request is attempted again after the answers the policy retries and after no other,
   as often as the policy allows, and ends as its last answer says (retry.go).    *)
THEOREM RateAndRetriesAreKept == Spec => []Inv
<1>1. ClientInv => Inv
  <2> SUFFICES ASSUME ClientInv PROVE TypeOK /\ WithinRate /\ Decided
    BY DEF Inv
  <2>1. /\ TypeOK /\ RateIsHeld /\ surplus \in Nat /\ tokens \in Nat /\ PerPeriod \in Nat
        /\ Bit(filling) \in {0, 1} /\ Bit(tick) \in {0, 1} /\ Decided
    BY ClientAssumption, SMTT(30) DEF ClientInv, TypeOK, Bit
  <2> QED BY <2>1 DEF RateIsHeld, WithinRate
<1> QED BY <1>1, ClientInvariant, PTL

-----------------------------------------------------------------------------
\* Each delay is as long as all before it and the first one, and only a sleeper has
\* some of it left.
AsLongAsBefore ==
  \A c \in Callers :
    /\ state[c] # "sleep" => asleep[c] = 0
    /\ answers[c] # <<>> \/ state[c] # "idle" => slept[c] + asleep[c] + Delay = delay[c]

\* A request that has ended has slept for every delay it was given, to the end, and
\* its next delay would have been as long as all of them and the first.
SleptAll ==
  \A c \in Callers :
    state[c] = "idle" /\ answers[c] # <<>> => slept[c] + Delay = delay[c]

LEMMA StepsKeepDelays ==
  ASSUME TypeOK, AsLongAsBefore, [Next]_vars PROVE AsLongAsBefore'
<1> USE ClientAssumption
<1> DEFINE Due(st, an, sl, as, de) ==
             /\ st # "sleep" => as = 0
             /\ an # <<>> \/ st # "idle" => sl + as + Delay = de
<1>1. SUFFICES ASSUME NEW c \in Callers
      PROVE  Due(state'[c], answers'[c], slept'[c], asleep'[c], delay'[c])
  BY DEF AsLongAsBefore
<1>2. /\ Due(state[c], answers[c], slept[c], asleep[c], delay[c])
      /\ slept[c] \in Nat /\ asleep[c] \in Nat /\ delay[c] \in Nat
      /\ state \in [Callers -> {"idle", "wait", "attempt", "sleep"}]
      /\ answers \in [Callers -> Seq(Statuses)]
      /\ delay \in [Callers -> Nat] /\ asleep \in [Callers -> Nat]
      /\ slept \in [Callers -> Nat]
      /\ Delay \in Nat
  BY DEF AsLongAsBefore, TypeOK
<1>3. CASE UNCHANGED vars \/ TakeTick
  BY <1>2, <1>3 DEF vars, reqVars, TakeTick
<1>4. CASE Tick
  <2>1. /\ state'[c] = state[c] /\ answers'[c] = answers[c] /\ delay'[c] = delay[c]
        /\ asleep'[c] = IF asleep[c] > 0 THEN asleep[c] - 1 ELSE 0
        /\ slept'[c] = IF asleep[c] > 0 THEN slept[c] + 1 ELSE slept[c]
    BY <1>2, <1>4 DEF Tick
  <2> QED BY <1>2, <2>1
<1>5. CASE SendToken
  <2>1. UNCHANGED reqVars
    BY <1>5 DEF SendToken, Fill
  <2>2. CASE UNCHANGED state
    BY <1>2, <2>1, <2>2 DEF reqVars
  <2>3. CASE Allowed(Head(queue)) /\ queue # <<>>
    <3>1. Head(queue) \in Callers /\ state[Head(queue)] = "wait"
      <4>1. Head(queue) \in Line(queue) /\ Head(queue) \in Callers
        BY <2>3, Leaves DEF TypeOK
      <4> QED BY <4>1 DEF TypeOK, Line
    <3>2. state'[c] = state[c] \/ (state[c] = "wait" /\ state'[c] = "attempt")
      BY <1>2, <2>3, <3>1 DEF Allowed
    <3> QED BY <1>2, <2>1, <3>2 DEF reqVars
  <2> QED BY <1>5, <2>2, <2>3 DEF SendToken, Fill
<1>6. ASSUME NEW d \in Callers, Request(d) \/ Answered(d) \/ Wake(d)
      PROVE  Due(state'[c], answers'[c], slept'[c], asleep'[c], delay'[c])
  <2>1. CASE c # d
    <3>1. /\ state'[c] = state[c] /\ answers'[c] = answers[c] /\ slept'[c] = slept[c]
          /\ asleep'[c] = asleep[c] /\ delay'[c] = delay[c]
      <4>1. CASE Request(d)
        BY <1>2, <2>1, <4>1 DEF Request, Fresh, Allowed
      <4>2. CASE Answered(d)
        BY <1>2, <2>1, <4>2 DEF Answered, Ends, RetryLoop, RetriesAfter
      <4>3. CASE Wake(d)
        BY <1>2, <2>1, <4>3 DEF Wake, reqVars
      <4> QED BY <1>6, <4>1, <4>2, <4>3
    <3> QED BY <1>2, <3>1
  <2>2. CASE Request(c)
    <3>1. /\ answers'[c] = <<>> /\ delay'[c] = Delay /\ asleep'[c] = 0 /\ slept'[c] = 0
      BY <1>2, <2>2 DEF Request, Fresh
    <3> QED BY <1>2, <3>1
  <2>3. CASE Wake(c)
    <3>1. /\ state[c] = "sleep" /\ asleep[c] = 0 /\ state'[c] = "attempt"
          /\ UNCHANGED reqVars
      BY <1>2, <2>3 DEF Wake
    <3> QED BY <1>2, <3>1 DEF reqVars
  <2>4. CASE Answered(c)
    <3>1. /\ state[c] = "attempt" /\ slept'[c] = slept[c]
          /\ \/ /\ state'[c] = "idle" /\ delay'[c] = delay[c] /\ asleep'[c] = asleep[c]
             \/ /\ state'[c] = "sleep" /\ asleep'[c] = delay[c] /\ delay'[c] = delay[c] * 2
      BY <1>2, <2>4 DEF Answered, Ends, RetryLoop, RetriesAfter
    <3> QED BY <1>2, <3>1
  <2> QED BY <1>6, <2>1, <2>2, <2>3, <2>4
<1> QED BY <1>3, <1>4, <1>5, <1>6 DEF Next

(* A retried request waits for its whole delay before each further attempt and not
   after the last one, and each of its delays is longer than all before it together
   (retry.go: time.Sleep and the doubling), whatever else runs meanwhile.         *)
THEOREM EveryDelayIsSlept == Spec => []SleptAll
<1>1. Init => AsLongAsBefore
  BY DEF Init, AsLongAsBefore
<1>2. ClientInv /\ AsLongAsBefore /\ [Next]_vars => AsLongAsBefore'
  BY StepsKeepDelays DEF ClientInv
<1>3. ClientInv /\ AsLongAsBefore => SleptAll
  <2> SUFFICES ASSUME ClientInv, AsLongAsBefore, NEW c \in Callers,
                      state[c] = "idle", answers[c] # <<>>
               PROVE  slept[c] + Delay = delay[c]
    BY DEF SleptAll
  <2>1. asleep[c] = 0 /\ slept[c] + asleep[c] + Delay = delay[c]
    BY DEF AsLongAsBefore
  <2>2. slept[c] \in Nat
    BY DEF ClientInv, TypeOK
  <2> QED BY <2>1, <2>2
<1> QED BY <1>1, <1>2, <1>3, ClientInvariant, PTL DEF Spec

-----------------------------------------------------------------------------
\* The powers of two, as a set of n members has 2 ^ n subsets: one more member makes
\* twice as many.
LEMMA PowersOfTwo ==
  /\ 2 ^ 0 = 1
  /\ \A n \in Nat : 2 ^ n \in Nat /\ 2 ^ (n + 1) = (2 ^ n) * 2
<1>1. ASSUME NEW n \in Nat
      PROVE  /\ IsFiniteSet(1 .. n) /\ IsFiniteSet(SUBSET (1 .. n))
             /\ Cardinality(1 .. n) = n /\ Cardinality(SUBSET (1 .. n)) = 2 ^ n
  <2>1. IsFiniteSet(1 .. n) /\ Cardinality(1 .. n) = n
    BY 1 \in Int, n \in Int, FS_Interval
  <2> DEFINE N == 1 .. n
  <2> HIDE DEF N
  <2>2. IsFiniteSet(SUBSET N) /\ Cardinality(SUBSET N) = 2 ^ Cardinality(N)
    BY <2>1, FS_SUBSET DEF N
  <2>3. QED BY <2>1, <2>2 DEF N
<1>2. 2 ^ 0 = 1
  <2>1. Cardinality(SUBSET (1 .. 0)) = 2 ^ 0
    BY <1>1
  <2>2. SUBSET (1 .. 0) = {{}}
    OBVIOUS
  <2>3. Cardinality({{}}) = 1
    BY FS_Singleton
  <2>4. QED BY <2>1, <2>2, <2>3
<1>3. ASSUME NEW n \in Nat PROVE 2 ^ n \in Nat /\ 2 ^ (n + 1) = (2 ^ n) * 2
  <2> DEFINE A == SUBSET (1 .. n)
             B == {s \cup {n + 1} : s \in A}
             f == [s \in A |-> s \cup {n + 1}]
  <2>1. IsFiniteSet(A) /\ Cardinality(A) = 2 ^ n
    BY <1>1
  <2>2. SUBSET (1 .. (n + 1)) = A \cup B /\ A \cap B = {}
    <3>1. 1 .. (n + 1) = (1 .. n) \cup {n + 1} /\ n + 1 \notin 1 .. n
      OBVIOUS
    <3>2. ASSUME NEW s \in SUBSET (1 .. (n + 1)) PROVE s \in A \cup B
      <4>1. CASE n + 1 \in s
        <5>1. s \ {n + 1} \in A /\ s = (s \ {n + 1}) \cup {n + 1}
          BY <3>1, <4>1
        <5>2. QED BY <5>1
      <4>2. CASE n + 1 \notin s
        BY <3>1, <4>2
      <4>3. QED BY <4>1, <4>2
    <3>3. A \cup B \subseteq SUBSET (1 .. (n + 1))
      BY <3>1
    <3>4. A \cap B = {}
      BY <3>1
    <3>5. QED BY <3>2, <3>3, <3>4
  <2>3. IsFiniteSet(B) /\ Cardinality(B) = Cardinality(A)
    <3>1. \A s \in A : n + 1 \notin s
      OBVIOUS
    <3> HIDE DEF A
    <3>2. f \in Injection(A, B)
      <4>1. ASSUME NEW s \in A, NEW t \in A, s \cup {n + 1} = t \cup {n + 1} PROVE s = t
        <5>1. \A y : y \in s <=> y \in t
          BY <3>1, <4>1
        <5>2. QED BY <5>1
      <4>2. f \in [A -> B]
        OBVIOUS
      <4> HIDE DEF B
      <4>3. QED BY <4>1, <4>2 DEF Injection, IsInjective
    <3>3. f \in Surjection(A, B)
      BY DEF Surjection
    <3>4. ExistsBijection(A, B)
      BY <3>2, <3>3 DEF Bijection, ExistsBijection
    <3> HIDE DEF B
    <3>5. QED BY <2>1, <3>4, FS_Bijection
  <2> HIDE DEF A, B
  <2>4. Cardinality(A \cup B) = Cardinality(A) + Cardinality(B) - Cardinality(A \cap B)
    BY <2>1, <2>3, FS_Union
  <2>5. Cardinality(A \cap B) = 0
    BY <2>2, FS_EmptySet
  <2>6. Cardinality(A) \in Nat
    BY <2>1, FS_CardinalityType
  <2>7. Cardinality(SUBSET (1 .. (n + 1))) = 2 ^ (n + 1)
    <3>1. n + 1 \in Nat
      OBVIOUS
    <3>2. QED BY <1>1, <3>1
  <2>8. \A x, y \in Nat : y = x + x - 0 => y = x * 2
    OBVIOUS
  <2>9. Cardinality(A) = 2 ^ n /\ 2 ^ (n + 1) = Cardinality(A) + Cardinality(A) - 0
    BY <2>1, <2>2, <2>3, <2>4, <2>5, <2>7
  <2>10. 2 ^ (n + 1) = Cardinality(A) * 2
    BY <2>6, <2>9
  <2>11. QED BY <2>6, <2>9, <2>10
<1>4. QED BY <1>2, <1>3

\* The next delay is the first one, doubled for each answer a request was given but the
\* one that ended it.
DelayDoubles ==
  \A c \in Callers :
    /\ state[c] # "idle" => delay[c] = Delay * (2 ^ Len(answers[c]))
    /\ state[c] = "idle" /\ answers[c] # <<>> => delay[c] = Delay * (2 ^ (Len(answers[c]) - 1))

\* A step leaves a request its next delay, or doubles it with a retried answer.
LEMMA StepsKeepDoubling ==
  ASSUME TypeOK, DelayDoubles, [Next]_vars PROVE DelayDoubles'
<1> USE ClientAssumption
<1> DEFINE Due(st, an, de) ==
             /\ st # "idle" => de = Delay * (2 ^ Len(an))
             /\ st = "idle" /\ an # <<>> => de = Delay * (2 ^ (Len(an) - 1))
<1>1. SUFFICES ASSUME NEW c \in Callers PROVE Due(state'[c], answers'[c], delay'[c])
  BY DEF DelayDoubles
<1>2. /\ Due(state[c], answers[c], delay[c])
      /\ state \in [Callers -> {"idle", "wait", "attempt", "sleep"}]
      /\ answers \in [Callers -> Seq(Statuses)] /\ delay \in [Callers -> Nat]
      /\ Delay \in Nat
  BY DEF DelayDoubles, TypeOK
<1>3. ASSUME answers'[c] = answers[c], delay'[c] = delay[c], state[c] # "idle",
             state'[c] # "idle"
      PROVE  Due(state'[c], answers'[c], delay'[c])
  BY <1>2, <1>3
<1>4. ASSUME answers'[c] = answers[c], delay'[c] = delay[c], state'[c] = state[c]
      PROVE  Due(state'[c], answers'[c], delay'[c])
  BY <1>2, <1>4
<1> HIDE DEF Due
<1>5. CASE UNCHANGED vars \/ TakeTick \/ Tick
  BY <1>4, <1>5 DEF vars, reqVars, TakeTick, Tick
<1>6. CASE SendToken
  <2>1. UNCHANGED reqVars
    BY <1>6 DEF SendToken, Fill
  <2>2. CASE UNCHANGED state
    BY <1>4, <2>1, <2>2 DEF reqVars
  <2>3. CASE Allowed(Head(queue)) /\ queue # <<>>
    <3>1. Head(queue) \in Callers /\ state[Head(queue)] = "wait"
      <4>1. Head(queue) \in Line(queue) /\ Head(queue) \in Callers
        BY <2>3, Leaves DEF TypeOK
      <4> QED BY <4>1 DEF TypeOK, Line
    <3>2. state'[c] = state[c] \/ (state[c] = "wait" /\ state'[c] = "attempt")
      BY <1>2, <2>3, <3>1 DEF Allowed
    <3> QED BY <1>3, <1>4, <2>1, <3>2 DEF reqVars
  <2> QED BY <1>6, <2>2, <2>3 DEF SendToken, Fill
<1>7. ASSUME NEW d \in Callers, Request(d) \/ Answered(d) \/ Wake(d)
      PROVE  Due(state'[c], answers'[c], delay'[c])
  <2>1. CASE c # d
    <3>1. state'[c] = state[c] /\ answers'[c] = answers[c] /\ delay'[c] = delay[c]
      <4>1. CASE Request(d)
        BY <1>2, <2>1, <4>1 DEF Request, Fresh, Allowed
      <4>2. CASE Answered(d)
        BY <1>2, <2>1, <4>2 DEF Answered, Ends, RetryLoop, RetriesAfter
      <4>3. CASE Wake(d)
        BY <1>2, <2>1, <4>3 DEF Wake, reqVars
      <4> QED BY <1>7, <4>1, <4>2, <4>3
    <3> QED BY <1>4, <3>1
  <2>2. CASE Request(c)
    <3>1. answers'[c] = <<>> /\ delay'[c] = Delay
      BY <1>2, <2>2 DEF Request, Fresh
    <3>2. Len(answers'[c]) = 0 /\ Delay * (2 ^ 0) = Delay
      BY <1>2, <3>1, PowersOfTwo
    <3> QED BY <3>1, <3>2 DEF Due
  <2>3. CASE Wake(c)
    <3>1. state[c] = "sleep" /\ state'[c] = "attempt" /\ UNCHANGED reqVars
      BY <1>2, <2>3 DEF Wake
    <3> QED BY <1>3, <3>1 DEF reqVars
  <2>4. CASE Answered(c)
    <3> DEFINE n == Len(answers[c])
    <3>1. PICK s \in Statuses : answers' = [answers EXCEPT ![c] = Append(@, s)]
      BY <2>4 DEF Answered
    <3>2. n \in Nat /\ Len(answers'[c]) = n + 1 /\ answers'[c] # <<>>
      BY <1>2, <3>1
    <3>3. /\ state[c] = "attempt"
          /\ \/ state'[c] = "idle" /\ delay'[c] = delay[c]
             \/ state'[c] = "sleep" /\ delay'[c] = delay[c] * 2
      BY <1>2, <2>4 DEF Answered, Ends, RetryLoop, RetriesAfter
    <3>4. delay[c] = Delay * (2 ^ n)
      BY <1>2, <3>3 DEF Due
    <3> HIDE DEF n
    <3>5. n + 1 - 1 = n
      BY <3>2
    <3>6. Delay * (2 ^ (n + 1)) = (Delay * (2 ^ n)) * 2
      <4>1. 2 ^ n \in Nat /\ 2 ^ (n + 1) = (2 ^ n) * 2
        BY <3>2, PowersOfTwo
      <4>2. \A x, y \in Nat : x * (y * 2) = (x * y) * 2
        OBVIOUS
      <4>3. QED BY <1>2, <4>1, <4>2
    <3>7. CASE state'[c] = "idle" /\ delay'[c] = delay[c]
      BY <3>2, <3>4, <3>5, <3>7 DEF Due
    <3>8. CASE state'[c] = "sleep" /\ delay'[c] = delay[c] * 2
      BY <3>2, <3>4, <3>6, <3>8 DEF Due
    <3>9. QED BY <3>3, <3>7, <3>8
  <2> QED BY <1>7, <2>1, <2>2, <2>3, <2>4
<1> QED BY <1>5, <1>6, <1>7 DEF Next

(* The delays of a request double from the first to the last, none is cut short and none
   follows the last answer (retry.go: time.Sleep and delay *= 2).                *)
THEOREM DelaysAreDoubled == Spec => []DelaysDouble
<1>1. Init => DelayDoubles
  BY DEF Init, DelayDoubles
<1>2. ClientInv /\ DelayDoubles /\ [Next]_vars => DelayDoubles'
  BY StepsKeepDoubling DEF ClientInv
<1>3. ClientInv /\ DelayDoubles /\ SleptAll => DelaysDouble
  <2> SUFFICES ASSUME ClientInv, DelayDoubles, SleptAll, NEW c \in Callers,
                      state[c] = "idle", Len(answers[c]) > 0
               PROVE  slept[c] = Delay * ((2 ^ (Len(answers[c]) - 1)) - 1)
    BY DEF DelaysDouble
  <2> DEFINE n == Len(answers[c]) - 1
             x == 2 ^ n
  <2>1. n \in Nat /\ answers[c] # <<>>
    BY DEF ClientInv, TypeOK
  <2>2. slept[c] \in Nat /\ Delay \in Nat
    BY ClientAssumption DEF ClientInv, TypeOK
  <2>3. slept[c] + Delay = delay[c] /\ delay[c] = Delay * x
    BY <2>1 DEF SleptAll, DelayDoubles
  <2>4. x \in Nat
    BY <2>1, PowersOfTwo
  <2>5. \A a, b, d \in Nat : a + d = d * b => a = d * (b - 1)
    OBVIOUS
  <2> HIDE DEF x
  <2>6. slept[c] = Delay * (x - 1)
    BY <2>2, <2>3, <2>4, <2>5
  <2>7. QED BY <2>6 DEF x
<1> QED BY <1>1, <1>2, <1>3, ClientInvariant, EveryDelayIsSlept, PTL DEF Spec
=============================================================================
