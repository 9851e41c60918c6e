---------------------------- MODULE Cpe2Cve_proofs ----------------------------
(* What holds of cpe2cve for any feeds, overrides, workers, records, names and cache
   limits, whichever files, reads, writes and profiles fail; and, after them, of
   what its caches compute for any configurations, overrides and lists of names
   (Matching), with an index or without.                                       *)
EXTENDS Cpe2Cve, Matching, FiniteSetTheorems, WellFoundedInduction, TLAPS

-----------------------------------------------------------------------------
(* LoadFeed *)

\* The files whose feeds have arrived in the dictionary, and those whose errors have
\* been collected.
Arrived == {f \in paths : loader[f] = "sent" /\ f \notin dictChan}
Told == {f \in paths : loader[f] = "reported" /\ f \notin errChan}

\* What is in a channel was sent; what has left it is in the dictionary or the list, and
\* nobody stops collecting before all have sent.
LoadInv ==
  /\ paths \subseteq Files
  /\ loader \in [Files -> {"none", "load", "loaded", "failed", "sent", "reported"}]
  /\ dictChan \subseteq {f \in paths : loader[f] = "sent"}
  /\ \A f, g \in dictChan : f = g
  /\ errChan \subseteq {f \in paths : loader[f] = "reported"}
  /\ \A f, g \in errChan : f = g
  /\ DOMAIN dict = UNION {Has[f] : f \in Arrived}
  /\ \A id \in DOMAIN dict : dict[id] \in Arrived /\ id \in Has[dict[id]]
  /\ errs = Told
  /\ collector = "done" => AllSent /\ dictChan = {}
  /\ errCollector = "done" => AllSent /\ errChan = {}

(* Cache.Get *)

\* A call holds, and the map has, entries for the names that were asked.
Answers ==
  /\ pc \in [Calls -> Locations] /\ req \in [Calls -> Keys \cup {None}]
  /\ held \in [Calls -> Calls \cup {None}] /\ data \in [Keys -> Calls \cup {None}]
  /\ \A c \in Calls : pc[c] = "idle" => held[c] = None /\ req[c] = None
  /\ \A c \in Calls : held[c] # None => held[held[c]] = held[c] /\ req[held[c]] = req[c]
  /\ \A k \in Keys : data[k] # None => held[data[k]] = data[k] /\ req[data[k]] = k

(* The command *)

PipeTypes ==
  /\ stage \in Stages
  /\ DOMAIN dicts \subseteq Ids /\ DOMAIN overrides \subseteq Ids
  /\ next \in 1 .. Len(Input) + 2
  /\ worker \in [Workers -> {"receive", "skip", "get", "send", "end"}]
  /\ rec \in [Workers -> Calls \cup {None}]
  /\ left \in [Workers -> SUBSET Ids]
  /\ writing \subseteq Rows /\ \A x, y \in writing : x = y
  /\ writerDone \in BOOLEAN /\ outBroken \in BOOLEAN
  /\ written \in [Rows -> 0 .. 1]

Closed == {"closed", "done", "exit0", "exit1"}

\* What each stage has behind it.
Staged ==
  /\ stage = "feeds" => paths = Feeds
  /\ stage = "overrides" => paths = Overrides /\ DOMAIN dicts # {}
  /\ stage \in {"feeds", "overrides", "exitMinus1"} => next = 1
  /\ stage \in {"wait"} \cup Closed => next = Len(Input) + 1
  /\ stage \in Closed => \A w \in Workers : worker[w] = "end"
  /\ writerDone => writing = {} /\ stage \in Closed
  /\ stage = "exit0" => writerDone

\* A record is with one worker, from when it was read to the last of its rows.
RecordsHeld ==
  /\ \A w \in Workers : rec[w] # None <=> worker[w] \in {"get", "send"}
  /\ \A v, w \in Workers : rec[v] = rec[w] /\ rec[w] # None => v = w
  /\ \A w \in Workers :
       worker[w] = "send" => pc[rec[w]] = "done" /\ left[w] \subseteq Matched(req[rec[w]])
  /\ \A c \in Calls :
       (pc[c] # "idle" \/ \E w \in Workers : rec[w] = c) =>
         \E k \in DOMAIN Input : k < next /\ Input[k] = c
  /\ \A k \in DOMAIN Input :
       k < next /\ Input[k] \in Calls =>
         \/ pc[Input[k]] = "done"
         \/ \E w \in Workers : rec[w] = Input[k] /\ worker[w] = "get"

\* The rows that a worker still owes.
Owed(row) ==
  \E w \in Workers :
    rec[w] = row[1] /\ (worker[w] = "get" \/ (worker[w] = "send" /\ row[2] \in left[w]))

\* What is on its way or written is due, and no longer owed; what is due and no longer
\* owed is on its way or written, unless the output has failed.
IsDue(row) == pc[row[1]] # "idle" /\ row[2] \in Matched(req[row[1]])
RowsAccounted ==
  \A row \in Rows :
    /\ row \in writing => IsDue(row) /\ ~Owed(row) /\ written[row] = 0
    /\ written[row] = 1 => IsDue(row) /\ ~Owed(row)
    /\ IsDue(row) => Owed(row) \/ row \in writing \/ written[row] = 1 \/ outBroken

ReadSoFar == {k \in DOMAIN Input : k < next /\ Input[k] \in Calls}
Counted == total = Cardinality(ReadSoFar)

PipeStrong ==
  /\ LoadInv /\ Answers /\ PipeTypes /\ Staged /\ StartsLoaded
  /\ RecordsHeld /\ RowsAccounted /\ Counted
-----------------------------------------------------------------------------
(* LoadFeed *)

\* A call's start, of whatever files.
LEMMA LoadBegins ==
  ASSUME NEW S \in SUBSET Files, LoadStarted(S)
  PROVE  LoadInv' /\ paths' = S
<1>1. /\ paths' = S /\ dictChan' = {} /\ errChan' = {} /\ errs' = {} /\ dict' = <<>>
      /\ collector' = "run" /\ errCollector' = "run"
      /\ loader' = [f \in Files |-> IF f \in S THEN "load" ELSE "none"]
  BY DEF LoadStarted
<1>2. Arrived' = {} /\ Told' = {}
  BY <1>1 DEF Arrived, Told
<1>3. DOMAIN dict' = {}
  BY <1>1
<1> QED BY <1>1, <1>2, <1>3 DEF LoadInv

LEMMA LoadInitial ==
  ASSUME NEW S \in SUBSET Files, LoadInit(S)
  PROVE  LoadInv /\ paths = S
<1>1. /\ paths = S /\ dictChan = {} /\ errChan = {} /\ errs = {} /\ dict = <<>>
      /\ collector = "run" /\ errCollector = "run"
      /\ loader = [f \in Files |-> IF f \in S THEN "load" ELSE "none"]
  BY DEF LoadInit
<1>2. Arrived = {} /\ Told = {}
  BY <1>1 DEF Arrived, Told
<1>3. DOMAIN dict = {}
  BY <1>1
<1> QED BY <1>1, <1>2, <1>3 DEF LoadInv

\* A file's goroutine that has not sent keeps both collectors running.
LEMMA LoaderSteps ==
  ASSUME LoadInv, NEW f \in paths, LoadFile(f) \/ SendFeed(f) \/ SendError(f)
  PROVE  LoadInv' /\ paths' = paths
<1> USE DEF LoadInv
<1>1. /\ f \in Files /\ loader[f] \in {"load", "loaded", "failed"}
      /\ UNCHANGED <<paths, collector, errCollector, dict, errs>>
      /\ \A g \in Files : g # f => loader'[g] = loader[g]
      /\ loader' \in [Files -> {"none", "load", "loaded", "failed", "sent", "reported"}]
      /\ \/ loader'[f] \in {"loaded", "failed"} /\ UNCHANGED <<dictChan, errChan>>
         \/ loader'[f] = "sent" /\ dictChan = {} /\ dictChan' = {f} /\ errChan' = errChan
         \/ loader'[f] = "reported" /\ errChan = {} /\ errChan' = {f} /\ dictChan' = dictChan
  BY DEF LoadFile, SendFeed, SendError, LoaderGoes
<1>2. collector # "done" /\ errCollector # "done"
  BY <1>1 DEF AllSent
<1>3. Arrived' = Arrived /\ Told' = Told
  BY <1>1 DEF Arrived, Told
<1>4. /\ dictChan' \subseteq {g \in paths' : loader'[g] = "sent"}
      /\ \A g, h \in dictChan' : g = h
  BY <1>1
<1>5. /\ errChan' \subseteq {g \in paths' : loader'[g] = "reported"}
      /\ \A g, h \in errChan' : g = h
  BY <1>1
<1> QED BY <1>1, <1>2, <1>3, <1>4, <1>5

LEMMA UnionGrows ==
  ASSUME NEW A, NEW f
  PROVE  UNION {Has[g] : g \in A \cup {f}} = (UNION {Has[g] : g \in A}) \cup Has[f]
<1>1. \A B : \A x : x \in UNION {Has[g] : g \in B} <=> \E g \in B : x \in Has[g]
  BY Zenon
<1>2. ASSUME NEW x
      PROVE  x \in UNION {Has[g] : g \in A \cup {f}}
               <=> x \in (UNION {Has[g] : g \in A}) \cup Has[f]
  <2>1. x \in UNION {Has[g] : g \in A \cup {f}} <=> \E g \in A \cup {f} : x \in Has[g]
    BY <1>1
  <2>2. x \in UNION {Has[g] : g \in A} <=> \E g \in A : x \in Has[g]
    BY <1>1
  <2> QED BY <2>1, <2>2, Zenon
<1> DEFINE grown == UNION {Has[g] : g \in A \cup {f}}
           before == (UNION {Has[g] : g \in A}) \cup Has[f]
<1>3. \A x : x \in grown <=> x \in before
  BY <1>2
<1> HIDE DEF grown, before
<1>4. grown = before
  BY <1>3
<1> QED BY <1>4 DEF grown, before

LEMMA CollectSteps ==
  ASSUME LoadInv, Collect
  PROVE  LoadInv' /\ paths' = paths
<1> USE DEF LoadInv
<1>1. PICK f \in dictChan :
        /\ collector = "run" /\ dictChan' = {} /\ dict' = Merged(f)
        /\ UNCHANGED <<paths, loader, errChan, collector, errCollector, errs>>
  BY DEF Collect
<1>2. dictChan = {f} /\ f \in paths /\ loader[f] = "sent"
  BY <1>1
<1>3. Arrived' = Arrived \cup {f} /\ Told' = Told
  BY <1>1, <1>2 DEF Arrived, Told
<1>4. /\ DOMAIN dict' = DOMAIN dict \cup Has[f]
      /\ \A id \in DOMAIN dict' : dict'[id] = IF id \in Has[f] THEN f ELSE dict[id]
  BY <1>1 DEF Merged
<1>5. UNION {Has[g] : g \in Arrived \cup {f}} = (UNION {Has[g] : g \in Arrived}) \cup Has[f]
  BY UnionGrows
<1>6. \A id \in DOMAIN dict' : dict'[id] \in Arrived' /\ id \in Has[dict'[id]]
  BY <1>3, <1>4
<1>7. DOMAIN dict' = UNION {Has[g] : g \in Arrived'}
  BY <1>3, <1>4, <1>5
<1> QED BY <1>1, <1>3, <1>6, <1>7 DEF AllSent

LEMMA OtherLoadSteps ==
  ASSUME LoadInv, CollectError \/ CollectorEnds \/ ErrCollectorEnds
  PROVE  LoadInv' /\ paths' = paths
<1> USE DEF LoadInv
<1>1. CASE CollectError
  <2>1. PICK f \in errChan :
          /\ errCollector = "run" /\ errChan' = {} /\ errs' = errs \cup {f}
          /\ UNCHANGED <<paths, loader, dictChan, collector, errCollector, dict>>
    BY <1>1 DEF CollectError
  <2>2. errChan = {f} /\ f \in paths /\ loader[f] = "reported"
    BY <2>1
  <2>3. Told' = Told \cup {f} /\ Arrived' = Arrived
    BY <2>1, <2>2 DEF Arrived, Told
  <2> QED BY <2>1, <2>3 DEF AllSent
<1>2. CASE CollectorEnds \/ ErrCollectorEnds
  <2>1. UNCHANGED <<paths, loader, dictChan, errChan, dict, errs>>
    BY <1>2 DEF CollectorEnds, ErrCollectorEnds
  <2>2. /\ collector' = "done" => AllSent /\ dictChan = {}
        /\ errCollector' = "done" => AllSent /\ errChan = {}
    BY <1>2 DEF CollectorEnds, ErrCollectorEnds
  <2>3. Told' = Told /\ Arrived' = Arrived /\ AllSent' = AllSent
    BY <2>1 DEF Arrived, Told, AllSent
  <2> QED BY <2>1, <2>2, <2>3
<1> QED BY <1>1, <1>2

LEMMA LoadSteps == ASSUME LoadInv, LoadStep PROVE LoadInv' /\ paths' = paths
BY LoaderSteps, CollectSteps, OtherLoadSteps DEF LoadStep

\* When LoadFeed returns, nothing is left in a channel.
LEMMA LoadReturns ==
  ASSUME LoadInv
  PROVE  /\ LoadComplete /\ DOMAIN dict \subseteq Ids
         /\ Loaded /\ errs = {} => DOMAIN dict = UNION {Has[f] : f \in paths}
<1> USE HasAssumption DEF LoadInv
<1>1. DOMAIN dict \subseteq Ids
  BY DEF Arrived
<1>2. ASSUME Loaded
      PROVE  /\ Arrived = {f \in paths : loader[f] = "sent"}
             /\ Told = paths \ Arrived
  BY <1>2 DEF Loaded, AllSent, Arrived, Told
<1>3. LoadComplete
  BY <1>2 DEF LoadComplete
<1>4. ASSUME Loaded, errs = {} PROVE Arrived = paths
  <2>1. paths \ Arrived = {} /\ Arrived \subseteq paths
    BY <1>2, <1>4 DEF Arrived
  <2> QED BY <2>1
<1> QED BY <1>1, <1>3, <1>4

-----------------------------------------------------------------------------
(* Cache.Get *)

\* A call begins: it has its own entry, or the one the map has for its names, or none.
LEMMA CallBegins ==
  ASSUME Answers, NEW c \in Calls, NEW k \in Keys,
         LookupUncached(c, k) \/ LookupHit(c, k) \/ LookupMiss(c, k)
  PROVE  /\ Answers' /\ pc[c] = "idle" /\ pc'[c] # "idle" /\ req'[c] = k
         /\ \A d \in Calls : d # c => pc'[d] = pc[d] /\ req'[d] = req[d]
<1> USE ConstAssumption DEF Answers
<1>1. /\ pc[c] = "idle" /\ held[c] = None /\ req' = [req EXCEPT ![c] = k]
      /\ \E l \in {"nocache", "wait", "compute"} : pc' = [pc EXCEPT ![c] = l]
      /\ \/ UNCHANGED <<held, data>>
         \/ data[k] # None /\ held' = [held EXCEPT ![c] = data[k]] /\ data' = data
         \/ held' = [held EXCEPT ![c] = c] /\ data' = [data EXCEPT ![k] = c]
  BY DEF LookupUncached, LookupHit, LookupMiss, StartComputing, Goto
<1>2. /\ pc' \in [Calls -> Locations] /\ req' \in [Calls -> Keys \cup {None}]
      /\ held' \in [Calls -> Calls \cup {None}] /\ data' \in [Keys -> Calls \cup {None}]
  BY <1>1 DEF Locations
<1>3. \A d \in Calls : d # c => pc'[d] = pc[d] /\ req'[d] = req[d] /\ held'[d] = held[d]
  BY <1>1
<1>4. pc'[c] # "idle" /\ req'[c] = k
  BY <1>1
\* nobody holds the entry of a call that holds none, and the map does not have it
<1>5. /\ \A d \in Calls : held[d] # c
      /\ \A j \in Keys : data[j] # c
  BY <1>1
<1>6. \A d \in Calls : held'[d] # None => held'[held'[d]] = held'[d] /\ req'[held'[d]] = req'[d]
  BY <1>1, <1>3, <1>4, <1>5
<1>7. \A j \in Keys : data'[j] # None => held'[data'[j]] = data'[j] /\ req'[data'[j]] = j
  BY <1>1, <1>3, <1>4, <1>5
<1> QED BY <1>1, <1>2, <1>3, <1>4, <1>6, <1>7

\* Its further steps leave names and entries as they are; eviction takes some out of
\* the map.
LEMMA CallGoesOn ==
  ASSUME Answers, NEW c \in Calls, CallStep(c)
  PROVE  /\ Answers' /\ UNCHANGED <<req, held>> /\ pc[c] \notin {"idle", "done"}
         /\ pc'[c] # "idle" /\ \A d \in Calls : d # c => pc'[d] = pc[d]
<1> USE ConstAssumption DEF Answers
<1>1. /\ UNCHANGED <<req, held>> /\ pc[c] \notin {"idle", "done"}
      /\ \/ pc' = pc
         \/ \E l \in Locations \ {"idle"} : pc' = [pc EXCEPT ![c] = l]
      /\ data' = data \/ data' = Without(Victim)
  BY DEF CallStep, MatchUncached, Compute, Store, Charge, EvictOne, EvictRound, EvictPanic,
         EvictDone, PushEntry, CloseReady, Touch, TouchPanic, Goto, Locations
<1>2. /\ data' \in [Keys -> Calls \cup {None}]
      /\ \A k \in Keys : data'[k] # None => data'[k] = data[k]
  BY <1>1 DEF Without
<1>3. /\ pc' \in [Calls -> Locations] /\ pc'[c] # "idle"
      /\ \A d \in Calls : d # c => pc'[d] = pc[d]
  BY <1>1
<1> QED BY <1>1, <1>2, <1>3

-----------------------------------------------------------------------------
(* The command *)

LEMMA InputFacts ==
  /\ Len(Input) \in Nat /\ DOMAIN Input = 1 .. Len(Input)
  /\ \A i, j \in DOMAIN Input : Input[i] = Input[j] /\ Input[i] \in Calls => i = j
  /\ Feeds \in SUBSET Files /\ Overrides \in SUBSET Files
  /\ None \notin Calls
BY PipelineAssumption, ConstAssumption

LEMMA AllRead ==
  ASSUME next = Len(Input) + 1
  PROVE  \A k \in DOMAIN Input : k < next
BY InputFacts

\* Names match as long as the dictionaries stay.
LEMMA MatchedStays ==
  ASSUME UNCHANGED <<dicts, overrides>>, NEW c, req'[c] = req[c]
  PROVE  Matched(req[c])' = Matched(req[c])
BY DEF Matched

LEMMA InitPipeStrong == PipeInit => PipeStrong
<1> SUFFICES ASSUME PipeInit PROVE PipeStrong
  OBVIOUS
<1> USE InputFacts, ConstAssumption DEF PipeInit
<1>1. LoadInv /\ paths = Feeds
  BY LoadInitial
<1>2. /\ pc = [c \in Calls |-> "idle"] /\ req = [c \in Calls |-> None]
      /\ held = [c \in Calls |-> None] /\ data = [k \in Keys |-> None]
  BY DEF Init
<1>3. Answers
  BY <1>2 DEF Answers, Locations
<1>4. PipeTypes
  <2>1. DOMAIN dicts = {} /\ DOMAIN overrides = {} /\ 1 \in 1 .. Len(Input) + 2
    OBVIOUS
  <2>2. /\ worker \in [Workers -> {"receive", "skip", "get", "send", "end"}]
        /\ rec \in [Workers -> Calls \cup {None}] /\ left \in [Workers -> SUBSET Ids]
    OBVIOUS
  <2>3. writing = {} /\ writerDone = FALSE /\ outBroken = FALSE /\ next = 1
    OBVIOUS
  <2>4. written \in [Rows -> 0 .. 1] /\ stage \in Stages
    BY DEF Stages
  <2> QED BY <2>1, <2>2, <2>3, <2>4 DEF PipeTypes
<1>5. Staged /\ StartsLoaded
  BY <1>1 DEF Staged, StartsLoaded, Closed
<1>6. RecordsHeld
  BY <1>2 DEF RecordsHeld
<1>7. RowsAccounted
  BY <1>2 DEF RowsAccounted, IsDue, Rows
<1>8. Counted
  <2>1. ReadSoFar = {}
    BY DEF ReadSoFar
  <2> QED BY <2>1, FS_EmptySet DEF Counted
<1> QED BY <1>1, <1>3, <1>4, <1>5, <1>6, <1>7, <1>8 DEF PipeStrong

\* What is left to show of a step within the files, the calls or the workers.
LEMMA AnswersStay == ASSUME Answers, UNCHANGED vars PROVE Answers'
BY DEF Answers, vars

LEMMA LoadStays == ASSUME LoadInv, UNCHANGED loadVars PROVE LoadInv'
<1>1. UNCHANGED <<paths, loader, dictChan, errChan, collector, errCollector, dict, errs>>
  BY DEF loadVars
<1> QED BY <1>1 DEF LoadInv, Arrived, Told, AllSent

LEMMA CountStays ==
  ASSUME Counted, UNCHANGED total, next' = next \/ (next > Len(Input) /\ next' > Len(Input)),
         next \in Nat, next' \in Nat
  PROVE  Counted' /\ \A k \in DOMAIN Input : k < next <=> k < next'
<1>1. \A k \in DOMAIN Input : k < next <=> k < next'
  BY InputFacts
<1>2. ReadSoFar' = ReadSoFar
  BY <1>1 DEF ReadSoFar
<1> QED BY <1>1, <1>2 DEF Counted

LEMMA LoadGoesOnKeeps == ASSUME PipeStrong, LoadGoesOn PROVE PipeStrong'
<1> USE DEF PipeStrong
<1>1. LoadInv' /\ paths' = paths /\ UNCHANGED <<vars, pipeVars>>
  BY LoadSteps DEF LoadGoesOn
<1>2. /\ UNCHANGED <<stage, dicts, overrides, worker, rec, left, writing, writerDone, written,
                     outBroken, next, total>>
      /\ UNCHANGED <<pc, req, held, data>>
  BY <1>1 DEF vars, pipeVars, mainVars, workVars, outVars
<1>3. Answers'
  BY <1>1, AnswersStay
<1>4. PipeTypes' /\ Staged' /\ StartsLoaded'
  BY <1>1, <1>2 DEF PipeTypes, Staged, StartsLoaded
<1>5. \A c : Matched(req[c])' = Matched(req[c])
  BY <1>2, MatchedStays
<1>6. RecordsHeld'
  BY <1>2, <1>5 DEF RecordsHeld
<1>7. RowsAccounted'
  BY <1>2, <1>5 DEF RowsAccounted, IsDue, Owed
<1>8. Counted'
  BY <1>2 DEF Counted, ReadSoFar
<1> QED BY <1>1, <1>3, <1>4, <1>6, <1>7, <1>8

\* Before the first record is read nobody has one, and nothing is due.
LEMMA NothingYet ==
  ASSUME PipeStrong, next = 1
  PROVE  /\ \A c \in Calls : pc[c] = "idle"
         /\ \A w \in Workers : rec[w] = None /\ worker[w] \notin {"get", "send"}
         /\ writing = {} /\ \A row \in Rows : written[row] # 1
<1> USE InputFacts DEF PipeStrong
<1>1. \A k \in DOMAIN Input : ~(k < next)
  OBVIOUS
<1>2. \A c \in Calls : pc[c] = "idle" /\ \A w \in Workers : rec[w] # c
  BY <1>1 DEF RecordsHeld
<1>3. \A w \in Workers : rec[w] = None
  BY <1>2 DEF PipeTypes
<1>4. \A row \in Rows : ~IsDue(row)
  BY <1>2 DEF Rows, IsDue
<1>5. writing = {} /\ \A row \in Rows : written[row] # 1
  BY <1>4 DEF RowsAccounted, PipeTypes
<1>6. \A w \in Workers : worker[w] \notin {"get", "send"}
  BY <1>3 DEF RecordsHeld
<1> QED BY <1>2, <1>3, <1>5, <1>6

LEMMA LoadedKeeps == ASSUME PipeStrong, FeedsLoaded \/ OverridesLoaded PROVE PipeStrong'
<1> USE InputFacts DEF PipeStrong
<1>1. /\ UNCHANGED <<vars, next, worker, rec, left, writing, writerDone, written, outBroken, total>>
      /\ stage \in {"feeds", "overrides"} /\ stage' \in {"exitMinus1", "overrides", "read"} /\ Loaded
  BY DEF FeedsLoaded, OverridesLoaded, workVars, outVars
<1>2. next = 1 /\ next' = 1 /\ writerDone = FALSE /\ writerDone' = FALSE
  BY <1>1 DEF Staged, Closed, PipeTypes
<1>3. LoadInv' /\ (stage' = "overrides" => paths' = Overrides)
  <2>1. CASE UNCHANGED loadVars /\ stage' = "exitMinus1"
    BY <2>1, LoadStays
  <2>2. CASE stage' = "overrides" /\ LoadStarted(Overrides)
    BY <2>2, LoadBegins
  <2>3. CASE stage' = "read" /\ LoadStarted({})
    BY <2>3, LoadBegins
  <2> QED BY <2>1, <2>2, <2>3 DEF FeedsLoaded, OverridesLoaded
<1>4. Answers' /\ UNCHANGED <<pc, req>>
  BY <1>1, AnswersStay DEF vars
<1>5. DOMAIN dicts' \subseteq Ids /\ DOMAIN overrides' \subseteq Ids
  BY LoadReturns DEF FeedsLoaded, OverridesLoaded, PipeTypes
<1>6. PipeTypes'
  BY <1>1, <1>5 DEF PipeTypes, Stages
<1>7. stage' = "overrides" => DOMAIN dicts' # {}
  BY DEF FeedsLoaded, OverridesLoaded
<1>8. stage' = "read" => /\ DOMAIN dicts' # {}
                         /\ DOMAIN overrides' = UNION {Has[f] : f \in Overrides}
  <2> SUFFICES ASSUME stage' = "read"
               PROVE  /\ DOMAIN dicts' # {}
                      /\ DOMAIN overrides' = UNION {Has[f] : f \in Overrides}
    OBVIOUS
  <2>1. stage = "overrides" /\ overrides' = dict /\ dicts' = dicts /\ errs = {}
    BY DEF FeedsLoaded, OverridesLoaded
  <2>2. paths = Overrides /\ DOMAIN dicts # {}
    BY <2>1 DEF Staged
  <2> QED BY <1>1, <2>1, <2>2, LoadReturns
<1>9. Staged' /\ StartsLoaded'
  BY <1>1, <1>2, <1>3, <1>7, <1>8 DEF Staged, StartsLoaded, Closed
<1>10. /\ \A c \in Calls : pc'[c] = "idle"
       /\ \A w \in Workers : rec'[w] = None /\ worker'[w] \notin {"get", "send"}
       /\ writing' = {} /\ \A row \in Rows : written'[row] # 1
  BY <1>1, <1>2, <1>4, NothingYet
<1>11. RecordsHeld'
  BY <1>2, <1>10 DEF RecordsHeld
<1>12. RowsAccounted'
  BY <1>10 DEF RowsAccounted, IsDue, Rows
<1>13. Counted'
  BY <1>1 DEF Counted, ReadSoFar
<1> QED BY <1>3, <1>4, <1>6, <1>9, <1>11, <1>12, <1>13

\* What every step after loading leaves as it is.
LEMMA DictionariesStay ==
  ASSUME PipeStrong, UNCHANGED <<loadVars, dicts, overrides>>
  PROVE  /\ LoadInv' /\ paths' = paths
         /\ UNCHANGED stage => StartsLoaded'
         /\ \A c : req'[c] = req[c] => Matched(req[c])' = Matched(req[c])
<1>1. LoadInv' /\ paths' = paths
  BY LoadStays DEF PipeStrong, loadVars
<1>2. UNCHANGED stage => StartsLoaded'
  BY DEF PipeStrong, StartsLoaded
<1>3. \A c : req'[c] = req[c] => Matched(req[c])' = Matched(req[c])
  BY MatchedStays
<1> QED BY <1>1, <1>2, <1>3

\* A worker that waits, skips an error or ends has no record.
LEMMA IdleStepsKeep ==
  ASSUME PipeStrong, NEW w \in Workers, ReadError(w) \/ Skip(w) \/ WorkerEnds(w)
  PROVE  PipeStrong'
<1> USE InputFacts DEF PipeStrong
<1>1. /\ UNCHANGED <<vars, loadVars, stage, dicts, overrides, rec, left, writing, writerDone,
                     written, outBroken, total>>
      /\ worker[w] \in {"receive", "skip"}
      /\ \E l \in {"receive", "skip", "end"} : worker' = [worker EXCEPT ![w] = l]
      /\ \/ next' = next /\ stage \notin Closed
         \/ next' = next /\ worker[w] = "skip"
         \/ stage = "read" /\ next > Len(Input) /\ next' = Len(Input) + 2
  BY DEF ReadError, Skip, WorkerEnds, mainVars, workVars, outVars, Closed
<1>2. /\ \A v \in Workers : v # w => worker'[v] = worker[v]
      /\ worker'[w] \in {"receive", "skip", "end"} /\ rec[w] = None
      /\ next \in Nat /\ next' \in 1 .. Len(Input) + 2
  BY <1>1 DEF PipeTypes, RecordsHeld
<1>3. stage \notin Closed /\ (next' = next \/ stage = "read")
  BY <1>1 DEF Staged
<1>4. LoadInv' /\ Answers' /\ paths' = paths /\ StartsLoaded' /\ UNCHANGED <<pc, req>>
  BY <1>1, AnswersStay, DictionariesStay DEF vars
<1>5. PipeTypes'
  BY <1>1, <1>2 DEF PipeTypes
<1>6. Staged'
  BY <1>1, <1>3, <1>4 DEF Staged, Closed
<1>7. Counted' /\ \A k \in DOMAIN Input : k < next <=> k < next'
  BY <1>1, <1>2, CountStays
<1>8. \A c : Matched(req[c])' = Matched(req[c])
  BY <1>1, <1>4, MatchedStays
<1>9. RecordsHeld'
  BY <1>1, <1>2, <1>4, <1>7, <1>8 DEF RecordsHeld
<1>10. \A row \in Rows : Owed(row)' = Owed(row)
  BY <1>1, <1>2 DEF Owed, Rows
<1>11. RowsAccounted'
  BY <1>1, <1>4, <1>8, <1>10 DEF RowsAccounted, IsDue
<1> QED BY <1>4, <1>5, <1>6, <1>7, <1>9, <1>11

\* A record that is read is a call that was not made yet, and nobody has it.
LEMMA ReadRecordKeeps ==
  ASSUME PipeStrong, NEW w \in Workers, ReadRecord(w)
  PROVE  PipeStrong'
<1> USE InputFacts DEF PipeStrong
<1> DEFINE r == Input[next]
<1>1. /\ UNCHANGED <<vars, loadVars, stage, dicts, overrides, left, writing, writerDone,
                     written, outBroken>>
      /\ stage = "read" /\ worker[w] = "receive"
      /\ next' = next + 1 /\ next \in DOMAIN Input
      /\ \/ /\ r \in Calls /\ worker' = [worker EXCEPT ![w] = "get"]
            /\ rec' = [rec EXCEPT ![w] = r] /\ total' = total + 1
         \/ r \notin Calls /\ UNCHANGED <<worker, rec, total>>
  BY DEF ReadRecord, mainVars, outVars, PipeTypes
<1>2. /\ \A k \in DOMAIN Input : k < next' <=> k < next \/ k = next
      /\ next' \in 1 .. Len(Input) + 2 /\ ~(next < next)
  BY <1>1
<1>3. LoadInv' /\ Answers' /\ paths' = paths /\ StartsLoaded' /\ UNCHANGED <<pc, req>>
  BY <1>1, AnswersStay, DictionariesStay DEF vars
<1>4. \A c : Matched(req[c])' = Matched(req[c])
  BY <1>1, <1>3, MatchedStays
<1>5. Staged'
  BY <1>1, <1>3 DEF Staged, Closed
<1>6. PipeTypes'
  <2>1. /\ worker' \in [Workers -> {"receive", "skip", "get", "send", "end"}]
        /\ rec' \in [Workers -> Calls \cup {None}]
    BY <1>1 DEF PipeTypes
  <2> QED BY <1>1, <1>2, <2>1 DEF PipeTypes
<1>7. CASE r \notin Calls
  <2>1. UNCHANGED <<worker, rec, total>>
    BY <1>1, <1>7
  <2>2. RecordsHeld'
    BY <1>1, <1>2, <1>3, <1>4, <1>7, <2>1 DEF RecordsHeld
  <2>3. \A row \in Rows : Owed(row)' = Owed(row)
    BY <1>1, <2>1 DEF Owed
  <2>4. RowsAccounted'
    BY <1>1, <1>3, <1>4, <2>3 DEF RowsAccounted, IsDue
  <2>5. ReadSoFar' = ReadSoFar
    BY <1>2, <1>7 DEF ReadSoFar
  <2>6. Counted'
    BY <2>1, <2>5 DEF Counted
  <2> QED BY <1>3, <1>5, <1>6, <2>2, <2>4, <2>6
<1>8. CASE r \in Calls
  <2>1. /\ \A v \in Workers : v # w => worker'[v] = worker[v] /\ rec'[v] = rec[v]
        /\ worker'[w] = "get" /\ rec'[w] = r /\ total' = total + 1 /\ rec[w] = None
    BY <1>1, <1>8 DEF PipeTypes, RecordsHeld
  <2>2. pc[r] = "idle" /\ \A v \in Workers : rec[v] # r
    <3>1. ~ \E k \in DOMAIN Input : k < next /\ Input[k] = r
      BY <1>1, <1>2, <1>8
    <3> QED BY <1>8, <3>1 DEF RecordsHeld
  <2> HIDE DEF r
  <2>3. RecordsHeld'
    <3>1. \A v \in Workers : rec'[v] # None <=> worker'[v] \in {"get", "send"}
      BY <1>8, <2>1 DEF RecordsHeld
    <3>2. \A u, v \in Workers : rec'[u] = rec'[v] /\ rec'[u] # None => u = v
      BY <2>1, <2>2 DEF RecordsHeld
    <3>3. \A v \in Workers :
            worker'[v] = "send" =>
              pc'[rec'[v]] = "done" /\ left'[v] \subseteq Matched(req[rec[v]])'
      BY <1>1, <1>3, <1>4, <2>1 DEF RecordsHeld
    <3>4. \A c \in Calls :
            (pc'[c] # "idle" \/ \E v \in Workers : rec'[v] = c) =>
              \E k \in DOMAIN Input : k < next' /\ Input[k] = c
      BY <1>1, <1>2, <1>3, <2>1 DEF RecordsHeld, r
    <3>5. ASSUME NEW k \in DOMAIN Input, k < next', Input[k] \in Calls
          PROVE  \/ pc'[Input[k]] = "done"
                 \/ \E v \in Workers : rec'[v] = Input[k] /\ worker'[v] = "get"
      <4>1. CASE k = next
        BY <2>1, <4>1 DEF r
      <4>2. CASE k < next
        <5>1. CASE pc[Input[k]] = "done"
          BY <1>3, <5>1
        <5>2. CASE \E v \in Workers : rec[v] = Input[k] /\ worker[v] = "get"
          BY <1>1, <2>1, <5>2
        <5> QED BY <3>5, <4>2, <5>1, <5>2 DEF RecordsHeld
      <4> QED BY <1>2, <3>5, <4>1, <4>2
    <3> QED BY <3>1, <3>2, <3>3, <3>4, <3>5 DEF RecordsHeld
  <2>4. RowsAccounted'
    <3> SUFFICES ASSUME NEW row \in Rows
                 PROVE  /\ row \in writing' => IsDue(row)' /\ ~Owed(row)' /\ written'[row] = 0
                        /\ written'[row] = 1 => IsDue(row)' /\ ~Owed(row)'
                        /\ IsDue(row)' => \/ Owed(row)' \/ row \in writing'
                                          \/ written'[row] = 1 \/ outBroken'
      BY DEF RowsAccounted
    <3>1. IsDue(row)' = IsDue(row) /\ (row[1] = r => ~IsDue(row))
      BY <1>3, <1>4, <2>2 DEF IsDue
    <3>2. row[1] # r => Owed(row)' = Owed(row)
      BY <1>1, <2>1 DEF Owed, Rows
    <3> QED BY <1>1, <3>1, <3>2 DEF RowsAccounted
  <2>5. Counted'
    <3>1. ReadSoFar' = ReadSoFar \cup {next} /\ next \notin ReadSoFar
      BY <1>1, <1>2, <1>8 DEF ReadSoFar, r
    <3>2. IsFiniteSet(ReadSoFar)
      <4>1. ReadSoFar \subseteq 1 .. Len(Input) /\ IsFiniteSet(1 .. Len(Input))
        BY FS_Interval DEF ReadSoFar
      <4> QED BY <4>1, FS_Subset
    <3> QED BY <2>1, <3>1, <3>2, FS_AddElement DEF Counted
  <2> QED BY <1>3, <1>5, <1>6, <2>3, <2>4, <2>5
<1> QED BY <1>7, <1>8

\* While a record is looked up all of its rows are owed, so that neither what it is
\* matched against nor how far the call has come says anything of a row.
LEMMA LookupKeeps ==
  ASSUME PipeStrong, NEW w \in Workers, CallGet(w) \/ GetGoesOn(w)
  PROVE  PipeStrong'
<1> USE InputFacts DEF PipeStrong
<1> DEFINE c == rec[w]
<1>1. /\ UNCHANGED <<loadVars, pipeVars>> /\ worker[w] = "get" /\ c \in Calls
      /\ \/ \E k \in Keys : LookupUncached(c, k) \/ LookupHit(c, k) \/ LookupMiss(c, k)
         \/ CallStep(c)
  BY DEF CallGet, GetGoesOn, RecordsHeld, PipeTypes
<1>2. UNCHANGED <<stage, dicts, overrides, worker, rec, left, writing, writerDone, written,
                  outBroken, next, total>>
  BY <1>1 DEF pipeVars, mainVars, workVars, outVars
<1>3. /\ Answers' /\ pc'[c] # "idle" /\ pc[c] # "done"
      /\ \A d \in Calls : d # c => pc'[d] = pc[d] /\ req'[d] = req[d]
  <2>1. CASE CallStep(c)
    BY <1>1, <2>1, CallGoesOn
  <2>2. CASE \E k \in Keys : LookupUncached(c, k) \/ LookupHit(c, k) \/ LookupMiss(c, k)
    BY <1>1, <2>2, CallBegins
  <2> QED BY <1>1, <2>1, <2>2
<1> HIDE DEF c
<1>4. LoadInv' /\ paths' = paths /\ StartsLoaded'
  BY <1>1, <1>2, DictionariesStay
<1>5. \A d \in Calls : d # c => Matched(req[d])' = Matched(req[d])
  BY <1>2, <1>3, MatchedStays
<1>6. PipeTypes' /\ Staged'
  BY <1>2, <1>4 DEF PipeTypes, Staged
<1>7. RecordsHeld'
  <2>1. \A v \in Workers : worker[v] = "send" => rec[v] \in Calls /\ rec[v] # c
    BY <1>1 DEF RecordsHeld, PipeTypes, c
  <2>2. \A v \in Workers :
          worker'[v] = "send" =>
            pc'[rec'[v]] = "done" /\ left'[v] \subseteq Matched(req[rec[v]])'
    BY <1>2, <1>3, <1>5, <2>1 DEF RecordsHeld
  <2>3. \A d \in Calls :
          (pc'[d] # "idle" \/ \E v \in Workers : rec'[v] = d) =>
            \E k \in DOMAIN Input : k < next' /\ Input[k] = d
    BY <1>1, <1>2, <1>3 DEF RecordsHeld, c
  <2>4. \A k \in DOMAIN Input :
          k < next' /\ Input[k] \in Calls =>
            \/ pc'[Input[k]] = "done"
            \/ \E v \in Workers : rec'[v] = Input[k] /\ worker'[v] = "get"
    BY <1>1, <1>2, <1>3 DEF RecordsHeld, c
  <2> QED BY <1>2, <2>2, <2>3, <2>4 DEF RecordsHeld
<1>8. RowsAccounted'
  <2> SUFFICES ASSUME NEW row \in Rows
               PROVE  /\ row \in writing' => IsDue(row)' /\ ~Owed(row)' /\ written'[row] = 0
                      /\ written'[row] = 1 => IsDue(row)' /\ ~Owed(row)'
                      /\ IsDue(row)' => \/ Owed(row)' \/ row \in writing'
                                        \/ written'[row] = 1 \/ outBroken'
    BY DEF RowsAccounted
  <2>1. Owed(row)' = Owed(row) /\ (row[1] = c => Owed(row))
    BY <1>1, <1>2 DEF Owed, c
  <2>2. row[1] # c => IsDue(row)' = IsDue(row)
    BY <1>3, <1>5 DEF IsDue, Rows
  <2> QED BY <1>2, <2>1, <2>2 DEF RowsAccounted
<1>9. Counted'
  BY <1>2 DEF Counted, ReadSoFar
<1> QED BY <1>3, <1>4, <1>6, <1>7, <1>8, <1>9

\* A worker's record with the rows that are left of it: what they are, and what else
\* is on its way, decides of the rows alone.
LEMMA RemainKeeps ==
  ASSUME PipeStrong, NEW w \in Workers, worker[w] \in {"get", "send"},
         NEW ids \in SUBSET Ids, Remain(w, ids),
         pc[rec[w]] = "done", ids \subseteq Matched(req[rec[w]]),
         UNCHANGED <<vars, loadVars, mainVars, next, writerDone, written, outBroken, total>>,
         writing' \subseteq Rows, \A x, y \in writing' : x = y, writing' # {} => ~writerDone
  PROVE  /\ rec[w] \in Calls
         /\ \A row \in Rows : IsDue(row)' = IsDue(row)
         /\ \A row \in Rows : row[1] # rec[w] => Owed(row)' = Owed(row)
         /\ \A row \in Rows : row[1] = rec[w] => (Owed(row)' <=> row[2] \in ids)
         /\ \A row \in Rows :
              row[1] = rec[w] => (Owed(row) <=> worker[w] = "get" \/ row[2] \in left[w])
         /\ RowsAccounted' => PipeStrong'
<1> USE InputFacts DEF PipeStrong
<1> DEFINE c == rec[w]
           to == IF ids = {} THEN "receive" ELSE "send"
           then == IF ids = {} THEN None ELSE c
<1>1. /\ c \in Calls /\ left' = [left EXCEPT ![w] = ids]
      /\ worker' = [worker EXCEPT ![w] = to] /\ rec' = [rec EXCEPT ![w] = then]
  BY DEF Remain, RecordsHeld, PipeTypes
<1>2. /\ UNCHANGED <<stage, dicts, overrides, next, writerDone, written, outBroken, total>>
      /\ UNCHANGED <<pc, req>>
  BY DEF vars, mainVars
<1>3. /\ \A v \in Workers : v # w =>
           worker'[v] = worker[v] /\ rec'[v] = rec[v] /\ left'[v] = left[v] /\ rec[v] # c
      /\ worker'[w] = to /\ rec'[w] = then /\ left'[w] = ids
  BY <1>1 DEF PipeTypes, RecordsHeld
<1>4. \A d : Matched(req[d])' = Matched(req[d])
  BY <1>2, MatchedStays
<1>5. \A row \in Rows : IsDue(row)' = IsDue(row)
  BY <1>2, <1>4 DEF IsDue
<1>6. \A row \in Rows : row[1] # c => Owed(row)' = Owed(row)
  BY <1>1, <1>3 DEF Owed, Rows
<1>7. \A row \in Rows : row[1] = c => (Owed(row)' <=> row[2] \in ids)
  BY <1>1, <1>3 DEF Owed, Rows
<1>8. \A row \in Rows : row[1] = c => (Owed(row) <=> worker[w] = "get" \/ row[2] \in left[w])
  BY <1>1, <1>3 DEF Owed, Rows
<1>9. LoadInv' /\ Answers' /\ StartsLoaded' /\ paths' = paths
  BY <1>2, AnswersStay, DictionariesStay DEF loadVars
<1>10. PipeTypes'
  <2>1. to \in {"receive", "send"} /\ then \in Calls \cup {None}
    BY <1>1
  <2> HIDE DEF to, then
  <2> QED BY <1>1, <1>2, <2>1 DEF PipeTypes
<1>11. Staged'
  <2>1. stage \notin Closed
    BY DEF Staged
  <2>2. writerDone = FALSE /\ writerDone' = FALSE /\ stage' = stage /\ next' = next
    BY <1>2, <2>1 DEF Staged, PipeTypes
  <2>3. stage \notin {"closed", "done", "exit0", "exit1"}
    BY <2>1 DEF Closed
  <2> HIDE DEF to, then
  <2>4. UNCHANGED <<paths, dicts>>
    BY <1>2, <1>9
  <2> QED BY <2>2, <2>3, <2>4 DEF Staged, Closed
<1>12. RecordsHeld'
  <2>1. /\ then # None <=> to \in {"get", "send"}
        /\ then = None \/ then = c
        /\ to = "send" => then = c
        /\ to # "get"
    BY <1>1
  <2> HIDE DEF to, then
  <2>2. \A v \in Workers : rec'[v] # None <=> worker'[v] \in {"get", "send"}
    BY <1>3, <2>1 DEF RecordsHeld
  <2>3. \A u, v \in Workers : rec'[u] = rec'[v] /\ rec'[u] # None => u = v
    BY <1>3, <2>1 DEF RecordsHeld
  <2>4. \A v \in Workers :
          worker'[v] = "send" =>
            pc'[rec'[v]] = "done" /\ left'[v] \subseteq Matched(req[rec[v]])'
    BY <1>2, <1>3, <1>4, <2>1 DEF RecordsHeld
  <2>5. \A d \in Calls :
          (pc'[d] # "idle" \/ \E v \in Workers : rec'[v] = d) =>
            \E k \in DOMAIN Input : k < next' /\ Input[k] = d
    BY <1>2, <1>3, <2>1 DEF RecordsHeld
  <2>6. \A k \in DOMAIN Input :
          k < next' /\ Input[k] \in Calls =>
            \/ pc'[Input[k]] = "done"
            \/ \E v \in Workers : rec'[v] = Input[k] /\ worker'[v] = "get"
    BY <1>2, <1>3 DEF RecordsHeld
  <2> QED BY <2>2, <2>3, <2>4, <2>5, <2>6 DEF RecordsHeld
<1>13. Counted'
  BY <1>2 DEF Counted, ReadSoFar
<1> QED BY <1>1, <1>5, <1>6, <1>7, <1>8, <1>9, <1>10, <1>11, <1>12, <1>13

\* What Get returns are the matches of the names its own call was given.
LEMMA GotKeeps == ASSUME PipeStrong, NEW w \in Workers, Got(w) PROVE PipeStrong'
<1> USE InputFacts DEF PipeStrong
<1> DEFINE c == rec[w]
           ids == Matched(req[c])
<1>1. /\ worker[w] = "get" /\ pc[c] = "done"
      /\ Remain(w, Matched(req[IF held[c] = None THEN c ELSE held[c]]))
      /\ UNCHANGED <<vars, loadVars, mainVars, next, writing, writerDone, written, outBroken,
                     total>>
  BY DEF Got, outVars
<1>2. c \in Calls
  BY <1>1 DEF PipeTypes, RecordsHeld
<1>3. req[IF held[c] = None THEN c ELSE held[c]] = req[c]
  BY <1>2 DEF Answers
<1>4. ids \in SUBSET Ids
  BY DEF Matched, PipeTypes
<1>5. Remain(w, ids)
  BY <1>1, <1>3
<1> HIDE DEF ids
<1>6. /\ writing' \subseteq Rows /\ \A x, y \in writing' : x = y
      /\ writing' # {} => ~writerDone
  BY <1>1 DEF PipeTypes, Staged
<1>7. /\ \A row \in Rows : IsDue(row)' = IsDue(row)
      /\ \A row \in Rows : row[1] # rec[w] => Owed(row)' = Owed(row)
      /\ \A row \in Rows : row[1] = rec[w] => (Owed(row)' <=> row[2] \in ids) /\ Owed(row)
      /\ RowsAccounted' => PipeStrong'
  BY <1>1, <1>4, <1>5, <1>6, RemainKeeps DEF ids
<1>8. \A row \in Rows : row[1] = rec[w] /\ IsDue(row) => row[2] \in ids
  BY DEF IsDue, ids
<1>9. RowsAccounted'
  BY <1>1, <1>7, <1>8 DEF RowsAccounted
<1> QED BY <1>7, <1>9

LEMMA SendRowKeeps == ASSUME PipeStrong, NEW w \in Workers, SendRow(w) PROVE PipeStrong'
<1> USE InputFacts DEF PipeStrong
<1> DEFINE c == rec[w]
<1>1. PICK id \in left[w] : Remain(w, left[w] \ {id}) /\ writing' = {<<c, id>>}
  BY DEF SendRow
<1> DEFINE ids == left[w] \ {id}
<1>2. /\ worker[w] = "send" /\ writing = {} /\ ~writerDone
      /\ UNCHANGED <<vars, loadVars, mainVars, next, writerDone, written, outBroken, total>>
  BY DEF SendRow
<1>3. /\ c \in Calls /\ pc[c] = "done" /\ left[w] \subseteq Matched(req[c])
      /\ left[w] \subseteq Ids
  BY <1>2 DEF PipeTypes, RecordsHeld
<1>4. PICK sent \in Rows : sent = <<c, id>> /\ sent[1] = c /\ sent[2] = id
  <2>1. <<c, id>> \in Rows /\ <<c, id>>[1] = c /\ <<c, id>>[2] = id
    BY <1>3 DEF Rows
  <2> QED BY <2>1, Zenon
<1>5. \A row \in Rows : row[1] = c /\ row[2] = id => row = sent
  <2>1. \A row \in Calls \X Ids : row = <<row[1], row[2]>>
    OBVIOUS
  <2> QED BY <1>4, <2>1 DEF Rows
<1>6. writing' = {sent}
  BY <1>1, <1>4
<1>7. Remain(w, ids)
  BY <1>1
<1>8. ids \in SUBSET Ids /\ ids \subseteq Matched(req[c])
  BY <1>3
<1>9. \A i : i \in ids <=> i \in left[w] /\ i # id
  OBVIOUS
<1> HIDE DEF ids
<1>10. /\ \A row \in Rows : IsDue(row)' = IsDue(row)
       /\ \A row \in Rows : row[1] # c => Owed(row)' = Owed(row)
       /\ \A row \in Rows :
            row[1] = c => /\ Owed(row)' <=> row[2] \in ids
                          /\ Owed(row) <=> row[2] \in left[w]
       /\ RowsAccounted' => PipeStrong'
  BY <1>2, <1>3, <1>4, <1>6, <1>7, <1>8, RemainKeeps
<1>11. Owed(sent) /\ ~Owed(sent)' /\ \A row \in Rows : row # sent => (Owed(row)' <=> Owed(row))
  BY <1>4, <1>5, <1>9, <1>10
<1>12. IsDue(sent) /\ written[sent] = 0
  <2>1. IsDue(sent)
    BY <1>3, <1>4 DEF IsDue
  <2>2. written[sent] # 1 /\ written[sent] \in 0 .. 1
    BY <1>4, <1>11 DEF RowsAccounted, PipeTypes
  <2> QED BY <2>1, <2>2
<1>13. RowsAccounted'
  BY <1>2, <1>4, <1>6, <1>10, <1>11, <1>12 DEF RowsAccounted
<1> QED BY <1>10, <1>13

\* The row the writer has becomes written, once, or is lost with the output.
LEMMA WriteRowKeeps == ASSUME PipeStrong, WriteRow PROVE PipeStrong'
<1> USE InputFacts DEF PipeStrong
<1>1. /\ UNCHANGED <<vars, loadVars, mainVars, next, workVars, writerDone, total>>
      /\ writing # {} /\ writing' = {}
      /\ \/ /\ written' = [row \in Rows |-> written[row] + Cardinality({row} \cap writing)]
            /\ outBroken' = outBroken
         \/ outBroken' = TRUE /\ written' = written
  BY DEF WriteRow, WriteAndKeep
<1>2. /\ UNCHANGED <<stage, dicts, overrides, worker, rec, left, next, writerDone, total>>
      /\ UNCHANGED <<pc, req>>
  BY <1>1 DEF vars, mainVars, workVars
<1>3. \/ outBroken' = TRUE /\ written' = written
      \/ /\ outBroken' = outBroken /\ written' \in [Rows -> 0 .. 1]
         /\ \A row \in Rows :
              written'[row] = 1 <=> row \in writing \/ written[row] = 1
  <2> SUFFICES ASSUME written' = [row \in Rows |-> written[row] + Cardinality({row} \cap writing)]
               PROVE  /\ written' \in [Rows -> 0 .. 1]
                      /\ \A row \in Rows :
                           written'[row] = 1 <=> row \in writing \/ written[row] = 1
    BY <1>1
  <2>1. ASSUME NEW row \in Rows
        PROVE  /\ written'[row] \in 0 .. 1
               /\ written'[row] = 1 <=> row \in writing \/ written[row] = 1
    <3>1. written'[row] = written[row] + Cardinality({row} \cap writing) /\ written[row] \in 0 .. 1
      BY DEF PipeTypes
    <3>2. CASE row \in writing
      <4>1. {row} \cap writing = {row} /\ written[row] = 0
        BY <3>2 DEF RowsAccounted
      <4>2. Cardinality({row}) = 1
        BY FS_Singleton
      <4> QED BY <3>1, <3>2, <4>1, <4>2
    <3>3. CASE row \notin writing
      <4>1. {row} \cap writing = {}
        BY <3>3
      <4>2. Cardinality({}) = 0
        BY FS_EmptySet
      <4> QED BY <3>1, <3>3, <4>1, <4>2
    <3> QED BY <3>2, <3>3
  <2> QED BY <2>1
<1>4. LoadInv' /\ Answers' /\ StartsLoaded' /\ paths' = paths
  BY <1>1, <1>2, AnswersStay, DictionariesStay
<1>5. PipeTypes'
  BY <1>1, <1>2, <1>3 DEF PipeTypes
<1>6. Staged'
  <2>1. UNCHANGED <<stage, paths, dicts, next, worker, writerDone>> /\ writerDone \in BOOLEAN
    BY <1>2, <1>4 DEF PipeTypes
  <2>2. writing' = {}
    BY <1>1
  <2> QED BY <2>1, <2>2 DEF Staged
<1>7. \A c : Matched(req[c])' = Matched(req[c])
  BY <1>2, MatchedStays
<1>8. RecordsHeld' /\ Counted'
  BY <1>2, <1>7 DEF RecordsHeld, Counted, ReadSoFar
<1>9. \A row \in Rows : (IsDue(row)' <=> IsDue(row)) /\ (Owed(row)' <=> Owed(row))
  BY <1>2, <1>7 DEF IsDue, Owed
<1>10. RowsAccounted'
  BY <1>1, <1>3, <1>9 DEF RowsAccounted
<1> QED BY <1>4, <1>5, <1>6, <1>8, <1>10

\* Main goes to its next stage, or the writer, with nothing left to it, ends.
LEMMA EndsKeep ==
  ASSUME PipeStrong,
         CloseIn \/ CloseOut \/ Profiled \/ ProfileFails \/ Exit \/ WriterEnds
  PROVE  PipeStrong'
<1> USE InputFacts DEF PipeStrong
<1>1. /\ UNCHANGED <<vars, loadVars, dicts, overrides, next, workVars, writing, written, outBroken,
                     total>>
      /\ \/ stage = "read" /\ stage' = "wait" /\ next = Len(Input) + 1 /\ UNCHANGED writerDone
         \/ /\ stage = "wait" /\ stage' = "closed" /\ \A w \in Workers : worker[w] = "end"
            /\ UNCHANGED writerDone
         \/ stage = "closed" /\ stage' \in {"done", "exit1"} /\ UNCHANGED writerDone
         \/ stage = "done" /\ stage' = "exit0" /\ writerDone /\ UNCHANGED writerDone
         \/ stage \in {"closed", "done"} /\ stage' = stage /\ writing = {} /\ writerDone' = TRUE
  BY DEF CloseIn, CloseOut, Profiled, ProfileFails, Exit, WriterEnds, EndWriterIf, MainGoes,
         mainVars, outVars
<1>2. /\ UNCHANGED <<dicts, overrides, worker, rec, left, next, writing, written, outBroken, total>>
      /\ UNCHANGED <<pc, req>>
  BY <1>1 DEF vars, workVars
<1>3. LoadInv' /\ Answers' /\ paths' = paths
  BY <1>1, AnswersStay, DictionariesStay
<1>4. PipeTypes'
  BY <1>1, <1>2 DEF PipeTypes, Stages
<1>5. Staged'
  <2>1. UNCHANGED <<paths, dicts, next, worker, writing>> /\ writerDone \in BOOLEAN
    BY <1>2, <1>3 DEF PipeTypes
  <2>2. CASE stage = "read" /\ stage' = "wait" /\ next = Len(Input) + 1 /\ UNCHANGED writerDone
    BY <2>1, <2>2 DEF Staged, Closed
  <2>3. CASE /\ stage = "wait" /\ stage' = "closed" /\ \A w \in Workers : worker[w] = "end"
             /\ UNCHANGED writerDone
    BY <2>1, <2>3 DEF Staged, Closed
  <2>4. CASE stage = "closed" /\ stage' \in {"done", "exit1"} /\ UNCHANGED writerDone
    BY <2>1, <2>4 DEF Staged, Closed
  <2>5. CASE stage = "done" /\ stage' = "exit0" /\ writerDone /\ UNCHANGED writerDone
    BY <2>1, <2>5 DEF Staged, Closed
  <2>6. CASE /\ stage \in {"closed", "done"} /\ stage' = stage /\ writing = {}
             /\ writerDone' = TRUE
    BY <2>1, <2>6 DEF Staged, Closed
  <2> QED BY <1>1, <2>2, <2>3, <2>4, <2>5, <2>6
<1>6. StartsLoaded'
  BY <1>1 DEF StartsLoaded
<1>7. \A c : Matched(req[c])' = Matched(req[c])
  BY <1>2, MatchedStays
<1>8. RecordsHeld' /\ Counted'
  BY <1>2, <1>7 DEF RecordsHeld, Counted, ReadSoFar
<1>9. \A row \in Rows : (IsDue(row)' <=> IsDue(row)) /\ (Owed(row)' <=> Owed(row))
  BY <1>2, <1>7 DEF IsDue, Owed
<1>10. RowsAccounted'
  BY <1>2, <1>9 DEF RowsAccounted
<1> QED BY <1>3, <1>4, <1>5, <1>6, <1>8, <1>10

LEMMA PipeStutterKeeps == ASSUME PipeStrong, UNCHANGED cvars PROVE PipeStrong'
<1> USE DEF PipeStrong
<1>1. UNCHANGED <<vars, loadVars, pipeVars>>
  BY DEF cvars
<1>2. /\ UNCHANGED <<stage, dicts, overrides, worker, rec, left, writing, writerDone, written,
                     outBroken, next, total>>
      /\ UNCHANGED <<pc, req>>
  BY <1>1 DEF vars, pipeVars, mainVars, workVars, outVars
<1>3. LoadInv' /\ Answers' /\ paths' = paths /\ StartsLoaded'
  BY <1>1, <1>2, AnswersStay, DictionariesStay
<1>4. \A c : Matched(req[c])' = Matched(req[c])
  BY <1>2, MatchedStays
<1>5. PipeTypes' /\ Staged' /\ RecordsHeld' /\ Counted'
  <2>1. PipeTypes' /\ RecordsHeld' /\ Counted'
    BY <1>2, <1>4 DEF PipeTypes, RecordsHeld, Counted, ReadSoFar
  <2>2. /\ UNCHANGED <<stage, paths, dicts, next, worker, writing, writerDone>>
        /\ writerDone \in BOOLEAN
    BY <1>2, <1>3 DEF PipeTypes
  <2>3. Staged'
    BY <2>2 DEF Staged
  <2> QED BY <2>1, <2>3
<1>6. \A row \in Rows : (IsDue(row)' <=> IsDue(row)) /\ (Owed(row)' <=> Owed(row))
  BY <1>2, <1>4 DEF IsDue, Owed
<1>7. RowsAccounted'
  BY <1>2, <1>6 DEF RowsAccounted
<1> QED BY <1>3, <1>5, <1>7

LEMMA PipeInvariant == PipeSpec => []PipeStrong
<1>1. ASSUME PipeStrong, [PipeNext]_cvars PROVE PipeStrong'
  <2>1. CASE UNCHANGED cvars
    BY <1>1, <2>1, PipeStutterKeeps
  <2>2. CASE LoadGoesOn
    BY <1>1, <2>2, LoadGoesOnKeeps
  <2>3. CASE MainGoesOn
    BY <1>1, <2>3, LoadedKeeps, EndsKeep DEF MainGoesOn
  <2>4. CASE WriterGoesOn
    BY <1>1, <2>4, WriteRowKeeps, EndsKeep DEF WriterGoesOn
  <2>5. CASE \E w \in Workers : ReadRecord(w) \/ ReadError(w) \/ WorkerGoesOn(w)
    BY <1>1, <2>5, ReadRecordKeeps, IdleStepsKeep, LookupKeeps, GotKeeps, SendRowKeeps
       DEF WorkerGoesOn
  <2> QED BY <1>1, <2>1, <2>2, <2>3, <2>4, <2>5 DEF PipeNext
<1> QED BY <1>1, InitPipeStrong, PTL DEF PipeSpec

-----------------------------------------------------------------------------
LEMMA OneAtMost ==
  ASSUME NEW S, \A x, y \in S : x = y
  PROVE  Cardinality(S) <= 1
<1>1. CASE S = {}
  BY <1>1, FS_EmptySet
<1>2. CASE S # {}
  <2>1. PICK x \in S : S = {x}
    BY <1>2
  <2> QED BY <2>1, FS_Singleton
<1> QED BY <1>1, <1>2

LEMMA CountedWithin ==
  ASSUME Counted
  PROVE  total \in 0 .. Len(Input)
<1>1. ReadSoFar \subseteq 1 .. Len(Input)
  BY InputFacts DEF ReadSoFar
<1>2. IsFiniteSet(1 .. Len(Input)) /\ Cardinality(1 .. Len(Input)) = Len(Input)
  BY InputFacts, FS_Interval
<1>3. IsFiniteSet(ReadSoFar) /\ Cardinality(ReadSoFar) <= Len(Input)
  BY <1>1, <1>2, FS_Subset
<1>4. Cardinality(ReadSoFar) \in Nat
  BY <1>3, FS_CardinalityType
<1> QED BY <1>3, <1>4, InputFacts DEF Counted

(* Whatever fails, dictionaries are complete when the first record is read, all
   overrides among them, and no row is written twice or for a record it is not a match of
   (cpe2cve.go, dictionary.go, cvecache.go), also when the match was another call's. *)
THEOREM RowsAreDue == PipeSpec => []PipeInv
<1>1. PipeStrong => PipeInv
  <2> SUFFICES ASSUME PipeStrong PROVE PipeInv
    OBVIOUS
  <2> USE DEF PipeStrong
  <2>1. PipeTypeOK
    <3>1. Cardinality(writing) <= 1
      BY OneAtMost DEF PipeTypes
    <3> QED BY <3>1, CountedWithin DEF PipeTypes, PipeTypeOK
  <2>2. LoadComplete
    BY LoadReturns
  <2>3. OnlyDueOnce
    <3> SUFFICES ASSUME NEW row \in Rows
                 PROVE  written[row] <= (IF row \in Due THEN 1 ELSE 0)
      BY DEF OnlyDueOnce
    <3>1. written[row] \in 0 .. 1 /\ (written[row] = 1 => row \in Due)
      BY DEF PipeTypes, RowsAccounted, IsDue, Due
    <3> QED BY <3>1
  <2> QED BY <2>1, <2>2, <2>3 DEF PipeInv
<1> QED BY <1>1, PipeInvariant, PTL

(* However cpe2cve ends, all rows of all records have been written by then, but for
   those a broken output takes, and one that the writer still has when the memory
   profile fails: the channels are closed in an order that lets the last row through
   (cpe2cve.go, processInput and Main).                                        *)
THEOREM LittleIsLost == PipeSpec => []ExitsComplete
<1>1. PipeStrong => ExitsComplete
  <2> SUFFICES ASSUME PipeStrong PROVE ExitsWell /\ ProfileLosesOneRow
    BY DEF ExitsComplete
  <2> USE DEF PipeStrong
  <2>1. ASSUME stage \in Closed
        PROVE  /\ next = Len(Input) + 1
               /\ \A w \in Workers : worker[w] = "end"
               /\ \A row \in Rows : ~Owed(row)
    BY <2>1 DEF Staged, Owed
  <2>2. ExitsWell
    <3> SUFFICES ASSUME stage = "exit0"
                 PROVE  /\ total = Cardinality({k \in DOMAIN Input : Input[k] \in Calls})
                        /\ \A c \in Calls : (\E k \in DOMAIN Input : Input[k] = c) => pc[c] = "done"
                        /\ ~outBroken => \A row \in Due : written[row] = 1
      BY DEF ExitsWell
    <3>1. stage \in Closed /\ writing = {}
      BY DEF Staged, Closed
    <3>2. \A k \in DOMAIN Input : k < next
      <4>1. next = Len(Input) + 1
        BY <2>1, <3>1
      <4> QED BY <4>1, AllRead
    <3>3. ReadSoFar = {k \in DOMAIN Input : Input[k] \in Calls}
      BY <3>2 DEF ReadSoFar
    <3>4. ASSUME NEW c \in Calls, NEW k \in DOMAIN Input, Input[k] = c PROVE pc[c] = "done"
      <4>1. \A w \in Workers : worker[w] # "get"
        BY <2>1, <3>1
      <4> QED BY <3>2, <3>4, <4>1 DEF RecordsHeld
    <3>5. ~outBroken => \A row \in Due : written[row] = 1
      <4>1. \A row \in Rows : ~Owed(row) /\ row \notin writing
        BY <2>1, <3>1
      <4> QED BY <4>1 DEF RowsAccounted, Due, IsDue
    <3> QED BY <3>3, <3>4, <3>5 DEF Counted
  <2>3. ProfileLosesOneRow
    <3> SUFFICES ASSUME stage = "exit1", ~outBroken
                 PROVE  Cardinality({row \in Due : written[row] = 0}) <= 1
      BY DEF ProfileLosesOneRow
    <3>1. stage \in Closed
      BY DEF Closed
    <3>2. ASSUME NEW row \in Due, written[row] = 0 PROVE row \in writing
      <4>1. row \in Rows /\ IsDue(row)
        BY DEF Due, IsDue
      <4>2. ~Owed(row)
        BY <2>1, <3>1, <4>1
      <4>3. written[row] # 1
        BY <3>2
      <4> QED BY <4>1, <4>2, <4>3 DEF RowsAccounted
    <3>3. \A x, y \in {row \in Due : written[row] = 0} : x = y
      BY <3>2 DEF PipeTypes
    <3> QED BY <3>3, OneAtMost
  <2> QED BY <2>2, <2>3
<1> QED BY <1>1, PipeInvariant, PTL
-----------------------------------------------------------------------------
(* Positions and trees: nodes are numbered, children above their parents        *)

\* Positions have a greatest, and a least: the intervals from them on to the end have a
\* smallest, for none of them holds infinitely many others.
LEMMA LastPosition ==
  ASSUME NEW n \in Nat, NEW S \in SUBSET (1 .. n), S # {}
  PROVE  \E i \in S : \A k \in S : k <= i
<1> DEFINE F == {i .. n : i \in S}
           R == StrictSubsetOrdering(1 .. n)
<1>1. IsFiniteSet(1 .. n)
  BY 1 \in Int, n \in Int, FS_Interval
<1>2. IsWellFoundedOn(R, FiniteSubsetsOf(1 .. n))
  BY <1>1, FS_StrictSubsetOrderingWellFounded
<1>3. F \subseteq FiniteSubsetsOf(1 .. n)
  <2>1. F \subseteq SUBSET (1 .. n)
    OBVIOUS
  <2> HIDE DEF F
  <2> QED BY <1>1, <2>1, FS_FiniteSubsetsOfFinite
<1>4. F # {}
  OBVIOUS
<1>5. PICK s \in F : \A t \in F : <<t, s>> \notin R
  <2> HIDE DEF F, R
  <2> QED BY <1>2, <1>3, <1>4, WFMin
<1>6. PICK i \in S : s = i .. n
  OBVIOUS
<1>7. ASSUME NEW k \in S, i < k PROVE FALSE
  <2>1. k .. n \in F /\ k .. n \subseteq s /\ i \in s /\ i \notin k .. n
    BY <1>6, <1>7
  <2>2. <<k .. n, s>> \in R
    BY <2>1, <1>6 DEF StrictSubsetOrdering
  <2> QED BY <1>5, <2>1, <2>2
<1> QED BY <1>7

LEMMA FirstPosition ==
  ASSUME NEW n \in Nat, NEW S \in SUBSET (1 .. n), S # {}
  PROVE  \E i \in S : \A k \in S : i <= k
<1> DEFINE T == {n + 1 - i : i \in S}
<1>1. T \in SUBSET (1 .. n) /\ T # {}
  <2>1. \A i \in S : i \in 1 .. n /\ n + 1 - i \in 1 .. n
    OBVIOUS
  <2> QED BY <2>1
<1>2. PICK j \in T : \A k \in T : k <= j
  <2> HIDE DEF T
  <2> QED BY <1>1, LastPosition
<1>3. PICK i \in S : j = n + 1 - i
  OBVIOUS
<1>4. ASSUME NEW k \in S PROVE i <= k
  <2>1. n + 1 - k \in T
    OBVIOUS
  <2> QED BY <1>2, <1>3, <2>1
<1> QED BY <1>4

\* What holds of a node when it does of all after it holds of every node.
LEMMA FromTheLeaves ==
  ASSUME NEW n \in Nat, NEW S,
         \A k \in 1 .. n : (\A m \in k + 1 .. n : m \in S) => k \in S
  PROVE  1 .. n \subseteq S
<1> SUFFICES ASSUME (1 .. n) \ S # {} PROVE FALSE
  OBVIOUS
<1>1. PICK k \in (1 .. n) \ S : \A m \in (1 .. n) \ S : m <= k
  BY LastPosition
<1>2. \A m \in k + 1 .. n : m \in S
  BY <1>1
<1> QED BY <1>1, <1>2

\* f[k] is what G[k] makes of the children of k; kids: for each node nodes after it
Solves(f, n, kids, V, G) ==
  /\ f \in [1 .. n -> V]
  /\ \A k \in 1 .. n : f[k] = G[k][[c \in kids[k] |-> f[c]]]

\* What is computed of every node from what is computed of its children exists.
LEMMA TreeRecursion ==
  ASSUME NEW n \in Nat, NEW kids, \A k \in 1 .. n : kids[k] \subseteq k + 1 .. n,
         NEW V, NEW G, \A k \in 1 .. n : \A h \in [kids[k] -> V] : G[k][h] \in V
  PROVE  \E f : Solves(f, n, kids, V, G)
<1> DEFINE Part(f, j) == /\ f \in [j .. n -> V]
                         /\ \A k \in j .. n : f[k] = G[k][[c \in kids[k] |-> f[c]]]
           Reached(j) == \E f : Part(f, j)
           S == {j \in 1 .. n + 1 : Reached(j)}
<1>1. Reached(n + 1)
  <2> DEFINE e == [k \in n + 1 .. n |-> {}]
  <2>1. Part(e, n + 1)
    OBVIOUS
  <2> QED BY <2>1
<1>2. ASSUME NEW k \in 1 .. n, Reached(k + 1) PROVE Reached(k)
  <2>1. PICK f : Part(f, k + 1)
    BY <1>2
  <2> DEFINE h == [c \in kids[k] |-> f[c]]
             g == [j \in k .. n |-> IF j = k THEN G[k][h] ELSE f[j]]
  <2>2. kids[k] \subseteq k + 1 .. n /\ h \in [kids[k] -> V] /\ G[k][h] \in V
    BY <2>1
  <2>3. g \in [k .. n -> V]
    BY <2>1, <2>2
  <2>4. \A j \in k .. n : kids[j] \subseteq k + 1 .. n
    OBVIOUS
  <2>5. \A c \in k + 1 .. n : g[c] = f[c]
    OBVIOUS
  <2>6. \A j \in k .. n : [c \in kids[j] |-> g[c]] = [c \in kids[j] |-> f[c]]
    BY <2>4, <2>5
  <2>7. \A j \in k .. n : g[j] = G[j][[c \in kids[j] |-> f[c]]]
    BY <2>1
  <2>8. Part(g, k)
    BY <2>3, <2>6, <2>7
  <2> QED
    <3> HIDE DEF Part, g
    <3> QED BY <2>8
<1>3. 1 .. n + 1 \subseteq S
  <2>1. ASSUME NEW k \in 1 .. n + 1, \A m \in k + 1 .. n + 1 : m \in S PROVE Reached(k)
    <3> HIDE DEF Reached
    <3>1. k # n + 1 => k \in 1 .. n /\ k + 1 \in k + 1 .. n + 1
      OBVIOUS
    <3> QED BY <1>1, <1>2, <2>1, <3>1
  <2>2. \A k \in 1 .. n + 1 : (\A m \in k + 1 .. n + 1 : m \in S) => k \in S
    <3> HIDE DEF Reached
    <3> QED BY <2>1
  <2>3. n + 1 \in Nat
    OBVIOUS
  <2> HIDE DEF S
  <2> QED BY <2>2, <2>3, FromTheLeaves
<1>4. Reached(1)
  <2> HIDE DEF Reached
  <2> QED BY <1>3
<1> QED BY <1>4 DEF Solves

-----------------------------------------------------------------------------
(* Matchers: what the nodes of a configuration find                            *)

IsTree(tree) ==
  /\ Len(tree) \in Nat \ {0} /\ DOMAIN tree = 1 .. Len(tree)
  /\ \A n \in 1 .. Len(tree) : tree[n].children \subseteq n + 1 .. Len(tree)

\* the names one CPE finds
Finds(cpe, attrs, require) == {a \in attrs : cpe.usable /\ CpeMatches(cpe, a, require)}
FoundIn(f, tree, attrs, require, considered, nodes, n) ==
  Combine({Finds(cpe, attrs, require) : cpe \in tree[n].cpes \cap considered}
            \cup {f[c] : c \in tree[n].children \cap nodes},
          tree[n], attrs)

\* Every node finds what its matchers find, combined.
LEMMA FoundEquation ==
  ASSUME NEW tree, IsTree(tree), NEW attrs, NEW require, NEW considered, NEW nodes,
         NEW f, f = Found(tree, attrs, require, considered, nodes)
  PROVE  /\ f \in [DOMAIN tree -> SUBSET attrs]
         /\ \A n \in DOMAIN tree : f[n] = FoundIn(f, tree, attrs, require, considered, nodes, n)
<1> DEFINE kids == [k \in DOMAIN tree |-> tree[k].children \cap nodes]
           V == SUBSET attrs
           cpes(k) == {Finds(cpe, attrs, require) : cpe \in tree[k].cpes \cap considered}
           value(k, h) == Combine(cpes(k) \cup {h[c] : c \in kids[k]}, tree[k], attrs)
           G == [k \in DOMAIN tree |-> [h \in [kids[k] -> V] |-> value(k, h)]]
           Is(g) == g = [n \in DOMAIN tree |->
                           FoundIn(g, tree, attrs, require, considered, nodes, n)]
<1>1. f = CHOOSE g : Is(g)
  BY DEF Found, Finds, FoundIn
<1>2. \A k \in DOMAIN tree : \A h : value(k, h) \in V
  BY DEF Combine
<1>3. \A k \in 1 .. Len(tree) : kids[k] \subseteq k + 1 .. Len(tree)
  BY DEF IsTree
<1>4. \A k \in 1 .. Len(tree) : \A h \in [kids[k] -> V] : G[k][h] \in V
  <2> HIDE DEF value, kids
  <2> QED BY <1>2 DEF IsTree
<1>5. PICK g : Solves(g, Len(tree), kids, V, G)
  <2> HIDE DEF G, V, kids
  <2> QED BY <1>3, <1>4, TreeRecursion DEF IsTree
<1>6. g \in [DOMAIN tree -> V]
  BY <1>5 DEF Solves, IsTree
<1>7. ASSUME NEW n \in DOMAIN tree
      PROVE  g[n] = FoundIn(g, tree, attrs, require, considered, nodes, n)
  <2> DEFINE h == [c \in kids[n] |-> g[c]]
  <2>1. g[n] = G[n][h]
    BY <1>5 DEF Solves, IsTree
  <2>2. h \in [kids[n] -> V]
    BY <1>3, <1>6 DEF IsTree
  <2>3. G[n][h] = value(n, h)
    BY <2>2
  <2>4. {h[c] : c \in kids[n]} = {g[c] : c \in tree[n].children \cap nodes}
    OBVIOUS
  <2> HIDE DEF h, G
  <2> QED BY <2>1, <2>3, <2>4 DEF FoundIn
<1>8. Is(g)
  BY <1>6, <1>7
<1>9. Is(f)
  <2> HIDE DEF Is
  <2> QED BY <1>1, <1>8
<1>10. ASSUME NEW n \in DOMAIN tree
       PROVE  f[n] = FoundIn(f, tree, attrs, require, considered, nodes, n) /\ f[n] \in V
  BY <1>9 DEF FoundIn, Combine
<1> QED BY <1>9, <1>10

\* The nodes that can be used.
LEMMA UsableEquation ==
  ASSUME NEW tree, IsTree(tree)
  PROVE  /\ UsableNodes(tree) \subseteq DOMAIN tree
         /\ \A n \in DOMAIN tree :
              n \in UsableNodes(tree) <=>
                \/ \E cpe \in tree[n].cpes : cpe.usable
                \/ \E c \in tree[n].children : c \in UsableNodes(tree)
<1> DEFINE kids == [k \in DOMAIN tree |-> tree[k].children]
           has(n) == \E cpe \in tree[n].cpes : cpe.usable
           value(k, h) == has(k) \/ \E c \in kids[k] : h[c]
           G == [k \in DOMAIN tree |-> [h \in [kids[k] -> BOOLEAN] |-> value(k, h)]]
           Is(g) == g = [n \in DOMAIN tree |-> \/ \E cpe \in tree[n].cpes : cpe.usable
                                              \/ \E c \in tree[n].children : g[c]]
           f == CHOOSE g : Is(g)
<1>1. UsableNodes(tree) = {n \in DOMAIN tree : f[n]}
  BY DEF UsableNodes
<1>2. \A k \in 1 .. Len(tree) : kids[k] \subseteq k + 1 .. Len(tree)
  BY DEF IsTree
<1>3. \A k \in 1 .. Len(tree) : \A h \in [kids[k] -> BOOLEAN] : G[k][h] \in BOOLEAN
  <2>1. \A k, h : value(k, h) \in BOOLEAN
    OBVIOUS
  <2> HIDE DEF value, kids
  <2> QED BY <2>1 DEF IsTree
<1>4. PICK g : Solves(g, Len(tree), kids, BOOLEAN, G)
  <2> HIDE DEF G, kids
  <2> QED BY <1>2, <1>3, TreeRecursion DEF IsTree
<1>5. g \in [DOMAIN tree -> BOOLEAN]
  BY <1>4 DEF Solves, IsTree
<1>6. ASSUME NEW n \in DOMAIN tree
      PROVE  g[n] = (has(n) \/ \E c \in tree[n].children : g[c])
  <2> DEFINE h == [c \in kids[n] |-> g[c]]
  <2>1. g[n] = G[n][h]
    BY <1>4 DEF Solves, IsTree
  <2>2. h \in [kids[n] -> BOOLEAN]
    BY <1>2, <1>5 DEF IsTree
  <2>3. G[n][h] = value(n, h)
    BY <2>2
  <2>4. value(n, h) = (has(n) \/ \E c \in tree[n].children : g[c])
    BY Zenon
  <2> HIDE DEF h, G, value, has
  <2> QED BY <2>1, <2>3, <2>4
<1>7. Is(g)
  BY <1>5, <1>6
<1>8. Is(f)
  <2> HIDE DEF Is
  <2> QED BY <1>7
<1>9. \A n \in DOMAIN tree : f[n] = (has(n) \/ \E c \in tree[n].children : f[c])
  <2> HIDE DEF f
  <2> QED BY <1>8
<1>10. \A n \in DOMAIN tree : tree[n].children \subseteq DOMAIN tree
  BY DEF IsTree
<1> HIDE DEF f
<1> QED BY <1>1, <1>9, <1>10

\* What a vulnerability's matcher is made of: the usable CPEs and nodes.
UsableCpes(tree) == {cpe \in CpesOf(tree) : cpe.usable}
FoundUsable(tree, attrs, require) ==
  Found(tree, attrs, require, UsableCpes(tree), UsableNodes(tree))
Parts(f, tree, attrs, require, n) ==
  {Finds(cpe, attrs, require) : cpe \in {x \in tree[n].cpes : x.usable}}
    \cup {f[c] : c \in tree[n].children \cap UsableNodes(tree)}

\* What a vulnerability finds is what the usable nodes below its root find.
LEMMA FoundUsableEquation ==
  ASSUME NEW tree, IsTree(tree), NEW attrs, NEW require,
         NEW f, f = FoundUsable(tree, attrs, require)
  PROVE  /\ f \in [DOMAIN tree -> SUBSET attrs]
         /\ \A n \in DOMAIN tree :
              f[n] = Combine(Parts(f, tree, attrs, require, n), tree[n], attrs)
         /\ MatchVuln(tree, attrs, require)
              = UNION {f[n] : n \in tree[1].children \cap UsableNodes(tree)}
         /\ tree[1].children \subseteq DOMAIN tree /\ UsableNodes(tree) \subseteq DOMAIN tree
<1>1. \A n \in DOMAIN tree : tree[n].cpes \cap UsableCpes(tree) = {x \in tree[n].cpes : x.usable}
  BY DEF UsableCpes, CpesOf
<1>2. /\ f \in [DOMAIN tree -> SUBSET attrs]
      /\ \A n \in DOMAIN tree :
           f[n] = FoundIn(f, tree, attrs, require, UsableCpes(tree), UsableNodes(tree), n)
  BY FoundEquation DEF FoundUsable
<1>3. \A n \in DOMAIN tree : f[n] = Combine(Parts(f, tree, attrs, require, n), tree[n], attrs)
  BY <1>1, <1>2 DEF FoundIn, Parts
<1>4. MatchVuln(tree, attrs, require)
        = UNION {f[n] : n \in tree[1].children \cap UsableNodes(tree)}
  BY DEF MatchVuln, FoundBelowRoot, FoundUsable, UsableCpes
<1>5. tree[1].children \subseteq DOMAIN tree
  BY DEF IsTree
<1> QED BY <1>2, <1>3, <1>4, <1>5, UsableEquation

\* A vulnerability finds names that were asked for.
LEMMA FindsAsked ==
  ASSUME NEW tree, IsTree(tree), NEW attrs, NEW require
  PROVE  MatchVuln(tree, attrs, require) \subseteq attrs
<1> DEFINE f == FoundUsable(tree, attrs, require)
<1> HIDE DEF f
<1> QED BY FoundUsableEquation DEF f

\* multiMatcher without a notMatcher around it
LEMMA CombinesPlainly ==
  \A parts, node, attrs, a :
    node.negate = FALSE =>
      (a \in Combine(parts, node, attrs) <=>
         (/\ a \in attrs
          /\ \E S \in parts : a \in S
          /\ ~(node.operator = "AND" /\ {} \in parts)))
<1> SUFFICES ASSUME NEW parts, NEW node, NEW attrs, NEW a, node.negate = FALSE
             PROVE  a \in Combine(parts, node, attrs) <=>
                      (/\ a \in attrs
                       /\ \E S \in parts : a \in S
                       /\ ~(node.operator = "AND" /\ {} \in parts))
  OBVIOUS
<1> DEFINE none == node.operator = "AND" /\ {} \in parts
           x == ~none /\ \E S \in parts : a \in S
<1>1. x \in BOOLEAN
  OBVIOUS
<1>2. a \in Combine(parts, node, attrs) <=> a \in attrs /\ x # FALSE
  BY DEF Combine
<1> QED BY <1>1, <1>2

\* Nothing is negated.
IsPlain(tree) == \A n \in DOMAIN tree : tree[n].negate = FALSE
LEMMA PlainIsNotNegated ==
  ASSUME NEW tree, \A n \in DOMAIN tree : tree[n].negate \in BOOLEAN
  PROVE  ~HasNegation(tree) <=> IsPlain(tree)
BY DEF HasNegation, IsPlain

HasMatch(tree, a, require) ==
  \E n \in DOMAIN tree : \E cpe \in tree[n].cpes : cpe.usable /\ CpeMatches(cpe, a, require)
\* What is found is matched by a CPE of the configuration.
LEMMA FoundIsMatched ==
  ASSUME NEW tree, IsTree(tree), IsPlain(tree), NEW attrs, NEW require,
         NEW a \in MatchVuln(tree, attrs, require)
  PROVE  HasMatch(tree, a, require)
<1> DEFINE f == FoundUsable(tree, attrs, require)
           Good == {n \in DOMAIN tree : \A x \in f[n] : HasMatch(tree, x, require)}
<1>1. /\ \A n \in DOMAIN tree : f[n] = Combine(Parts(f, tree, attrs, require, n), tree[n], attrs)
      /\ MatchVuln(tree, attrs, require)
           = UNION {f[n] : n \in tree[1].children \cap UsableNodes(tree)}
      /\ tree[1].children \subseteq DOMAIN tree
  <2> HIDE DEF f
  <2> QED BY FoundUsableEquation DEF f
<1> HIDE DEF f
<1>2. ASSUME NEW n \in 1 .. Len(tree), \A m \in n + 1 .. Len(tree) : m \in Good
      PROVE  n \in Good
  <2>1. n \in DOMAIN tree /\ tree[n].children \subseteq Good /\ tree[n].negate = FALSE
    BY <1>2 DEF IsTree, IsPlain
  <2>2. ASSUME NEW x \in f[n] PROVE HasMatch(tree, x, require)
    <3>0. x \in Combine(Parts(f, tree, attrs, require, n), tree[n], attrs)
      BY <1>1, <2>1, <2>2
    <3>1. PICK S \in Parts(f, tree, attrs, require, n) : x \in S
      BY <2>1, <3>0, CombinesPlainly
    <3>2. ASSUME NEW cpe \in tree[n].cpes, cpe.usable, S = Finds(cpe, attrs, require)
          PROVE  HasMatch(tree, x, require)
      BY <2>1, <3>1, <3>2 DEF Finds, HasMatch
    <3>3. ASSUME NEW c \in tree[n].children, S = f[c] PROVE HasMatch(tree, x, require)
      BY <2>1, <3>1, <3>3
    <3> QED BY <3>1, <3>2, <3>3 DEF Parts
  <2> QED BY <2>1, <2>2
<1>3. 1 .. Len(tree) \subseteq Good
  <2> HIDE DEF Good
  <2> QED BY <1>2, FromTheLeaves DEF IsTree
<1> QED BY <1>1, <1>3 DEF IsTree

\* A configuration finds names just when its formula holds of them.
LEMMA FindsWhatHolds ==
  ASSUME NEW tree, IsTree(tree), NEW attrs, NEW require
  PROVE  (\A n \in DOMAIN tree : tree[n].negate \in BOOLEAN) =>
           FindsByFormula(tree, attrs, require)
<1> SUFFICES ASSUME IsPlain(tree) PROVE FindsByFormula(tree, attrs, require)
  BY PlainIsNotNegated DEF FindsByFormula
<1> DEFINE usable == UsableNodes(tree)
           hits(cpe) == \E a \in attrs : CpeMatches(cpe, a, require)
           cpes(n) == {x \in tree[n].cpes : x.usable}
           formula(n, h) ==
             IF tree[n].operator = "AND"
             THEN (\A cpe \in cpes(n) : hits(cpe)) /\ (\A c \in tree[n].children \cap usable : h[c])
             ELSE (\E cpe \in cpes(n) : hits(cpe)) \/ (\E c \in tree[n].children \cap usable : h[c])
           Is(h) == h = [n \in DOMAIN tree |-> formula(n, h)]
           holds == CHOOSE h : Is(h)
           kids == [k \in DOMAIN tree |-> tree[k].children \cap usable]
           G == [k \in DOMAIN tree |-> [h \in [kids[k] -> BOOLEAN] |-> formula(k, h)]]
<1>1. \A k, h : formula(k, h) \in BOOLEAN
  OBVIOUS
<1>2. \A k \in 1 .. Len(tree) : kids[k] \subseteq k + 1 .. Len(tree)
  BY DEF IsTree
<1>3. \A k \in 1 .. Len(tree) : \A h \in [kids[k] -> BOOLEAN] : G[k][h] \in BOOLEAN
  <2> HIDE DEF formula, kids
  <2> QED BY <1>1 DEF IsTree
<1>4. PICK g : Solves(g, Len(tree), kids, BOOLEAN, G)
  <2> HIDE DEF G, kids
  <2> QED BY <1>2, <1>3, TreeRecursion DEF IsTree
<1>5. g \in [DOMAIN tree -> BOOLEAN]
  BY <1>4 DEF Solves, IsTree
<1>6. ASSUME NEW n \in DOMAIN tree PROVE g[n] = formula(n, g)
  <2> DEFINE h == [c \in kids[n] |-> g[c]]
  <2>1. g[n] = G[n][h]
    BY <1>4 DEF Solves, IsTree
  <2>2. h \in [kids[n] -> BOOLEAN]
    BY <1>2, <1>5 DEF IsTree
  <2>3. G[n][h] = formula(n, h)
    <3> HIDE DEF formula, h
    <3> QED BY <2>2
  <2>4. \A c \in tree[n].children \cap usable : h[c] = g[c]
    OBVIOUS
  <2>5. formula(n, h) = formula(n, g)
    <3> HIDE DEF h, usable, hits, cpes
    <3> QED BY <2>4
  <2> HIDE DEF h, G, formula
  <2> QED BY <2>1, <2>3, <2>5
<1>7. Is(g)
  <2> HIDE DEF formula
  <2> QED BY <1>5, <1>6
<1>8. Is(holds)
  <2> HIDE DEF Is
  <2> QED BY <1>7
<1> DEFINE f == FoundUsable(tree, attrs, require)
           Good == {n \in DOMAIN tree : n \in usable => (f[n] # {} <=> holds[n])}
<1> HIDE DEF f, holds
<1>9. /\ \A n \in DOMAIN tree : f[n] = Combine(Parts(f, tree, attrs, require, n), tree[n], attrs)
      /\ f \in [DOMAIN tree -> SUBSET attrs]
      /\ MatchVuln(tree, attrs, require) = UNION {f[n] : n \in tree[1].children \cap usable}
      /\ tree[1].children \subseteq DOMAIN tree
  BY FoundUsableEquation DEF f
<1>10. \A cpe : cpe.usable => (Finds(cpe, attrs, require) # {} <=> hits(cpe))
  BY DEF Finds
<1>11. ASSUME NEW n \in 1 .. Len(tree), \A m \in n + 1 .. Len(tree) : m \in Good
       PROVE  n \in Good
  <2> DEFINE P == Parts(f, tree, attrs, require, n)
             kid == tree[n].children \cap usable
  <2>1. n \in DOMAIN tree /\ kid \subseteq DOMAIN tree /\ tree[n].negate = FALSE
    BY <1>11 DEF IsTree, IsPlain
  <2>2. \A c \in kid : f[c] # {} <=> holds[c]
    BY <1>11 DEF IsTree
  <2>3. holds[n] = formula(n, holds)
    <3> HIDE DEF formula
    <3> QED BY <1>8, <2>1
  <2>4. \A a : a \in f[n] <=> /\ a \in attrs /\ \E S \in P : a \in S
                              /\ ~(tree[n].operator = "AND" /\ {} \in P)
    <3>1. f[n] = Combine(P, tree[n], attrs)
      BY <1>9, <2>1
    <3> HIDE DEF P
    <3> QED BY <2>1, <3>1, CombinesPlainly
  <2>5. \A S \in P : S \subseteq attrs
    BY <1>9, <2>1 DEF Parts, Finds
  <2>6. f[n] # {} <=> /\ \E S \in P : S # {}
                      /\ tree[n].operator = "AND" => {} \notin P
    <3> HIDE DEF P
    <3> QED BY <2>4, <2>5
  <2>7. (\E S \in P : S # {}) <=> (\E cpe \in cpes(n) : hits(cpe)) \/ (\E c \in kid : holds[c])
    <3>1. (\E S \in P : S # {}) <=> \/ \E cpe \in cpes(n) : Finds(cpe, attrs, require) # {}
                                    \/ \E c \in kid : f[c] # {}
      BY DEF Parts
    <3>2. \A cpe \in cpes(n) : Finds(cpe, attrs, require) # {} <=> hits(cpe)
      BY <1>10
    <3> HIDE DEF kid, cpes, hits, P
    <3> QED BY <2>2, <3>1, <3>2
  <2>8. {} \notin P <=> (\A cpe \in cpes(n) : hits(cpe)) /\ (\A c \in kid : holds[c])
    <3>1. {} \notin P <=> /\ \A cpe \in cpes(n) : Finds(cpe, attrs, require) # {}
                          /\ \A c \in kid : f[c] # {}
      BY DEF Parts
    <3>2. \A cpe \in cpes(n) : Finds(cpe, attrs, require) # {} <=> hits(cpe)
      BY <1>10
    <3> HIDE DEF kid, cpes, hits, P
    <3> QED BY <2>2, <3>1, <3>2
  <2>9. n \in usable => cpes(n) # {} \/ kid # {}
    BY <2>1, UsableEquation
  <2>10. n \in usable => (f[n] # {} <=> holds[n])
    <3> HIDE DEF P, cpes, hits, usable
    <3> QED BY <2>3, <2>6, <2>7, <2>8, <2>9
  <2> QED BY <2>1, <2>10
<1>12. 1 .. Len(tree) \subseteq Good
  <2> HIDE DEF Good
  <2> QED BY <1>11, FromTheLeaves DEF IsTree
<1>13. MatchVuln(tree, attrs, require) # {} <=> \E n \in tree[1].children \cap usable : holds[n]
  <2> HIDE DEF usable
  <2> QED BY <1>9, <1>12 DEF IsTree
<1>14. \A a \in MatchVuln(tree, attrs, require) : \E n \in DOMAIN tree : \E cpe \in tree[n].cpes :
          cpe.usable /\ CpeMatches(cpe, a, require)
  BY FoundIsMatched DEF HasMatch
<1> QED BY <1>13, <1>14 DEF FindsByFormula, holds

\* More that is found in the parts is more that is found in all.
LEMMA CombinesMonotonely ==
  ASSUME NEW P, NEW Q, NEW node, node.negate = FALSE, NEW attrs,
         \A S \in P : S = {} \/ \E R \in Q : S \subseteq R,
         {} \in Q => {} \in P
  PROVE  Combine(P, node, attrs) \subseteq Combine(Q, node, attrs)
<1> SUFFICES ASSUME NEW a \in Combine(P, node, attrs) PROVE a \in Combine(Q, node, attrs)
  OBVIOUS
<1>1. /\ a \in attrs /\ \E S \in P : a \in S
      /\ ~(node.operator = "AND" /\ {} \in P)
  BY CombinesPlainly
<1>2. \E R \in Q : a \in R
  BY <1>1
<1> QED BY <1>1, <1>2, CombinesPlainly

\* To require a version narrows what a CPE finds.
LEMMA RequiringNarrowsOne ==
  ASSUME NEW cpe, NEW attrs
  PROVE  Finds(cpe, attrs, TRUE) \subseteq Finds(cpe, attrs, FALSE)
BY DEF Finds, CpeMatches

\* Where every CPE finds less, so does a configuration without negation.
LEMMA NarrowerFindsLess ==
  ASSUME NEW tree, IsTree(tree), IsPlain(tree), NEW attrs, NEW strict, NEW loose,
         \A cpe : Finds(cpe, attrs, strict) \subseteq Finds(cpe, attrs, loose)
  PROVE  MatchVuln(tree, attrs, strict) \subseteq MatchVuln(tree, attrs, loose)
<1> DEFINE f == FoundUsable(tree, attrs, strict)
           g == FoundUsable(tree, attrs, loose)
           Good == {n \in DOMAIN tree : f[n] \subseteq g[n]}
<1> HIDE DEF f, g
<1>1. /\ \A n \in DOMAIN tree : f[n] = Combine(Parts(f, tree, attrs, strict, n), tree[n], attrs)
      /\ MatchVuln(tree, attrs, strict)
           = UNION {f[n] : n \in tree[1].children \cap UsableNodes(tree)}
      /\ tree[1].children \subseteq DOMAIN tree
  BY FoundUsableEquation DEF f
<1>2. /\ \A n \in DOMAIN tree : g[n] = Combine(Parts(g, tree, attrs, loose, n), tree[n], attrs)
      /\ MatchVuln(tree, attrs, loose)
           = UNION {g[n] : n \in tree[1].children \cap UsableNodes(tree)}
  BY FoundUsableEquation DEF g
<1>3. ASSUME NEW n \in 1 .. Len(tree), \A m \in n + 1 .. Len(tree) : m \in Good
      PROVE  n \in Good
  <2> DEFINE P == Parts(f, tree, attrs, strict, n)
             Q == Parts(g, tree, attrs, loose, n)
  <2>1. n \in DOMAIN tree /\ tree[n].negate = FALSE
    BY DEF IsTree, IsPlain
  <2>2. \A c \in tree[n].children : f[c] \subseteq g[c]
    BY <1>3 DEF IsTree
  <2>3. \A S \in P : \E R \in Q : S \subseteq R
    BY <2>2 DEF Parts
  <2>4. {} \in Q => {} \in P
    <3> SUFFICES ASSUME {} \in Q PROVE {} \in P
      OBVIOUS
    <3>1. CASE \E cpe \in tree[n].cpes : cpe.usable /\ Finds(cpe, attrs, loose) = {}
      <4>1. \E cpe \in tree[n].cpes : cpe.usable /\ Finds(cpe, attrs, strict) = {}
        BY <3>1
      <4> QED BY <4>1 DEF Parts
    <3>2. CASE \E c \in tree[n].children \cap UsableNodes(tree) : g[c] = {}
      <4>1. \E c \in tree[n].children \cap UsableNodes(tree) : f[c] = {}
        BY <2>2, <3>2
      <4> QED BY <4>1 DEF Parts
    <3> QED BY <3>1, <3>2 DEF Parts
  <2>5. Combine(P, tree[n], attrs) \subseteq Combine(Q, tree[n], attrs)
    <3> HIDE DEF P, Q
    <3> QED BY <2>1, <2>3, <2>4, CombinesMonotonely
  <2> QED BY <1>1, <1>2, <2>1, <2>5
<1>4. 1 .. Len(tree) \subseteq Good
  <2> HIDE DEF Good
  <2> QED BY <1>3, FromTheLeaves DEF IsTree
<1> QED BY <1>1, <1>2, <1>4 DEF IsTree

\* To require a version narrows what a configuration without negation finds.
LEMMA RequiringNarrowsAll ==
  ASSUME NEW tree, IsTree(tree), \A n \in DOMAIN tree : tree[n].negate \in BOOLEAN, NEW attrs
  PROVE  RequiringNarrows(tree, attrs)
<1> SUFFICES ASSUME IsPlain(tree)
             PROVE  MatchVuln(tree, attrs, TRUE) \subseteq MatchVuln(tree, attrs, FALSE)
  BY PlainIsNotNegated DEF RequiringNarrows
<1>1. PICK strict : strict = TRUE
  OBVIOUS
<1>2. PICK loose : loose = FALSE
  OBVIOUS
<1>3. \A cpe : Finds(cpe, attrs, strict) \subseteq Finds(cpe, attrs, loose)
  BY <1>1, <1>2, RequiringNarrowsOne
<1>4. MatchVuln(tree, attrs, strict) \subseteq MatchVuln(tree, attrs, loose)
  BY <1>3, NarrowerFindsLess
<1> QED BY <1>1, <1>2, <1>4

\* A CPE that cannot be parsed is left out without hiding a name.
LEMMA LeavingOutWidens ==
  ASSUME NEW tree, IsTree(tree), \A n \in DOMAIN tree : tree[n].negate \in BOOLEAN,
         NEW attrs, NEW require
  PROVE  LeftOutWidens(tree, attrs, require)
<1> DEFINE usable == UsableNodes(tree)
           f == FoundUsable(tree, attrs, require)
           g == Found(tree, attrs, require, CpesOf(tree), DOMAIN tree)
           Strict(n) == {Finds(cpe, attrs, require) : cpe \in tree[n].cpes}
                          \cup {g[c] : c \in tree[n].children}
           Good == {n \in DOMAIN tree :
                      /\ n \in usable => g[n] \subseteq f[n] /\ (~HasAnd(tree) => g[n] = f[n])
                      /\ n \notin usable => g[n] = {}}
<1> SUFFICES ASSUME IsPlain(tree)
             PROVE  /\ MatchStrictly(tree, attrs, require) \subseteq MatchVuln(tree, attrs, require)
                    /\ ~HasAnd(tree) =>
                         MatchStrictly(tree, attrs, require) = MatchVuln(tree, attrs, require)
  BY PlainIsNotNegated DEF LeftOutWidens
<1>1. /\ \A n \in DOMAIN tree : f[n] = Combine(Parts(f, tree, attrs, require, n), tree[n], attrs)
      /\ MatchVuln(tree, attrs, require) = UNION {f[n] : n \in tree[1].children \cap usable}
      /\ tree[1].children \subseteq DOMAIN tree
  <2> HIDE DEF f
  <2> QED BY FoundUsableEquation DEF f
<1>2. \A n \in DOMAIN tree : g[n] = Combine(Strict(n), tree[n], attrs)
  <2>1. \A n \in DOMAIN tree :
          g[n] = FoundIn(g, tree, attrs, require, CpesOf(tree), DOMAIN tree, n)
    <3> HIDE DEF g
    <3> QED BY FoundEquation DEF g
  <2>2. \A n \in DOMAIN tree : /\ tree[n].cpes \cap CpesOf(tree) = tree[n].cpes
                               /\ tree[n].children \cap DOMAIN tree = tree[n].children
    BY DEF CpesOf, IsTree
  <2> HIDE DEF g
  <2> QED BY <2>1, <2>2 DEF FoundIn
<1>3. MatchStrictly(tree, attrs, require) = UNION {g[n] : n \in tree[1].children}
  <2>1. tree[1].children \cap DOMAIN tree = tree[1].children
    BY <1>1
  <2> QED BY <2>1 DEF MatchStrictly, FoundBelowRoot
<1> HIDE DEF f, g
<1>4. \A cpe : ~cpe.usable => Finds(cpe, attrs, require) = {}
  BY DEF Finds
<1>5. ASSUME NEW n \in 1 .. Len(tree), \A m \in n + 1 .. Len(tree) : m \in Good
      PROVE  n \in Good
  <2> DEFINE P == Parts(f, tree, attrs, require, n)
  <2>1. n \in DOMAIN tree /\ tree[n].negate = FALSE
    BY DEF IsTree, IsPlain
  <2>2. \A c \in tree[n].children : c \in Good
    BY <1>5 DEF IsTree
  <2>3. \A S \in Strict(n) : S = {} \/ \E R \in P : S \subseteq R
    <3>1. ASSUME NEW cpe \in tree[n].cpes
          PROVE  Finds(cpe, attrs, require) = {} \/ Finds(cpe, attrs, require) \in P
      BY <1>4 DEF Parts
    <3>2. ASSUME NEW c \in tree[n].children
          PROVE  g[c] = {} \/ (f[c] \in P /\ g[c] \subseteq f[c])
      BY <2>2 DEF Parts
    <3> HIDE DEF P
    <3> QED BY <3>1, <3>2
  <2>4. {} \in P => {} \in Strict(n)
    <3>1. \A cpe \in tree[n].cpes : Finds(cpe, attrs, require) \in Strict(n)
      OBVIOUS
    <3>2. ASSUME NEW c \in tree[n].children \cap usable, f[c] = {} PROVE {} \in Strict(n)
      <4>1. g[c] = {}
        BY <2>2, <3>2
      <4> QED BY <4>1
    <3> HIDE DEF Strict
    <3> QED BY <3>1, <3>2 DEF Parts
  <2>5. g[n] \subseteq f[n]
    <3>1. Combine(Strict(n), tree[n], attrs) \subseteq Combine(P, tree[n], attrs)
      <4> HIDE DEF P, Strict
      <4> QED BY <2>1, <2>3, <2>4, CombinesMonotonely
    <3> QED BY <1>1, <1>2, <2>1, <3>1
  <2>6. ASSUME ~HasAnd(tree), NEW a \in f[n] PROVE a \in g[n]
    <3>1. tree[n].operator # "AND"
      BY <2>1, <2>6 DEF HasAnd
    <3>2. a \in Combine(P, tree[n], attrs)
      BY <1>1, <2>1, <2>6
    <3>3. a \in attrs /\ \E S \in P : a \in S
      <4> HIDE DEF P
      <4> QED BY <2>1, <3>2, CombinesPlainly
    <3>4. PICK S \in P : a \in S
      BY <3>3
    <3>5. S \in Strict(n)
      <4>1. \A c \in tree[n].children \cap usable : g[c] = f[c]
        BY <2>2, <2>6
      <4> QED BY <4>1 DEF Parts
    <3>6. a \in Combine(Strict(n), tree[n], attrs)
      <4> HIDE DEF Strict
      <4> QED BY <2>1, <3>1, <3>3, <3>4, <3>5, CombinesPlainly
    <3> QED BY <1>2, <2>1, <3>6
  <2>7. n \notin usable => g[n] = {}
    <3> SUFFICES ASSUME n \notin usable, NEW a \in g[n] PROVE FALSE
      OBVIOUS
    <3>1. \A S \in Strict(n) : S = {}
      <4>1. /\ \A cpe \in tree[n].cpes : ~cpe.usable
            /\ \A c \in tree[n].children : c \notin usable
        BY <2>1, UsableEquation
      <4> QED BY <1>4, <2>2, <4>1
    <3>2. a \in Combine(Strict(n), tree[n], attrs)
      BY <1>2, <2>1
    <3>3. \E S \in Strict(n) : a \in S
      <4> HIDE DEF Strict
      <4> QED BY <2>1, <3>2, CombinesPlainly
    <3> QED BY <3>1, <3>3
  <2>8. ~HasAnd(tree) => g[n] = f[n]
    BY <2>5, <2>6
  <2> QED BY <2>1, <2>5, <2>7, <2>8
<1>6. 1 .. Len(tree) \subseteq Good
  <2> HIDE DEF Good
  <2> QED BY <1>5, FromTheLeaves DEF IsTree
<1>7. \A n \in tree[1].children : n \in Good
  BY <1>1, <1>6 DEF IsTree
<1>8. MatchStrictly(tree, attrs, require) \subseteq MatchVuln(tree, attrs, require)
  BY <1>1, <1>3, <1>7
<1>9. ~HasAnd(tree) => MatchVuln(tree, attrs, require) \subseteq MatchStrictly(tree, attrs, require)
  BY <1>1, <1>3, <1>7
<1> QED BY <1>8, <1>9

\* Without AND a configuration finds of some names what it finds of them among more.
LEMMA FindsAlike ==
  ASSUME NEW tree, IsTree(tree), IsPlain(tree), ~HasAnd(tree),
         NEW attrs, NEW some, some \subseteq attrs, NEW require
  PROVE  MatchVuln(tree, some, require) = MatchVuln(tree, attrs, require) \cap some
<1> DEFINE usable == UsableNodes(tree)
           f == FoundUsable(tree, attrs, require)
           g == FoundUsable(tree, some, require)
           Good == {n \in DOMAIN tree : g[n] = f[n] \cap some}
<1> HIDE DEF f, g
<1>1. /\ \A n \in DOMAIN tree : f[n] = Combine(Parts(f, tree, attrs, require, n), tree[n], attrs)
      /\ MatchVuln(tree, attrs, require) = UNION {f[n] : n \in tree[1].children \cap usable}
      /\ tree[1].children \subseteq DOMAIN tree
  BY FoundUsableEquation DEF f
<1>2. /\ \A n \in DOMAIN tree : g[n] = Combine(Parts(g, tree, some, require, n), tree[n], some)
      /\ MatchVuln(tree, some, require) = UNION {g[n] : n \in tree[1].children \cap usable}
  BY FoundUsableEquation DEF g
<1>3. \A cpe : Finds(cpe, some, require) = Finds(cpe, attrs, require) \cap some
  BY DEF Finds
<1>4. ASSUME NEW n \in 1 .. Len(tree), \A m \in n + 1 .. Len(tree) : m \in Good
      PROVE  n \in Good
  <2> DEFINE P == Parts(f, tree, attrs, require, n)
             Q == Parts(g, tree, some, require, n)
  <2>1. n \in DOMAIN tree /\ tree[n].negate = FALSE /\ tree[n].operator # "AND"
    BY DEF IsTree, IsPlain, HasAnd
  <2>2. \A c \in tree[n].children : g[c] = f[c] \cap some
    BY <1>4 DEF IsTree
  <2>3. \A S \in P : S \cap some \in Q
    BY <1>3, <2>2 DEF Parts
  <2>4. \A R \in Q : \E S \in P : R = S \cap some
    BY <1>3, <2>2 DEF Parts
  <2>5. f[n] = Combine(P, tree[n], attrs) /\ g[n] = Combine(Q, tree[n], some)
    BY <1>1, <1>2, <2>1
  <2> HIDE DEF P, Q
  <2>6. \A a : a \in f[n] <=> a \in attrs /\ \E S \in P : a \in S
    BY <2>1, <2>5, CombinesPlainly
  <2>7. \A a : a \in g[n] <=> a \in some /\ \E R \in Q : a \in R
    BY <2>1, <2>5, CombinesPlainly
  <2>8. ASSUME NEW a \in g[n] PROVE a \in f[n] \cap some
    <3>1. PICK R \in Q : a \in R
      BY <2>7
    <3>2. PICK S \in P : R = S \cap some
      BY <2>4
    <3> QED BY <2>6, <3>1, <3>2
  <2>9. ASSUME NEW a \in f[n] \cap some PROVE a \in g[n]
    <3>1. PICK S \in P : a \in S
      BY <2>6
    <3>2. S \cap some \in Q /\ a \in S \cap some
      BY <2>3, <3>1
    <3> QED BY <2>7, <3>2
  <2> QED BY <2>1, <2>8, <2>9
<1>5. 1 .. Len(tree) \subseteq Good
  <2> HIDE DEF Good
  <2> QED BY <1>4, FromTheLeaves DEF IsTree
<1> QED BY <1>1, <1>2, <1>5 DEF IsTree

\* An override takes away what it matches of all that was asked.
LEMMA OverridesHide ==
  ASSUME NEW tree, IsTree(tree), NEW override, IsTree(override),
         \A n \in DOMAIN override : override[n].negate \in BOOLEAN, NEW attrs, NEW require
  PROVE  OverrideHides(tree, override, attrs, require)
<1> SUFFICES ASSUME IsPlain(override), ~HasAnd(override)
             PROVE  Overridden(tree, override, attrs, require)
                      = MatchVuln(tree, attrs, require) \ MatchVuln(override, attrs, require)
  BY PlainIsNotNegated DEF OverrideHides
<1> DEFINE found == MatchVuln(tree, attrs, require)
<1>1. found \subseteq attrs
  BY FindsAsked
<1>2. MatchVuln(override, found, require) = MatchVuln(override, attrs, require) \cap found
  <2> HIDE DEF found
  <2> QED BY <1>1, FindsAlike
<1>3. Overridden(tree, override, attrs, require) = found \ MatchVuln(override, found, require)
  BY DEF Overridden
<1> HIDE DEF found
<1> QED BY <1>2, <1>3 DEF found

-----------------------------------------------------------------------------
(* Names and the index: a pattern without wildcards matches itself only, so what
   matches a name is filed where the name is looked up                          *)

\* What quotes a character: a backslash before it that is not quoted itself.
LEMMA QuotedByOne ==
  ASSUME NEW S, NEW s \in Seq(S), NEW k \in 1 .. Len(s)
  PROVE  /\ ~Quoted(s, 1)
         /\ Quoted(s, k + 1) <=> s[k] = Backslash /\ ~Quoted(s, k)
<1> DEFINE Run(n, m) == /\ \A l \in m .. n - 1 : s[l] = Backslash
                        /\ (m = 1 \/ s[m - 1] # Backslash)
<1>1. \A n : Quoted(s, n) <=> \E m \in 1 .. n : Run(n, m) /\ (n - m) % 2 = 1
  BY DEF Quoted
<1>2. ~Quoted(s, 1)
  <2> HIDE DEF Run
  <2> QED BY <1>1
<1>3. ASSUME s[k] # Backslash PROVE ~Quoted(s, k + 1)
  <2> SUFFICES ASSUME NEW m \in 1 .. k + 1, Run(k + 1, m), (k + 1 - m) % 2 = 1 PROVE FALSE
    <3> HIDE DEF Run
    <3> QED BY <1>1
  <2>1. m = k + 1
    BY <1>3
  <2> QED BY <2>1
<1>4. ASSUME s[k] = Backslash PROVE \A m \in 1 .. k : Run(k + 1, m) <=> Run(k, m)
  BY <1>4
<1>5. ASSUME s[k] = Backslash PROVE ~Run(k + 1, k + 1)
  BY <1>5
<1>6. \A m, o \in 1 .. k : Run(k, m) /\ Run(k, o) => m = o
  OBVIOUS
<1>7. \E m \in 1 .. k : Run(k, m)
  <2> DEFINE A == {m \in 1 .. k : \A l \in m .. k - 1 : s[l] = Backslash}
  <2>1. k \in A
    OBVIOUS
  <2>2. PICK m \in A : \A l \in A : m <= l
    <3>1. A \in SUBSET (1 .. k) /\ A # {}
      <4>1. A \subseteq 1 .. k
        OBVIOUS
      <4> HIDE DEF A
      <4> QED BY <2>1, <4>1
    <3>2. k \in Nat
      OBVIOUS
    <3> HIDE DEF A
    <3> QED BY <3>1, <3>2, FirstPosition
  <2>3. m # 1 => s[m - 1] # Backslash
    <3> SUFFICES ASSUME m # 1, s[m - 1] = Backslash PROVE FALSE
      OBVIOUS
    <3>1. m - 1 \in A
      <4>1. \A l \in m - 1 .. k - 1 : l = m - 1 \/ l \in m .. k - 1
        OBVIOUS
      <4> QED BY <4>1
    <3> QED BY <2>2, <3>1
  <2> QED BY <2>3
<1>8. ASSUME s[k] = Backslash PROVE Quoted(s, k + 1) <=> ~Quoted(s, k)
  <2>1. PICK m \in 1 .. k : Run(k, m)
    BY <1>7
  <2> HIDE DEF Run
  <2>2. Quoted(s, k) <=> (k - m) % 2 = 1
    BY <1>1, <1>6, <2>1
  <2>3. Quoted(s, k + 1) <=> (k + 1 - m) % 2 = 1
    <3>1. Run(k + 1, m)
      BY <1>4, <1>8, <2>1
    <3>2. \A o \in 1 .. k + 1 : Run(k + 1, o) => o = m
      BY <1>4, <1>5, <1>6, <1>8, <2>1
    <3> QED BY <1>1, <3>1, <3>2
  <2>4. (k + 1 - m) % 2 = 1 <=> (k - m) % 2 # 1
    OBVIOUS
  <2> QED BY <2>2, <2>3, <2>4
<1> QED BY <1>2, <1>3, <1>8

\* the places of the target from which on a pattern matches from i on, when from i + 1
\* on it does from those in rest
StepOf(s, t, i, rest) ==
  {j \in 1 .. Len(t) + 1 :
     IF j > Len(t) THEN RestMatches(s, i)
     ELSE IF i > Len(s) THEN FALSE
     ELSE IF s[i] = "*" /\ ~Quoted(s, i)
       THEN i = Len(s) \/ \E k \in j .. Len(t) : k \in rest
     ELSE (s[i] = t[j] \/ (s[i] = "?" /\ ~Quoted(s, i))) /\ j + 1 \in rest}

\* Matches is computed place by place, from the end of the pattern.
LEMMA MatchesEquation ==
  ASSUME NEW S, NEW s \in Seq(S), NEW t \in Seq(S)
  PROVE  \E m : /\ Matches(s, t) <=> 1 \in m[1]
                /\ \A i \in 1 .. Len(s) + 1 : m[i] = StepOf(s, t, i, m[i + 1])
<1> DEFINE n == Len(s) + 1
           V == SUBSET (1 .. Len(t) + 1)
           kids == [i \in 1 .. n |-> IF i = n THEN {} ELSE {i + 1}]
           value(i, h) == IF i = n THEN StepOf(s, t, i, {}) ELSE StepOf(s, t, i, h[i + 1])
           G == [i \in 1 .. n |-> [h \in [kids[i] -> V] |-> value(i, h)]]
           Is(m) == m = [i \in 1 .. n |-> StepOf(s, t, i, m[i + 1])]
           f == CHOOSE m : Is(m)
<1>1. Matches(s, t) <=> 1 \in f[1]
  BY DEF Matches, StepOf
<1>2. \A i, rest : StepOf(s, t, i, rest) \in V
  BY DEF StepOf
<1>3. n \in Nat \ {0} /\ Len(s) \in Nat /\ \A i \in 1 .. n : kids[i] \subseteq i + 1 .. n
  OBVIOUS
<1>4. \A i \in 1 .. n : \A h \in [kids[i] -> V] : G[i][h] \in V
  <2>1. \A i \in 1 .. n : \A h : value(i, h) \in V
    <3> HIDE DEF V
    <3> QED BY <1>2
  <2> HIDE DEF value, kids, V
  <2> QED BY <2>1
<1>5. PICK g : Solves(g, n, kids, V, G)
  <2> HIDE DEF n, kids, G, V
  <2> QED BY <1>3, <1>4, TreeRecursion
<1>6. g \in [1 .. n -> V]
  BY <1>5 DEF Solves
<1>7. \A rest, other : StepOf(s, t, n, rest) = StepOf(s, t, n, other)
  BY DEF StepOf
<1>8. ASSUME NEW i \in 1 .. n PROVE g[i] = StepOf(s, t, i, g[i + 1])
  <2> DEFINE h == [c \in kids[i] |-> g[c]]
  <2>1. g[i] = G[i][h]
    BY <1>5 DEF Solves
  <2>2. h \in [kids[i] -> V]
    <3> HIDE DEF V
    <3> QED BY <1>3, <1>6
  <2>3. G[i][h] = value(i, h)
    <3> HIDE DEF value, h, V, kids
    <3> QED BY <2>2
  <2>4. CASE i = n
    <3> HIDE DEF h, G, n
    <3> QED BY <2>1, <2>3, <2>4, <1>7
  <2>5. CASE i # n
    <3>1. h[i + 1] = g[i + 1]
      BY <2>5
    <3> HIDE DEF h, G, n
    <3> QED BY <2>1, <2>3, <2>5, <3>1
  <2> QED BY <2>4, <2>5
<1>9. Is(g)
  <2> HIDE DEF n
  <2> QED BY <1>6, <1>8
<1>10. Is(f)
  <2> HIDE DEF Is
  <2> QED BY <1>9
<1>11. \A i \in 1 .. n : f[i] = StepOf(s, t, i, f[i + 1])
  <2> HIDE DEF f
  <2> QED BY <1>10
<1> HIDE DEF f
<1> QED BY <1>1, <1>11

\* Without wildcards only the string itself matches, but for an asterisk at the end of
\* the pattern that the end of the target would quote.
LEMMA MatchesItself ==
  ASSUME NEW S, NEW s \in Seq(S), NEW t \in Seq(S), ~HasWildcard(s),
         t # <<>>, t[Len(t)] = Backslash => Quoted(t, Len(t)), Matches(s, t)
  PROVE  s = t
<1>1. PICK m : /\ Matches(s, t) <=> 1 \in m[1]
               /\ \A i \in 1 .. Len(s) + 1 : m[i] = StepOf(s, t, i, m[i + 1])
  BY MatchesEquation
<1>2. /\ Len(s) \in Nat /\ Len(t) \in Nat \ {0} /\ DOMAIN s = 1 .. Len(s)
      /\ t = [i \in 1 .. Len(t) |-> t[i]] /\ s = [i \in 1 .. Len(s) |-> s[i]]
  OBVIOUS
<1> DEFINE Same(k) == /\ k <= Len(s) + 1 /\ k <= Len(t) + 1 /\ k \in m[k]
                      /\ \A l \in 1 .. k - 1 : s[l] = t[l]
                      /\ Quoted(s, k) <=> Quoted(t, k)
           K == {k \in 1 .. Len(t) + 1 : Same(k)}
<1>3. \A k \in 1 .. Len(s) : s[k] \in {"*", "?"} => Quoted(s, k)
  BY <1>2 DEF HasWildcard, Wildcards
<1>4. 1 \in K
  <2>1. ~Quoted(s, 1) /\ ~Quoted(t, 1)
    BY DEF Quoted
  <2> QED BY <1>1, <1>2, <2>1
<1>5. ASSUME NEW k \in K, k <= Len(t) PROVE k + 1 \in K
  <2>1. k \in StepOf(s, t, k, m[k + 1]) /\ k \in 1 .. Len(t)
    BY <1>1, <1>5
  <2>2. k <= Len(s) /\ s[k] = t[k] /\ k + 1 \in m[k + 1]
    BY <1>3, <1>2, <2>1 DEF StepOf
  <2>3. Quoted(s, k + 1) <=> Quoted(t, k + 1)
    <3>1. Quoted(s, k + 1) <=> s[k] = Backslash /\ ~Quoted(s, k)
      BY <2>1, <2>2, QuotedByOne
    <3>2. Quoted(t, k + 1) <=> t[k] = Backslash /\ ~Quoted(t, k)
      BY <2>1, QuotedByOne
    <3> QED BY <2>2, <3>1, <3>2
  <2>4. \A l \in 1 .. k + 1 - 1 : s[l] = t[l]
    BY <2>2, <2>1
  <2> QED BY <1>2, <2>1, <2>2, <2>3, <2>4
<1>6. Len(t) + 1 \in K
  <2>1. PICK k \in K : \A l \in K : l <= k
    <3>1. K \in SUBSET (1 .. Len(t) + 1) /\ K # {} /\ Len(t) + 1 \in Nat
      BY <1>2, <1>4
    <3> HIDE DEF K
    <3> QED BY <3>1, LastPosition
  <2>2. k \in Nat /\ k <= Len(t) + 1
    OBVIOUS
  <2>3. ~(k <= Len(t))
    <3> HIDE DEF K
    <3> QED BY <1>5, <2>1, <2>2
  <2>4. k = Len(t) + 1
    BY <1>2, <2>2, <2>3
  <2> QED BY <2>4
<1>7. \A k \in Len(t) + 1 .. Len(s) : s[k] = "*"
  <2> DEFINE n == Len(t) + 1
  <2>1. n \in m[n] /\ n \in 1 .. Len(s) + 1
    BY <1>2, <1>6
  <2>2. n \in StepOf(s, t, n, m[n + 1])
    BY <1>1, <2>1
  <2>3. RestMatches(s, n)
    <3>1. n > Len(t)
      BY <1>2
    <3> HIDE DEF n
    <3> QED BY <2>2, <3>1 DEF StepOf
  <2> QED BY <2>3 DEF RestMatches
<1>8. ASSUME Len(s) > Len(t) PROVE FALSE
  <2> DEFINE n == Len(t)
  <2>1. s[n + 1] = "*" /\ n + 1 \in 1 .. Len(s)
    BY <1>2, <1>7, <1>8
  <2>2. Quoted(t, n + 1)
    BY <1>3, <1>6, <2>1
  <2>3. t[n] = Backslash /\ ~Quoted(t, n)
    BY <1>2, <2>2, QuotedByOne
  <2> QED BY <2>3
<1>9. Len(s) = Len(t)
  <2>1. Len(t) + 1 <= Len(s) + 1
    BY <1>6
  <2>2. ~(Len(s) > Len(t))
    BY <1>8
  <2>3. \A l, n \in Nat : n + 1 <= l + 1 /\ ~(l > n) => l = n
    OBVIOUS
  <2> QED BY <1>2, <2>1, <2>2, <2>3
<1>10. \A l \in 1 .. Len(t) : s[l] = t[l]
  <2>1. \A l \in 1 .. Len(t) + 1 - 1 : s[l] = t[l]
    BY <1>6
  <2> QED BY <1>2, <2>1
<1> QED BY <1>2, <1>9, <1>10

\* The configurations are trees whose CPEs have names of every attribute.
LEMMA ConfigurationIsTree ==
  ASSUME NEW tree \in Configurations
  PROVE  /\ IsTree(tree) /\ tree # NoOverride
         /\ \A n \in DOMAIN tree : tree[n].negate \in BOOLEAN
         /\ \A cpe \in CpesOf(tree) : cpe.name \in [Attributes -> Seq(Characters)]
<1>1. IsConfiguration(tree)
  BY MatchingAssumption
<1>2. IsTree(tree) /\ tree # NoOverride
  BY <1>1 DEF IsConfiguration, IsTree, NoOverride
<1>3. \A n \in DOMAIN tree : tree[n].negate \in BOOLEAN
  BY <1>1 DEF IsConfiguration
<1>4. \A cpe \in CpesOf(tree) : cpe.name \in [Attributes -> Seq(Characters)]
  <2>1. \A cpe \in CpesOf(tree) : cpe \in CpeMatch
    BY <1>1 DEF IsConfiguration, CpesOf
  <2> QED BY <2>1 DEF CpeMatch
<1> QED BY <1>2, <1>3, <1>4

\* A CPE that matches a name is filed under the name's product, or under ANY.
LEMMA FiledWhereLookedUp ==
  ASSUME NEW cpe, cpe.name \in [Attributes -> Seq(Characters)],
         NEW a \in Names, a[Product] # ANY, EndsWhole(a),
         NEW require, CpeMatches(cpe, a, require)
  PROVE  FiledUnder(cpe) \in {ANY, a[Product]}
<1> DEFINE s == cpe.name[Product]
           t == a[Product]
<1>1. Product \in Attributes /\ Product # Version
  BY MatchingAssumption DEF Product, Version
<1>2. s \in Seq(Characters) /\ t \in Seq(Characters)
  BY <1>1, MatchingAssumption
<1>3. MatchAttr(s, t)
  BY <1>1 DEF CpeMatches, MatchWithoutVersion
<1>4. t # <<>> /\ (t[Len(t)] = Backslash => Quoted(t, Len(t)))
  BY DEF EndsWhole, ANY
<1>5. ASSUME ~HasWildcard(s), Matches(s, t) PROVE s = t
  <2> HIDE DEF s, t
  <2> QED BY <1>2, <1>4, <1>5, MatchesItself
<1>6. HasWildcard(s) => FiledUnder(cpe) = ANY
  BY DEF FiledUnder
<1>7. ~HasWildcard(s) => FiledUnder(cpe) = s
  BY DEF FiledUnder
<1> HIDE DEF s
<1> QED BY <1>3, <1>5, <1>6, <1>7 DEF MatchAttr

\* The index leads to an identifier from wherever one of its CPEs is filed, and to none
\* that is not in the dictionary.
LEMMA IndexLeadsBack ==
  ASSUME NEW vulns, NEW attrs
  PROVE  /\ FromIndex(vulns, NewIndex(vulns), attrs) \subseteq DOMAIN vulns
         /\ \A cpe : \A id \in DOMAIN vulns, a \in attrs :
              (/\ cpe \in Config(vulns[id]) /\ cpe.usable
               /\ a[Product] # ANY => FiledUnder(cpe) \in {ANY, a[Product]})
              => id \in FromIndex(vulns, NewIndex(vulns), attrs)
<1> DEFINE filed(id) == {FiledUnder(cpe) : cpe \in {x \in Config(vulns[id]) : x.usable}}
           index == NewIndex(vulns)
<1>1. /\ DOMAIN index = UNION {filed(id) : id \in DOMAIN vulns}
      /\ \A p \in DOMAIN index : index[p] = {id \in DOMAIN vulns : p \in filed(id)}
  <2> HIDE DEF filed
  <2> QED BY DEF NewIndex, filed
<1>2. FromIndex(vulns, index, attrs) \subseteq DOMAIN vulns
  <2> HIDE DEF index, filed
  <2> QED BY <1>1 DEF FromIndex
<1>3. ASSUME NEW id \in DOMAIN vulns, NEW cpe, NEW a \in attrs,
             cpe \in Config(vulns[id]), cpe.usable,
             a[Product] # ANY => FiledUnder(cpe) \in {ANY, a[Product]}
      PROVE  id \in FromIndex(vulns, index, attrs)
  <2> DEFINE p == FiledUnder(cpe)
  <2>1. p \in filed(id)
    BY <1>3
  <2>2. p \in DOMAIN index /\ id \in index[p]
    <3> HIDE DEF index, filed, p
    <3> QED BY <1>1, <2>1
  <2> HIDE DEF index, p
  <2> QED BY <1>3, <2>2 DEF FromIndex, p
<1> QED BY <1>2, <1>3

\* What a vulnerability finds was asked for, and its own configuration finds it.
LEMMA OwnFinds ==
  ASSUME NEW vuln, vuln.own \in Configurations,
         vuln.override \in Configurations \cup {NoOverride}, NEW attrs, NEW require
  PROVE  MatchOne(vuln, attrs, require) \subseteq attrs \cap MatchVuln(vuln.own, attrs, require)
<1>1. MatchVuln(vuln.own, attrs, require) \subseteq attrs
  BY ConfigurationIsTree, FindsAsked
<1> QED BY <1>1 DEF MatchOne, Overridden

\* A vulnerability without negation that finds something is found through the index.
LEMMA IndexMissesNothing ==
  ASSUME NEW vulns, NEW id \in DOMAIN vulns, vulns[id].own \in Configurations,
         vulns[id].override \in Configurations \cup {NoOverride}, ~HasNegation(vulns[id].own),
         NEW attrs \in SUBSET Names, \A a \in attrs : EndsWhole(a),
         NEW require, MatchOne(vulns[id], attrs, require) # {}
  PROVE  id \in FromIndex(vulns, NewIndex(vulns), attrs)
<1> DEFINE own == vulns[id].own
<1>1. PICK a \in attrs : a \in MatchVuln(own, attrs, require)
  BY OwnFinds
<1>2. /\ IsTree(own) /\ IsPlain(own)
      /\ \A cpe \in CpesOf(own) : cpe.name \in [Attributes -> Seq(Characters)]
  BY ConfigurationIsTree, PlainIsNotNegated
<1>3. PICK cpe \in CpesOf(own) : cpe.usable /\ CpeMatches(cpe, a, require)
  <2> HIDE DEF own
  <2>1. HasMatch(own, a, require)
    BY <1>1, <1>2, FoundIsMatched
  <2> QED BY <2>1 DEF HasMatch, CpesOf
<1>4. cpe \in Config(vulns[id])
  BY <1>3 DEF Config
<1>5. a[Product] # ANY => FiledUnder(cpe) \in {ANY, a[Product]}
  BY <1>2, <1>3, FiledWhereLookedUp
<1> HIDE DEF own
<1>6. \A x : \A i \in DOMAIN vulns, b \in attrs :
         (/\ x \in Config(vulns[i]) /\ x.usable
          /\ b[Product] # ANY => FiledUnder(x) \in {ANY, b[Product]})
         => i \in FromIndex(vulns, NewIndex(vulns), attrs)
  BY IndexLeadsBack
<1> QED BY <1>3, <1>4, <1>5, <1>6

-----------------------------------------------------------------------------
(* Comparison of names                                                          *)

\* Two values that are compared in ways of their own.
LEMMA AnyIsNotNA == ANY # NA
<1>1. Len(ANY) = 0 /\ Len(NA) = 1
  BY DEF ANY, NA
<1> QED BY <1>1

\* The fast matchAttr is CompareAttr without its errors and disjoint values.
LEMMA MatchAttrCompares ==
  ASSUME NEW s, NEW t
  PROVE  MatchAttr(s, t) <=> s = t \/ CompareAttr(s, t) \notin {"error", "disjoint"}
<1>1. ~HasWildcard(ANY)
  BY DEF HasWildcard, Wildcards, ANY
<1>2. ANY # NA
  BY AnyIsNotNA
<1>3. MatchStr(s, t) \in {"disjoint", "equal", "superset"} /\ (MatchStr(s, t) = "disjoint" <=> ~Matches(s, t))
  BY DEF MatchStr
<1>4. CASE s = t
  BY <1>4 DEF MatchAttr
<1>5. CASE s # t /\ s \notin {ANY, NA} /\ HasWildcard(t)
  <2>1. CompareAttr(s, t) = "error"
    BY <1>5 DEF CompareAttr
  <2> QED BY <1>1, <1>5, <2>1 DEF MatchAttr
<1>6. CASE s # t /\ (s \in {ANY, NA} \/ ~HasWildcard(t))
  <2>1. CompareAttr(s, t) = IF s = ANY THEN "superset" ELSE IF t = ANY THEN "subset"
                            ELSE IF s = NA \/ t = NA THEN "disjoint" ELSE MatchStr(s, t)
    BY <1>6 DEF CompareAttr
  <2>2. MatchAttr(s, t) <=> s = ANY \/ t = ANY \/ (s # NA /\ t # NA /\ Matches(s, t))
    BY <1>1, <1>2, <1>6 DEF MatchAttr
  <2> QED BY <1>2, <1>3, <1>6, <2>1, <2>2
<1> QED BY <1>4, <1>5, <1>6

\* Two names match just when in every attribute they are the same, or compare without an
\* error and are not disjoint: matchAttr is CompareAttr made faster (wfn/matching.go).
THEOREM MatchingIsComparing ==
  ASSUME NEW src, NEW tgt
  PROVE  MatchIsComparison(src, tgt)
BY MatchAttrCompares DEF MatchIsComparison, Match

\* no backslash at the end that quotes nothing
IsWhole(s) == s # <<>> /\ s[Len(s)] = Backslash => Quoted(s, Len(s))
\* Without wildcards the order of two values decides only who is the superset.
LEMMA AttrTurns ==
  ASSUME NEW S, NEW s \in Seq(S), NEW t \in Seq(S), ~HasWildcard(s), ~HasWildcard(t),
         IsWhole(s), IsWhole(t)
  PROVE  /\ CompareAttr(s, t) \in DOMAIN Mirror
         /\ CompareAttr(t, s) = Mirror[CompareAttr(s, t)]
         /\ MatchAttr(s, t) <=> CompareAttr(s, t) # "disjoint"
         /\ MatchAttr(t, s) <=> CompareAttr(s, t) # "disjoint"
<1>1. Matches(s, t) /\ t # ANY => s = t
  BY MatchesItself DEF IsWhole, ANY
<1>2. Matches(t, s) /\ s # ANY => t = s
  BY MatchesItself DEF IsWhole, ANY
<1>3. ANY # NA
  BY AnyIsNotNA
<1>4. /\ DOMAIN Mirror = {"equal", "subset", "superset", "disjoint"}
      /\ Mirror["equal"] = "equal" /\ Mirror["subset"] = "superset"
      /\ Mirror["superset"] = "subset" /\ Mirror["disjoint"] = "disjoint"
  BY DEF Mirror
<1>5. CASE s = t
  BY <1>3, <1>4, <1>5 DEF CompareAttr, MatchAttr
<1>6. CASE s # t /\ ANY \in {s, t}
  BY <1>3, <1>4, <1>6 DEF CompareAttr, MatchAttr
<1>7. CASE s # t /\ ANY \notin {s, t}
  <2>1. ~Matches(s, t) /\ ~Matches(t, s)
    BY <1>1, <1>2, <1>7
  <2>2. MatchStr(s, t) = "disjoint" /\ MatchStr(t, s) = "disjoint"
    BY <2>1 DEF MatchStr
  <2>3. CompareAttr(s, t) = "disjoint" /\ CompareAttr(t, s) = "disjoint"
    BY <1>7, <2>2 DEF CompareAttr
  <2>4. ~MatchAttr(s, t) /\ ~MatchAttr(t, s)
    BY <1>7, <2>1 DEF MatchAttr
  <2> QED BY <1>4, <2>3, <2>4
<1> QED BY <1>5, <1>6, <1>7

\* For names of any characters that have no wildcards and end in no backslash that quotes
\* nothing, the comparison the other way round is the mirrored one (wfn/matching.go).
THEOREM ComparingTurns ==
  ASSUME NEW S, NEW src \in [Attributes -> Seq(S)], NEW tgt \in [Attributes -> Seq(S)],
         \A a \in Attributes : IsWhole(src[a]) /\ IsWhole(tgt[a])
  PROVE  ComparisonTurns(src, tgt)
<1> SUFFICES ASSUME \A a \in Attributes : ~HasWildcard(src[a]) /\ ~HasWildcard(tgt[a])
             PROVE  /\ \A a \in Attributes : Compare(tgt, src)[a] = Mirror[Compare(src, tgt)[a]]
                    /\ Match(src, tgt) = Match(tgt, src)
                    /\ Match(src, tgt) <=> ~IsDisjoint(Compare(src, tgt))
  BY DEF ComparisonTurns
<1>1. \A a \in Attributes :
        /\ CompareAttr(tgt[a], src[a]) = Mirror[CompareAttr(src[a], tgt[a])]
        /\ MatchAttr(src[a], tgt[a]) <=> CompareAttr(src[a], tgt[a]) # "disjoint"
        /\ MatchAttr(tgt[a], src[a]) <=> CompareAttr(src[a], tgt[a]) # "disjoint"
  BY AttrTurns
<1>2. \A a \in Attributes : Compare(tgt, src)[a] = Mirror[Compare(src, tgt)[a]]
  BY <1>1 DEF Compare
<1>3. Match(src, tgt) <=> \A a \in Attributes : CompareAttr(src[a], tgt[a]) # "disjoint"
  BY <1>1 DEF Match
<1>4. Match(tgt, src) <=> \A a \in Attributes : CompareAttr(src[a], tgt[a]) # "disjoint"
  BY <1>1 DEF Match
<1>5. IsDisjoint(Compare(src, tgt)) <=> \E a \in Attributes : CompareAttr(src[a], tgt[a]) = "disjoint"
  BY DEF IsDisjoint, Compare
<1>6. Match(src, tgt) = Match(tgt, src)
  BY <1>3, <1>4 DEF Match
<1> QED BY <1>2, <1>3, <1>5, <1>6

-----------------------------------------------------------------------------
(* Requests *)

\* The identifiers that are matched: all, or those the index gives.
Searched(names) == IF indexed THEN FromIndex(known, idx, names) ELSE DOMAIN known
\* the override every vulnerability has
OverridesInPlace ==
  \A id \in DOMAIN known :
    known[id].override = IF progress = "serve" /\ id \in DOMAIN amendments THEN amendments[id]
                         ELSE NoOverride
\* Overrides are where they belong from the first request on, the index is that of the
\* overridden dictionary, and an answer is what it was computed from, still.
MatchInv ==
  /\ MatchTypeOK
  /\ OverridesInPlace
  /\ progress # "serve" => ~indexed /\ asked = {} /\ answer = <<>>
  /\ indexed => idx = NewIndex(known)
  /\ \/ asked = {} /\ answer = <<>>
     \/ answer = MatchDict(known, Searched(asked), asked, requireVersion)

\* Nothing was loaded, nothing asked.
LEMMA MatchInvInit == MatchInit => MatchInv
<1> SUFFICES ASSUME MatchInit PROVE MatchInv
  OBVIOUS
<1>1. DOMAIN known = {} /\ DOMAIN amendments = {}
  BY DEF MatchInit
<1>2. MatchTypeOK /\ OverridesInPlace
  BY <1>1 DEF MatchInit, MatchTypeOK, OverridesInPlace
<1> QED BY <1>2 DEF MatchInit, MatchInv

\* Every action keeps it.
LEMMA MatchInvNext == MatchInv /\ [MatchNext]_matchVars => MatchInv'
<1> SUFFICES ASSUME MatchInv, [MatchNext]_matchVars PROVE MatchInv'
  OBVIOUS
<1>1. ASSUME NEW id \in VulnIds, NEW tree \in Configurations, Load(id, tree) PROVE MatchInv'
  <2>1. /\ DOMAIN known' = DOMAIN known \cup {id}
        /\ \A i \in DOMAIN known' :
             known'[i] = IF i = id THEN Vulnerability(tree, NoOverride) ELSE known[i]
    BY <1>1 DEF Load, Put
  <2>2. /\ Vulnerability(tree, NoOverride).own = tree
        /\ Vulnerability(tree, NoOverride).override = NoOverride
    BY DEF Vulnerability
  <2>3. MatchTypeOK' /\ OverridesInPlace'
    BY <1>1, <2>1, <2>2 DEF Load, MatchInv, MatchTypeOK, OverridesInPlace
  <2> QED BY <1>1, <2>3 DEF Load, MatchInv
<1>2. ASSUME NEW id \in VulnIds, NEW tree \in Configurations, LoadOverride(id, tree)
      PROVE  MatchInv'
  <2>1. \A i \in DOMAIN amendments' : amendments'[i] \in Configurations
    BY <1>2 DEF LoadOverride, Put, MatchInv, MatchTypeOK
  <2>2. MatchTypeOK' /\ OverridesInPlace'
    BY <1>2, <2>1 DEF LoadOverride, MatchInv, MatchTypeOK, OverridesInPlace
  <2> QED BY <1>2, <2>2 DEF LoadOverride, MatchInv
<1>3. CASE FeedsRead
  BY <1>3 DEF FeedsRead, MatchInv, MatchTypeOK, OverridesInPlace
<1>4. ASSUME NEW requires \in BOOLEAN, NEW indexes \in BOOLEAN, Serve(requires, indexes)
      PROVE  MatchInv'
  <2>1. /\ DOMAIN known' = DOMAIN known
        /\ \A i \in DOMAIN known' :
             known'[i] = IF i \in DOMAIN amendments THEN Vulnerability(known[i].own, amendments[i])
                         ELSE known[i]
    BY <1>4 DEF Serve, Amended
  <2>2. \A own, override : /\ Vulnerability(own, override).own = own
                           /\ Vulnerability(own, override).override = override
    BY DEF Vulnerability
  <2>3. MatchTypeOK'
    BY <1>4, <2>1, <2>2 DEF Serve, MatchInv, MatchTypeOK
  <2>4. OverridesInPlace'
    BY <1>4, <2>1, <2>2 DEF Serve, MatchInv, OverridesInPlace
  <2>5. indexed' => idx' = NewIndex(known')
    BY <1>4 DEF Serve
  <2>6. progress' = "serve" /\ asked' = {} /\ answer' = <<>>
    BY <1>4 DEF Serve, MatchInv
  <2> QED BY <2>3, <2>4, <2>5, <2>6 DEF MatchInv
<1>5. ASSUME NEW names \in SUBSET Names, Get(names) PROVE MatchInv'
  <2>1. answer' = MatchDict(known', Searched(asked)', asked', requireVersion')
    BY <1>5 DEF Get, Searched
  <2>2. MatchTypeOK' /\ OverridesInPlace'
    BY <1>5 DEF Get, MatchInv, MatchTypeOK, OverridesInPlace
  <2>3. progress' = "serve" /\ (indexed' => idx' = NewIndex(known'))
    BY <1>5 DEF Get, MatchInv
  <2> QED BY <2>1, <2>2, <2>3 DEF MatchInv
<1>6. CASE UNCHANGED matchVars
  BY <1>6 DEF matchVars, MatchInv, MatchTypeOK, OverridesInPlace, Searched
<1> QED BY <1>1, <1>2, <1>3, <1>4, <1>5, <1>6 DEF MatchNext

\* What was asked finds in the answer what the vulnerabilities searched find.
LEMMA AnswersWhatIsSearched ==
  ASSUME MatchInv
  PROVE  /\ DOMAIN answer \subseteq DOMAIN known
         /\ \A id \in DOMAIN answer :
              /\ answer[id] = MatchOne(known[id], asked, requireVersion) /\ answer[id] # {}
              /\ progress = "serve"
         /\ \A id \in DOMAIN known :
              (MatchOne(known[id], asked, requireVersion) # {} /\ id \notin DOMAIN answer) =>
                indexed /\ id \notin FromIndex(known, NewIndex(known), asked)
<1>1. CASE asked = {} /\ answer = <<>>
  <2>1. \A id \in DOMAIN known : MatchOne(known[id], asked, requireVersion) = {}
    BY <1>1, OwnFinds DEF MatchInv, MatchTypeOK
  <2>2. DOMAIN answer = {}
    BY <1>1
  <2> QED BY <2>1, <2>2
<1>2. CASE answer = MatchDict(known, Searched(asked), asked, requireVersion)
  <2>1. Searched(asked) \subseteq DOMAIN known
    BY IndexLeadsBack DEF Searched, MatchInv
  <2>2. /\ DOMAIN answer = {i \in Searched(asked) : MatchOne(known[i], asked, requireVersion) # {}}
        /\ \A i \in DOMAIN answer : answer[i] = MatchOne(known[i], asked, requireVersion)
    BY <1>2 DEF MatchDict
  <2>3. progress # "serve" => DOMAIN answer = {}
    BY DEF MatchInv
  <2>4. \A id \in DOMAIN known : id \notin Searched(asked) =>
            indexed /\ id \notin FromIndex(known, NewIndex(known), asked)
    BY DEF Searched, MatchInv, MatchTypeOK
  <2> QED BY <2>1, <2>2, <2>3, <2>4
<1> QED BY <1>1, <1>2 DEF MatchInv

\* With or without the index, what a vulnerability without negation finds is answered.
LEMMA AnswersAreWhole == MatchInv => AnswerIsWhole
<1> SUFFICES ASSUME MatchInv, \A a \in asked : EndsWhole(a), NEW id \in DOMAIN known,
                    ~HasNegation(known[id].own)
             PROVE  LET found == MatchOne(known[id], asked, requireVersion) IN
                    /\ id \in DOMAIN answer <=> found # {}
                    /\ id \in DOMAIN answer => answer[id] = found
  BY DEF AnswerIsWhole
<1>1. MatchOne(known[id], asked, requireVersion) # {} =>
        id \in FromIndex(known, NewIndex(known), asked)
  BY IndexMissesNothing DEF MatchInv, MatchTypeOK
<1> QED BY <1>1, AnswersWhatIsSearched

\* What is answered is found, and not hidden.
LEMMA AnswersAreTrue == MatchInv => AnswersStand
<1> SUFFICES ASSUME MatchInv, NEW id \in DOMAIN answer
             PROVE  /\ id \in DOMAIN known /\ answer[id] # {}
                    /\ answer[id] \subseteq asked \cap MatchVuln(known[id].own, asked, requireVersion)
                    /\ (/\ id \in DOMAIN amendments
                        /\ ~HasAnd(amendments[id]) /\ ~HasNegation(amendments[id])) =>
                         answer[id] \cap MatchVuln(amendments[id], asked, requireVersion) = {}
  BY DEF AnswersStand
<1>1. /\ id \in DOMAIN known /\ answer[id] # {} /\ progress = "serve"
      /\ answer[id] = MatchOne(known[id], asked, requireVersion)
  BY AnswersWhatIsSearched
<1>2. answer[id] \subseteq asked \cap MatchVuln(known[id].own, asked, requireVersion)
  BY <1>1, OwnFinds DEF MatchInv, MatchTypeOK
<1>3. ASSUME id \in DOMAIN amendments, ~HasAnd(amendments[id]), ~HasNegation(amendments[id])
      PROVE  answer[id] \cap MatchVuln(amendments[id], asked, requireVersion) = {}
  <2> DEFINE own == known[id].own
             override == amendments[id]
  <2>1. known[id].override = override /\ own \in Configurations /\ override \in Configurations
    BY <1>1, <1>3 DEF MatchInv, MatchTypeOK, OverridesInPlace
  <2>2. /\ IsTree(own) /\ IsTree(override) /\ override # NoOverride
        /\ \A n \in DOMAIN override : override[n].negate \in BOOLEAN
    BY <2>1, ConfigurationIsTree
  <2>3. answer[id] = Overridden(own, override, asked, requireVersion)
    BY <1>1, <2>1, <2>2 DEF MatchOne
  <2>4. ~HasAnd(override) /\ ~HasNegation(override)
    BY <1>3
  <2> HIDE DEF own, override
  <2>5. OverrideHides(own, override, asked, requireVersion)
    BY <2>2, OverridesHide
  <2>6. Overridden(own, override, asked, requireVersion)
          = MatchVuln(own, asked, requireVersion) \ MatchVuln(override, asked, requireVersion)
    BY <2>4, <2>5 DEF OverrideHides
  <2>7. answer[id] \cap MatchVuln(override, asked, requireVersion) = {}
    BY <2>3, <2>6
  <2> QED BY <2>7 DEF override
<1> QED BY <1>1, <1>2, <1>3

\* The dictionary, the index and the last answer agree, whatever is loaded and asked.
THEOREM MatchInvariant == MatchSpec => []MatchInv
BY MatchInvInit, MatchInvNext, PTL DEF MatchSpec

\* For any configurations, overrides and names, every request finds in every vulnerability
\* what its configuration's formula says, through an index or not, and what an override
\* leaves (cvefeed/cvecache.go, cvefeed/dictionary.go, cvefeed/nvd).
THEOREM MatchersAreSound == MatchSpec => []MatchersSound
<1>1. MatchInv => MatchersSound
  <2> SUFFICES ASSUME MatchInv PROVE MatchersSound
    OBVIOUS
  <2>1. ASSUME NEW id \in DOMAIN known
        PROVE  LET own == known[id].own
                   override == known[id].override
               IN  /\ FindsByFormula(own, asked, requireVersion)
                   /\ RequiringNarrows(own, asked)
                   /\ LeftOutWidens(own, asked, requireVersion)
                   /\ override # NoOverride =>
                        OverrideHides(own, override, asked, requireVersion)
    <3>1. /\ known[id].own \in Configurations
          /\ known[id].override # NoOverride => known[id].override \in Configurations
      BY DEF MatchInv, MatchTypeOK
    <3> QED BY <3>1, ConfigurationIsTree, FindsWhatHolds, RequiringNarrowsAll,
               LeavingOutWidens, OverridesHide
  <2>2. MatchTypeOK
    BY DEF MatchInv
  <2> QED BY <2>1, <2>2, AnswersAreWhole, AnswersAreTrue DEF MatchersSound
<1> QED BY <1>1, MatchInvariant, PTL
=============================================================================
