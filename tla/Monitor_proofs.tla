---------------------------- MODULE Monitor_proofs ----------------------------
(* What holds of lininfosec's database and its goroutines for any names, dictionary,
   feeds, handlers and batch size, and any number of requests, imports, faults and
   crashes.                                                                    *)
EXTENDS Monitor, FiniteSetTheorems, TLAPS

\* What the foreign keys enforce, whoever writes.
ForeignKeys ==
  /\ monitored \subseteq configs \X dict
  /\ notified \subseteq configs \X Cves

\* The import's position: what it has gone through is written, but for the batch at
\* hand, and a batch begins behind a multiple of its size.
BatchAtMost(i) == IF i = 0 THEN 0 ELSE ((i - 1) % BatchSize) + 1
ImportProgress ==
  /\ IsFiniteSet(import.batch)
  /\ import.pc # "rest" => Cardinality(import.batch) <= BatchAtMost(import.i)
  /\ import.pc = "rest" => import.batch = {}
  /\ import.done => import.pc = "rest"
  /\ import.pc = "refs" => import.batch \subseteq dict
  /\ import.pc # "rest" =>
       \A j \in 1 .. import.i : Items[j] \in import.batch \cup (dict \cap refs)

\* What was posted for a configuration as it is now has been recorded, and what is
\* about to be posted was not posted before.
Recorded ==
  /\ \A t \in posted \cup toPost :
       t[3] <= gen[t[1]] /\ (t[3] = gen[t[1]] => <<t[1], t[2]>> \in notified)
  /\ toPost \cap posted = {}
  /\ round = "rest" => toPost = {}

\* A match of a round is of a configuration that is still there, unless one was removed.
FoundIsConfigured == ~raced => \A q \in found : q[1] \in configs

\* A request that has not been answered has no answer yet; a removal names no CPEs.
Unanswered ==
  \A h \in Handlers : handler[h].pc # "idle" =>
    /\ handler[h].answer = "none"
    /\ handler[h].op = "remove" => handler[h].cpes = {}

MonitorInv ==
  /\ TypeOK /\ ForeignKeys /\ ImportProgress /\ Recorded /\ FoundIsConfigured /\ Unanswered
  /\ ImportIsComplete /\ AtMostOnce /\ RecordedIsPosted

-----------------------------------------------------------------------------
LEMMA BatchBound ==
  ASSUME NEW i \in Nat
  PROVE  /\ BatchAtMost(i) \in 0 .. BatchSize
         /\ i # 0 /\ i % BatchSize # 0 => BatchAtMost(i + 1) = BatchAtMost(i) + 1
         /\ BatchAtMost(i + 1) >= 1
<1> USE MonitorAssumption
<1> DEFINE here == i % BatchSize
           before == (i - 1) % BatchSize
<1>1. here \in 0 .. (BatchSize - 1) /\ (i # 0 => before \in 0 .. (BatchSize - 1))
  <2>1. \A j \in Nat : j % BatchSize \in 0 .. (BatchSize - 1)
    OBVIOUS
  <2>2. i # 0 => i - 1 \in Nat
    OBVIOUS
  <2>3. here \in 0 .. (BatchSize - 1)
    BY <2>1
  <2>4. i # 0 => before \in 0 .. (BatchSize - 1)
    BY <2>1, <2>2, Zenon
  <2> QED BY <2>3, <2>4
<1>2. ASSUME i # 0, here # 0 PROVE before = here - 1
  <2>1. \A q \in Int, r \in 0 .. (BatchSize - 1) : (BatchSize * q + r) % BatchSize = r
    OBVIOUS
  <2>2. /\ i - 1 = BatchSize * (i \div BatchSize) + ((i % BatchSize) - 1)
        /\ (i % BatchSize) - 1 \in 0 .. (BatchSize - 1) /\ i \div BatchSize \in Int
    BY <1>2
  <2> QED BY <2>1, <2>2
<1>3. /\ BatchAtMost(i + 1) = here + 1
      /\ BatchAtMost(i) = IF i = 0 THEN 0 ELSE before + 1
  <2>1. i + 1 # 0 /\ (i + 1) - 1 = i
    OBVIOUS
  <2> QED BY <2>1 DEF BatchAtMost
<1> HIDE DEF here, before
<1>4. /\ BatchAtMost(i) \in 0 .. BatchSize /\ BatchAtMost(i + 1) >= 1
      /\ i # 0 /\ here # 0 => BatchAtMost(i + 1) = BatchAtMost(i) + 1
  BY <1>1, <1>2, <1>3
<1> QED BY <1>4 DEF here

LEMMA CpesOfItems == Cpes = {Items[j] : j \in 1 .. Len(Items)} /\ Len(Items) \in Nat
BY MonitorAssumption DEF Cpes

Request == [pc : {"idle", "check", "apply"}, op : {"add", "update", "remove"},
            wrong : BOOLEAN, name : Names, cpes : SUBSET Cpes,
            answer : {"none", "ok", "bad", "refused"}]

LEMMA NoRequestIsOne ==
  /\ NoRequest \in Request /\ NoRequest.pc = "idle"
  /\ \A a \in {"none", "ok", "bad", "refused"} :
       [NoRequest EXCEPT !.answer = a] \in Request /\ [NoRequest EXCEPT !.answer = a].pc = "idle"
BY MonitorAssumption DEF NoRequest, Request

LEMMA InitMonitorInv == Init => MonitorInv
<1> SUFFICES ASSUME Init PROVE MonitorInv
  OBVIOUS
<1> USE MonitorAssumption DEF Init
<1>1. /\ configs \subseteq Names /\ dict \subseteq Cpes /\ monitored \subseteq configs \X dict
      /\ monitored \subseteq Names \X Cpes
  OBVIOUS
<1>2. handler \in [Handlers -> Request]
  BY NoRequestIsOne
<1>3. IsFiniteSet(import.batch) /\ Cardinality(import.batch) = 0
  BY FS_EmptySet DEF NoImport
<1>4. import \in [pc : {"rest", "loop", "dict", "refs"}, i : 0 .. Len(Items),
                  batch : SUBSET Cpes, done : BOOLEAN]
  BY CpesOfItems DEF NoImport
<1>5. TypeOK
  <2>1. Cardinality(import.batch) <= BatchSize /\ gen \in [Names -> Nat]
    BY <1>3
  <2>2. /\ 0 \in 0 .. MaxRequests /\ 0 \in 0 .. MaxImports /\ 0 \in 0 .. MaxFaults
        /\ 0 \in 0 .. MaxCrashes
    OBVIOUS
  <2> QED BY <1>1, <1>2, <1>4, <2>1, <2>2 DEF TypeOK, Request
<1>6. ForeignKeys /\ ImportProgress /\ Recorded /\ FoundIsConfigured
  BY <1>1, <1>3 DEF ForeignKeys, ImportProgress, Recorded, FoundIsConfigured, NoImport
<1>7. Unanswered /\ ImportIsComplete /\ AtMostOnce /\ RecordedIsPosted
  BY DEF Unanswered, ImportIsComplete, AtMostOnce, RecordedIsPosted, NoRequest, NoImport
<1> QED BY <1>5, <1>6, <1>7 DEF MonitorInv

\* Steps that change no table: of a handler, of the import, of a round.
LEMMA TypesKept ==
  ASSUME MonitorInv,
         configs' \subseteq Names, monitored' \subseteq Names \X Cpes,
         dict' \subseteq Cpes, refs' \subseteq dict', notified' \subseteq Names \X Cves,
         handler' \in [Handlers -> Request],
         import' \in [pc : {"rest", "loop", "dict", "refs"}, i : 0 .. Len(Items),
                      batch : SUBSET Cpes, done : BOOLEAN],
         Cardinality(import'.batch) <= BatchSize,
         round' \in {"rest", "filter", "post"}, found' \subseteq Names \X Cves \X Feeds,
         gen' \in [Names -> Nat], toPost' \subseteq Names \X Cves \X Nat,
         posted' \subseteq Names \X Cves \X Nat, twice' \in BOOLEAN, raced' \in BOOLEAN,
         requests' \in 0 .. MaxRequests, imports' \in 0 .. MaxImports,
         faults' \in 0 .. MaxFaults, crashes' \in 0 .. MaxCrashes
  PROVE  TypeOK'
BY DEF TypeOK, Request

LEMMA Typed ==
  ASSUME MonitorInv
  PROVE  /\ TypeOK /\ handler \in [Handlers -> Request]
         /\ Fault => faults' \in 0 .. MaxFaults /\ faults' > 0
         /\ faults \in 0 .. MaxFaults
BY MonitorAssumption DEF MonitorInv, TypeOK, Request, Fault

LEMMA HandlerStepKeeps ==
  ASSUME MonitorInv, NEW h \in Handlers, Begin(h) \/ Check(h) \/ ApplyFails(h)
  PROVE  MonitorInv'
<1>1. /\ UNCHANGED <<tables, import, notify, imports, crashes, gen>>
      /\ faults' = faults \/ Fault
      /\ requests' = requests \/ (requests < MaxRequests /\ requests' = requests + 1)
  BY DEF Begin, Check, ApplyFails
<1>2. PICK r \in Request :
        /\ handler' = [handler EXCEPT ![h] = r]
        /\ r.pc # "idle" => r.answer = "none" /\ (r.op = "remove" => r.cpes = {})
  <2>1. CASE Begin(h)
    <3>1. PICK op \in {"add", "update", "remove"}, n \in Names, w \in Wrong, cs \in SUBSET Cpes :
            /\ op = "remove" => cs = {}
            /\ handler' = [handler EXCEPT ![h] =
                 [pc |-> "check", op |-> op, wrong |-> w, name |-> n, cpes |-> cs, answer |-> "none"]]
      BY <2>1 DEF Begin
    <3>2. [pc |-> "check", op |-> op, wrong |-> w, name |-> n, cpes |-> cs, answer |-> "none"] \in Request
      BY MonitorAssumption DEF Request
    <3> QED BY <3>1, <3>2
  <2>2. ASSUME NEW a \in {"none", "ok", "bad", "refused"},
               handler' = [handler EXCEPT ![h] = [NoRequest EXCEPT !.answer = a]]
        PROVE  \E r \in Request :
                 /\ handler' = [handler EXCEPT ![h] = r]
                 /\ r.pc # "idle" => r.answer = "none" /\ (r.op = "remove" => r.cpes = {})
    BY <2>2, NoRequestIsOne
  <2>3. CASE Reply(h, "bad")
    BY <2>2, <2>3 DEF Reply
  <2>4. CASE handler' = [handler EXCEPT ![h].pc = "apply"] /\ handler[h].pc = "check"
    <3>1. [handler[h] EXCEPT !.pc = "apply"] \in Request
      BY Typed DEF Request
    <3> QED BY <2>4, <3>1, Typed DEF MonitorInv, Unanswered, Request
  <2> QED BY <2>1, <2>3, <2>4 DEF Check, ApplyFails
<1>3. TypeOK'
  <2>1. handler' \in [Handlers -> Request]
    BY <1>2, Typed
  <2>2. requests' \in 0 .. MaxRequests /\ faults' \in 0 .. MaxFaults
    BY <1>1, Typed, MonitorAssumption, SMTT(30) DEF TypeOK
  <2> QED BY <1>1, <2>1, <2>2, Typed DEF TypeOK, tables, notify, Request
<1>4. Unanswered'
  BY <1>2, Typed DEF MonitorInv, Unanswered
<1>5. ForeignKeys' /\ ImportProgress' /\ Recorded' /\ FoundIsConfigured'
  BY <1>1 DEF MonitorInv, ForeignKeys, ImportProgress, Recorded, FoundIsConfigured, tables, notify
<1>6. ImportIsComplete' /\ AtMostOnce' /\ RecordedIsPosted'
  BY <1>1, Typed DEF MonitorInv, ImportIsComplete, AtMostOnce, RecordedIsPosted, Disturbed,
                     tables, notify
<1> QED BY <1>3, <1>4, <1>5, <1>6 DEF MonitorInv

-----------------------------------------------------------------------------
\* What the three kinds of requests do to the tables, and what they keep of them.
LEMMA ApplyKeeps ==
  ASSUME MonitorInv, NEW h \in Handlers, Apply(h)
  PROVE  MonitorInv'
<1> DEFINE r == handler[h]
<1>1. /\ r \in Request /\ r.pc = "apply" /\ Reply(h, "ok")
      /\ AddConfiguration(r) \/ UpdateConfiguration(r) \/ DeleteConfiguration(r)
      /\ UNCHANGED <<dict, refs, import, round, found, toPost, posted, twice,
                     requests, imports, faults, crashes>>
  BY Typed DEF Apply
<1>2. PICK s \in Request : s.pc = "idle" /\ handler' = [handler EXCEPT ![h] = s]
  BY <1>1, NoRequestIsOne DEF Reply
<1>3. /\ configs' \subseteq Names /\ monitored' \subseteq configs' \X dict
      /\ notified' \subseteq configs' \X Cves
  BY <1>1, Typed DEF MonitorInv, ForeignKeys, TypeOK, AddConfiguration, UpdateConfiguration,
                    DeleteConfiguration, Others, Exists, Request
<1>4. /\ gen' \in [Names -> Nat] /\ raced' \in BOOLEAN
      /\ \A n \in Names : gen'[n] = gen[n] \/ (gen'[n] = gen[n] + 1 /\ r.op = "remove" /\ n = r.name)
  <2>1. CASE UNCHANGED <<gen, raced>>
    BY <2>1, Typed DEF TypeOK
  <2>2. CASE DeleteConfiguration(r)
    BY <1>1, <2>2, Typed DEF TypeOK, DeleteConfiguration, Request
  <2> QED BY <1>1, <2>1, <2>2 DEF AddConfiguration, UpdateConfiguration
<1>5. TypeOK'
  <2>1. handler' \in [Handlers -> Request] /\ monitored' \subseteq Names \X Cpes
        /\ notified' \subseteq Names \X Cves
    BY <1>1, <1>2, <1>3, Typed DEF TypeOK
  <2>2. UNCHANGED <<dict, refs, import, round, found, toPost, posted, twice,
                    requests, imports, faults, crashes>>
    BY <1>1
  <2> HIDE DEF r
  <2> QED BY <1>3, <1>4, <2>1, <2>2, Typed DEF TypeOK, Request
<1>6. ForeignKeys' /\ ImportProgress' /\ Unanswered'
  <2>1. ForeignKeys'
    BY <1>1, <1>3 DEF ForeignKeys
  <2>2. ImportProgress'
    BY <1>1 DEF MonitorInv, ImportProgress
  <2>3. Unanswered'
    BY <1>2, Typed DEF MonitorInv, Unanswered
  <2> QED BY <2>1, <2>2, <2>3
<1>7. Recorded'
  <2> SUFFICES ASSUME NEW t \in posted \cup toPost
               PROVE  t[3] <= gen'[t[1]] /\ (t[3] = gen'[t[1]] => <<t[1], t[2]>> \in notified')
    BY <1>1 DEF MonitorInv, Recorded
  <2>1. /\ t[1] \in Names /\ t[2] \in Cves /\ t[3] \in Nat /\ t[3] <= gen[t[1]]
        /\ t[3] = gen[t[1]] => <<t[1], t[2]>> \in notified /\ t[1] \in configs
        /\ gen[t[1]] \in Nat
    BY Typed DEF MonitorInv, TypeOK, Recorded, ForeignKeys
  <2>2. CASE gen'[t[1]] = gen[t[1]] + 1
    BY <2>1, <2>2
  <2>3. CASE gen'[t[1]] = gen[t[1]] /\ ~(r.op = "remove" /\ t[1] = r.name)
    <3>1. <<t[1], t[2]>> \in notified => <<t[1], t[2]>> \in notified'
      BY <1>1, <2>3 DEF AddConfiguration, UpdateConfiguration, DeleteConfiguration
    <3> QED BY <2>1, <2>3, <3>1
  <2>4. CASE gen'[t[1]] = gen[t[1]] /\ r.op = "remove" /\ t[1] = r.name
    <3>1. ~Exists(r)
      BY <1>1, <2>1, <2>4, Typed DEF TypeOK, AddConfiguration, UpdateConfiguration,
                                    DeleteConfiguration, Request
    <3> QED BY <2>1, <2>4, <3>1 DEF Exists
  <2> QED BY <1>4, <2>1, <2>2, <2>3, <2>4
<1>8. FoundIsConfigured'
  <2> SUFFICES ASSUME ~raced', NEW q \in found PROVE q[1] \in configs'
    BY <1>1 DEF FoundIsConfigured
  <2>1. ~raced
    BY <1>1 DEF AddConfiguration, UpdateConfiguration, DeleteConfiguration
  <2>2. q[1] \in configs
    BY <2>1 DEF MonitorInv, FoundIsConfigured
  <2> QED BY <1>1, <2>1, <2>2 DEF AddConfiguration, UpdateConfiguration, DeleteConfiguration, Exists
<1>9. ImportIsComplete' /\ AtMostOnce'
  BY <1>1 DEF MonitorInv, ImportIsComplete, AtMostOnce
<1>10. RecordedIsPosted'
  <2> SUFFICES ASSUME ~Disturbed', NEW p \in notified'
               PROVE  \E g \in 0 .. gen'[p[1]] : <<p[1], p[2], g>> \in posted \cup toPost
    BY <1>1 DEF RecordedIsPosted
  <2>1. ~Disturbed /\ p \in notified /\ p[1] \in Names
    BY <1>1, <1>3, Typed DEF Disturbed, TypeOK, AddConfiguration, UpdateConfiguration, DeleteConfiguration
  <2>2. PICK g \in 0 .. gen[p[1]] : <<p[1], p[2], g>> \in posted \cup toPost
    BY <2>1 DEF MonitorInv, RecordedIsPosted
  <2>3. gen[p[1]] \in Nat /\ gen'[p[1]] \in Nat /\ gen[p[1]] <= gen'[p[1]]
    BY <1>4, <2>1, Typed DEF TypeOK
  <2> QED BY <2>2, <2>3
<1> QED BY <1>5, <1>6, <1>7, <1>8, <1>9, <1>10 DEF MonitorInv

-----------------------------------------------------------------------------
ImportRecord == [pc : {"rest", "loop", "dict", "refs"}, i : 0 .. Len(Items),
                 batch : SUBSET Cpes, done : BOOLEAN]

\* What a step of the import that leaves the requests and rounds alone must show.
LEMMA ImportStepKeeps ==
  ASSUME MonitorInv,
         UNCHANGED <<configs, notified, handler, notify, requests, crashes, gen>>,
         faults' = faults \/ Fault,
         imports' = imports \/ (imports < MaxImports /\ imports' = imports + 1),
         monitored' \subseteq configs \X dict', dict' \subseteq Cpes, refs' \subseteq dict',
         import' \in ImportRecord, Cardinality(import'.batch) <= BatchSize,
         ImportProgress', ImportIsComplete'
  PROVE  MonitorInv'
<1>1. faults' \in 0 .. MaxFaults /\ imports' \in 0 .. MaxImports
  BY Typed, MonitorAssumption, SMTT(30) DEF TypeOK
<1>2. monitored' \subseteq Names \X Cpes
  BY Typed DEF TypeOK
<1>3. TypeOK'
  BY <1>1, <1>2, Typed DEF TypeOK, notify, ImportRecord
<1>4. ForeignKeys' /\ Recorded' /\ FoundIsConfigured' /\ Unanswered' /\ AtMostOnce'
  BY DEF MonitorInv, ForeignKeys, Recorded, FoundIsConfigured, Unanswered, AtMostOnce, notify
<1>5. RecordedIsPosted'
  BY <1>1, Typed DEF MonitorInv, RecordedIsPosted, Disturbed, notify, Fault
<1> QED BY <1>3, <1>4, <1>5 DEF MonitorInv

LEMMA ImportTyped ==
  ASSUME MonitorInv
  PROVE  /\ import \in ImportRecord /\ import.i \in Nat /\ IsFiniteSet(import.batch)
         /\ Cardinality(import.batch) \in Nat /\ Cardinality(import.batch) <= BatchSize
         /\ BatchSize \in Nat \ {0} /\ dict \subseteq Cpes /\ refs \subseteq dict
         /\ monitored \subseteq configs \X dict
  <1>1. import \in ImportRecord /\ dict \subseteq Cpes /\ refs \subseteq dict
        /\ Cardinality(import.batch) <= BatchSize
    BY Typed DEF TypeOK, ImportRecord
  <1>2. IsFiniteSet(import.batch) /\ monitored \subseteq configs \X dict
    BY DEF MonitorInv, ImportProgress, ForeignKeys
  <1>3. Cardinality(import.batch) \in Nat
    BY <1>2, FS_CardinalityType
  <1>4. import.i \in Nat
    BY <1>1, CpesOfItems DEF ImportRecord
  <1> QED BY <1>1, <1>2, <1>3, <1>4, MonitorAssumption

LEMMA ImportBegins ==
  ASSUME MonitorInv, NEW pc \in {"rest", "loop"},
         import' = [pc |-> pc, i |-> 0, batch |-> {}, done |-> FALSE],
         UNCHANGED <<dict, refs>>
  PROVE  /\ import' \in ImportRecord /\ Cardinality(import'.batch) <= BatchSize
         /\ ImportProgress' /\ ImportIsComplete'
<1>1. IsFiniteSet(import'.batch) /\ Cardinality(import'.batch) = 0 /\ import'.batch = {}
      /\ import'.i = 0 /\ ~import'.done /\ import'.pc = pc
  BY FS_EmptySet
<1>2. import' \in ImportRecord
  <2>1. 0 \in 0 .. Len(Items)
    BY CpesOfItems
  <2> QED BY <2>1 DEF ImportRecord
<1>3. ImportProgress'
  BY <1>1 DEF ImportProgress, BatchAtMost
<1> QED BY <1>1, <1>2, <1>3, MonitorAssumption DEF ImportIsComplete

LEMMA ImportStartKeeps ==
  ASSUME MonitorInv, ImportStart \/ ImportFails PROVE MonitorInv'
<1>1. PICK pc \in {"rest", "loop"} : import' = [pc |-> pc, i |-> 0, batch |-> {}, done |-> FALSE]
  BY DEF ImportStart, ImportFails, NoImport
<1>2. UNCHANGED <<configs, monitored, dict, refs, notified, handler, notify, requests, crashes, gen>>
      /\ (faults' = faults \/ Fault)
      /\ (imports' = imports \/ (imports < MaxImports /\ imports' = imports + 1))
  BY DEF ImportStart, ImportFails, tables
<1>3. /\ import' \in ImportRecord /\ Cardinality(import'.batch) <= BatchSize
      /\ ImportProgress' /\ ImportIsComplete'
  BY <1>1, <1>2, ImportBegins
<1> QED BY <1>2, <1>3, ImportTyped, ImportStepKeeps

LEMMA ImportItemKeeps ==
  ASSUME MonitorInv, ImportItem PROVE MonitorInv'
<1> DEFINE i == import.i
           c == Items[i + 1]
<1>1. /\ import.pc = "loop" /\ i # Len(Items) /\ (import.batch = {} \/ ~FlushDue)
      /\ import' = [import EXCEPT !.i = i + 1, !.batch = import.batch \cup {c}]
      /\ UNCHANGED <<configs, monitored, dict, refs, notified, handler, notify, requests,
                     imports, faults, crashes, gen>>
  BY DEF ImportItem, Last, tables
<1>2. i \in 0 .. Len(Items) /\ i + 1 \in 1 .. Len(Items) /\ i \in Nat
  BY <1>1, ImportTyped, CpesOfItems DEF ImportRecord
<1>3. c \in Cpes
  BY <1>2, CpesOfItems
<1> HIDE DEF c
<1>4. /\ import' \in ImportRecord /\ import'.i = i + 1 /\ import'.pc = "loop"
      /\ import'.batch = import.batch \cup {c} /\ import'.done = import.done
  <2>1. i + 1 \in 0 .. Len(Items)
    BY <1>2
  <2> QED BY <1>1, <1>3, <2>1, ImportTyped DEF ImportRecord
<1>5. IsFiniteSet(import'.batch)
      /\ Cardinality(import'.batch) <= Cardinality(import.batch) + 1
      /\ Cardinality(import'.batch) \in Nat
  <2>1. IsFiniteSet(import.batch) /\ Cardinality(import.batch) \in Nat
    BY ImportTyped
  <2>2. /\ IsFiniteSet(import.batch \cup {c})
        /\ Cardinality(import.batch \cup {c}) \in {Cardinality(import.batch), Cardinality(import.batch) + 1}
    BY <2>1, FS_AddElement
  <2> QED BY <1>4, <2>1, <2>2
<1> HIDE DEF i
<1>6. Cardinality(import'.batch) <= BatchAtMost(i + 1)
  <2>1. CASE import.batch = {}
    <3>1. Cardinality(import.batch) = 0
      BY <2>1, FS_EmptySet
    <3>2. BatchAtMost(i + 1) >= 1 /\ BatchAtMost(i + 1) \in 0 .. BatchSize
      BY <1>2, BatchBound
    <3> QED BY <1>5, <3>1, <3>2
  <2>2. CASE import.batch # {}
    <3>1. ~FlushDue
      BY <1>1, <2>2
    <3>2. Cardinality(import.batch) <= BatchAtMost(i)
      BY <1>1 DEF MonitorInv, ImportProgress, i
    <3>3. CASE i = 0
      <4>1. Cardinality(import.batch) <= 0 /\ BatchAtMost(i + 1) >= 1
            /\ BatchAtMost(i + 1) \in 0 .. BatchSize
        BY <1>2, <3>2, <3>3, BatchBound DEF BatchAtMost
      <4> QED BY <1>5, <4>1, ImportTyped
    <3>4. CASE i # 0
      <4>1. i % BatchSize # 0
        BY <3>1, <3>4 DEF FlushDue, i
      <4>2. BatchAtMost(i + 1) = BatchAtMost(i) + 1 /\ BatchAtMost(i) \in 0 .. BatchSize
        BY <1>2, <3>4, <4>1, BatchBound
      <4> QED BY <1>5, <3>2, <4>2, ImportTyped
    <3> QED BY <3>3, <3>4
  <2> QED BY <2>1, <2>2
<1>7. Cardinality(import'.batch) <= BatchSize
  <2>1. BatchAtMost(i + 1) \in 0 .. BatchSize
    BY <1>2, BatchBound
  <2> QED BY <1>5, <1>6, <2>1, ImportTyped
<1>8. ImportProgress'
  <2>1. \A j \in 1 .. (i + 1) : Items[j] \in import'.batch \cup (dict \cap refs)
    <3> SUFFICES ASSUME NEW j \in 1 .. (i + 1), j # i + 1
                 PROVE  Items[j] \in import'.batch \cup (dict \cap refs)
      BY <1>4 DEF c
    <3>1. j \in 1 .. i
      BY <1>2
    <3> QED BY <1>1, <1>4, <3>1 DEF MonitorInv, ImportProgress, i
  <2>2. ~import'.done
    BY <1>1, <1>4 DEF MonitorInv, ImportProgress
  <2> QED BY <1>1, <1>4, <1>5, <1>6, <2>1, <2>2 DEF ImportProgress
<1>9. ImportIsComplete'
  BY <1>1, <1>4 DEF MonitorInv, ImportIsComplete
<1> QED BY <1>1, <1>4, <1>7, <1>8, <1>9, ImportTyped, ImportStepKeeps

LEMMA ImportFlushKeeps ==
  ASSUME MonitorInv, ImportFlush PROVE MonitorInv'
<1>1. /\ import.pc = "loop" /\ import' = [import EXCEPT !.pc = "dict"]
      /\ UNCHANGED <<configs, monitored, dict, refs, notified, handler, notify, requests,
                     imports, faults, crashes, gen>>
  BY DEF ImportFlush, tables
<1>2. /\ import' \in ImportRecord /\ import'.i = import.i /\ import'.pc = "dict"
      /\ import'.batch = import.batch /\ import'.done = import.done
  BY <1>1, ImportTyped DEF ImportRecord
<1>3. ImportProgress' /\ ImportIsComplete'
  BY <1>1, <1>2 DEF MonitorInv, ImportProgress, ImportIsComplete
<1> QED BY <1>1, <1>2, <1>3, ImportTyped, ImportStepKeeps

\* Between the two writes of a batch the batch itself is what the references lack.
LEMMA ReplaceDictKeeps ==
  ASSUME MonitorInv, ReplaceDict PROVE MonitorInv'
<1>1. /\ import.pc = "dict" /\ import' = [import EXCEPT !.pc = "refs"]
      /\ dict' = dict \cup import.batch /\ refs' = refs \ import.batch
      /\ monitored' = {m \in monitored : m[2] \notin import.batch}
      /\ UNCHANGED <<configs, notified, handler, notify, requests, imports, faults, crashes, gen>>
  BY DEF ReplaceDict
<1>2. /\ import' \in ImportRecord /\ import'.i = import.i /\ import'.pc = "refs"
      /\ import'.batch = import.batch /\ import'.done = import.done
      /\ import.batch \subseteq Cpes
  BY <1>1, ImportTyped DEF ImportRecord
<1>3. dict' \subseteq Cpes /\ refs' \subseteq dict' /\ monitored' \subseteq configs \X dict'
  BY <1>1, <1>2, ImportTyped
<1>4. ImportProgress'
  BY <1>1, <1>2 DEF MonitorInv, ImportProgress
<1>5. ~import'.done
  BY <1>1, <1>2 DEF MonitorInv, ImportProgress
<1> QED BY <1>1, <1>2, <1>3, <1>4, <1>5, ImportTyped, ImportStepKeeps DEF ImportIsComplete

\* The last batch has been written with all before it: the dictionary is complete.
LEMMA ReplaceRefsKeeps ==
  ASSUME MonitorInv, ReplaceRefs PROVE MonitorInv'
<1>1. /\ import.pc = "refs" /\ refs' = refs \cup import.batch
      /\ import' = IF Last THEN [import EXCEPT !.pc = "rest", !.batch = {}, !.done = TRUE]
                   ELSE [import EXCEPT !.pc = "loop", !.batch = {}]
      /\ UNCHANGED <<configs, monitored, dict, notified, handler, notify, requests, imports,
                     faults, crashes, gen>>
  BY DEF ReplaceRefs
<1>2. /\ import' \in ImportRecord /\ import'.i = import.i /\ import'.batch = {}
      /\ import'.pc = IF Last THEN "rest" ELSE "loop"
      /\ import'.done <=> Last
  BY <1>1, ImportTyped DEF MonitorInv, ImportProgress, ImportRecord
<1>3. /\ IsFiniteSet(import'.batch) /\ Cardinality(import'.batch) = 0
      /\ BatchAtMost(import.i) \in 0 .. BatchSize
  BY <1>2, FS_EmptySet, ImportTyped, BatchBound
<1>4. import.batch \subseteq dict /\ \A j \in 1 .. import.i : Items[j] \in dict \cap refs'
  BY <1>1 DEF MonitorInv, ImportProgress
<1>5. ImportProgress'
  BY <1>1, <1>2, <1>3, <1>4 DEF ImportProgress
<1>6. ImportIsComplete'
  <2> SUFFICES ASSUME Last PROVE dict' = Cpes /\ refs' = Cpes
    BY <1>2 DEF ImportIsComplete
  <2>1. Cpes \subseteq dict \cap refs'
    BY <1>4, CpesOfItems DEF Last
  <2> QED BY <1>1, <1>4, <2>1, ImportTyped
<1>7. refs' \subseteq dict' /\ dict' \subseteq Cpes /\ monitored' \subseteq configs \X dict'
  BY <1>1, <1>4, ImportTyped
<1>8. Cardinality(import'.batch) <= BatchSize
  BY <1>3, ImportTyped
<1> QED BY <1>1, <1>2, <1>5, <1>6, <1>7, <1>8, ImportStepKeeps

-----------------------------------------------------------------------------
\* What a step of a round that touches nothing else must show.
LEMMA RoundStepKeeps ==
  ASSUME MonitorInv,
         UNCHANGED <<configs, monitored, dict, refs, handler, import, requests, imports,
                     crashes, gen, raced>>,
         faults' = faults \/ Fault,
         round' \in {"rest", "filter", "post"}, found' \subseteq Names \X Cves \X Feeds,
         toPost' \subseteq Names \X Cves \X Nat, posted' \subseteq Names \X Cves \X Nat,
         notified' \subseteq configs \X Cves, twice' = FALSE,
         Recorded', FoundIsConfigured', RecordedIsPosted'
  PROVE  MonitorInv'
<1>1. faults' \in 0 .. MaxFaults /\ notified' \subseteq Names \X Cves
  BY Typed, MonitorAssumption DEF TypeOK
<1>2. TypeOK'
  BY <1>1, Typed DEF TypeOK
<1>3. ForeignKeys' /\ ImportProgress' /\ Unanswered' /\ AtMostOnce' /\ ImportIsComplete'
  BY DEF MonitorInv, ForeignKeys, ImportProgress, Unanswered, AtMostOnce, ImportIsComplete
<1> QED BY <1>2, <1>3 DEF MonitorInv

LEMMA RoundTyped ==
  ASSUME MonitorInv
  PROVE  /\ round \in {"rest", "filter", "post"} /\ found \subseteq Names \X Cves \X Feeds
         /\ toPost \subseteq Names \X Cves \X Nat /\ posted \subseteq Names \X Cves \X Nat
         /\ notified \subseteq configs \X Cves /\ twice = FALSE /\ configs \subseteq Names
         /\ monitored \subseteq configs \X dict /\ gen \in [Names -> Nat]
         /\ Recorded /\ FoundIsConfigured /\ RecordedIsPosted
BY Typed DEF MonitorInv, TypeOK, ForeignKeys, AtMostOnce

\* A fault, once it happened, is part of the history.
LEMMA FaultDisturbs ==
  ASSUME MonitorInv, Fault \/ (crashes < MaxCrashes /\ crashes' = crashes + 1)
  PROVE  Disturbed'
BY MonitorAssumption DEF MonitorInv, TypeOK, Fault, Disturbed

\* The round ends, and what it has not posted is gone.
LEMMA Forgotten ==
  ASSUME MonitorInv, UNCHANGED <<notified, gen, posted>>, toPost' = {}
  PROVE  Recorded'
BY RoundTyped DEF Recorded

\* Only monitored configurations, which exist, are matched.
LEMMA MatchKeeps ==
  ASSUME MonitorInv, Match PROVE MonitorInv'
<1>1. /\ round = "rest" /\ round' = "filter" /\ toPost' = {}
      /\ UNCHANGED <<configs, monitored, dict, refs, notified, handler, import, posted, twice,
                     raced, requests, imports, faults, crashes, gen>>
  BY DEF Match, tables
<1>2. /\ found' \subseteq Names \X Cves \X Feeds
      /\ \A q \in found' : CpesOf(q[1]) # {}
  BY DEF Match
<1>3. \A q \in found' : q[1] \in configs
  BY <1>2, RoundTyped DEF CpesOf
<1>4. Recorded'
  BY <1>1, Forgotten
<1>5. FoundIsConfigured'
  BY <1>1, <1>3 DEF FoundIsConfigured
<1>6. RecordedIsPosted'
  <2>1. toPost = {}
    BY <1>1, RoundTyped DEF Recorded
  <2> QED BY <1>1, <2>1, RoundTyped DEF RecordedIsPosted, Disturbed
<1> QED BY <1>1, <1>2, <1>4, <1>5, <1>6, RoundTyped, RoundStepKeeps

LEMMA FilterKnownKeeps ==
  ASSUME MonitorInv, FilterKnown \/ FilterDone PROVE MonitorInv'
<1>1. /\ found' \subseteq found /\ round = "filter" /\ round' \in {"filter", "post"}
      /\ UNCHANGED <<configs, monitored, dict, refs, notified, handler, import, toPost, posted,
                     twice, raced, requests, imports, faults, crashes, gen>>
  BY DEF FilterKnown, FilterDone, tables
<1>2. Recorded'
  BY <1>1, RoundTyped DEF Recorded
<1>3. FoundIsConfigured' /\ RecordedIsPosted'
  BY <1>1, RoundTyped DEF FoundIsConfigured, RecordedIsPosted, Disturbed
<1> QED BY <1>1, <1>2, <1>3, RoundTyped, RoundStepKeeps

\* What is recorded for the first time was not posted before: for the configuration as it
\* is now everything posted has been recorded.
LEMMA FilterNewKeeps ==
  ASSUME MonitorInv, FilterNew PROVE MonitorInv'
<1>1. PICK q \in found :
        /\ round = "filter" /\ NotFound(q) /\ q[1] \in configs
        /\ notified' = notified \cup {<<q[1], q[2]>>}
        /\ toPost' = toPost \cup {Notice(q)} /\ found' = found \ {q}
        /\ UNCHANGED <<configs, monitored, dict, refs, handler, import, round, posted, twice,
                       raced, requests, imports, faults, crashes, gen>>
  BY DEF FilterNew
<1>2. /\ q[1] \in Names /\ q[2] \in Cves /\ gen[q[1]] \in Nat
      /\ <<q[1], q[2]>> \notin notified
  BY <1>1, RoundTyped DEF NotFound
<1> DEFINE t0 == <<q[1], q[2], gen[q[1]]>>
<1>3. /\ t0 \in Names \X Cves \X Nat /\ t0[1] = q[1] /\ t0[2] = q[2] /\ t0[3] = gen[q[1]]
      /\ toPost' = toPost \cup {t0}
  BY <1>1, <1>2 DEF Notice
<1>4. t0 \notin posted
  BY <1>2, <1>3, RoundTyped DEF Recorded
<1> HIDE DEF t0
<1>5. Recorded'
  <2>1. \A t \in posted' \cup toPost' :
          t[3] <= gen'[t[1]] /\ (t[3] = gen'[t[1]] => <<t[1], t[2]>> \in notified')
    <3>1. \A t \in posted \cup toPost :
            t[3] <= gen[t[1]] /\ (t[3] = gen[t[1]] => <<t[1], t[2]>> \in notified')
      BY <1>1, RoundTyped DEF Recorded
    <3>2. t0[3] <= gen[t0[1]] /\ <<t0[1], t0[2]>> \in notified'
      BY <1>1, <1>2, <1>3
    <3> QED BY <1>1, <1>3, <3>1, <3>2
  <2>2. toPost' \cap posted' = {} /\ round' # "rest"
    BY <1>1, <1>3, <1>4, RoundTyped DEF Recorded
  <2> QED BY <2>1, <2>2 DEF Recorded
<1>6. FoundIsConfigured'
  BY <1>1, RoundTyped DEF FoundIsConfigured
<1>7. RecordedIsPosted'
  <2> SUFFICES ASSUME ~Disturbed, NEW p \in notified \cup {<<q[1], q[2]>>}
               PROVE  \E g \in 0 .. gen[p[1]] : <<p[1], p[2], g>> \in posted \cup toPost'
    BY <1>1 DEF RecordedIsPosted, Disturbed
  <2>1. CASE p \in notified
    BY <1>3, <2>1, RoundTyped DEF RecordedIsPosted
  <2>2. CASE p = <<q[1], q[2]>>
    <3>1. gen[p[1]] \in 0 .. gen[p[1]] /\ <<p[1], p[2], gen[p[1]]>> \in toPost'
      BY <1>2, <1>3, <2>2 DEF t0
    <3> QED BY <3>1
  <2> QED BY <2>1, <2>2
<1>8. /\ found' \subseteq Names \X Cves \X Feeds /\ toPost' \subseteq Names \X Cves \X Nat
      /\ notified' \subseteq configs \X Cves
  BY <1>1, <1>2, <1>3, RoundTyped
<1> QED BY <1>1, <1>5, <1>6, <1>7, <1>8, RoundTyped, RoundStepKeeps

\* Nobody but a removal, which is part of the history, makes a round fail without a fault.
LEMMA RoundFailsKeeps ==
  ASSUME MonitorInv, FilterFails \/ PostFails PROVE MonitorInv'
<1>1. /\ round' = "rest" /\ toPost' = {} /\ found' \subseteq found
      /\ UNCHANGED <<configs, monitored, dict, refs, notified, handler, import, posted, twice,
                     raced, requests, imports, crashes, gen>>
      /\ (UNCHANGED faults /\ \E q \in found : q[1] \notin configs) \/ Fault
  BY DEF FilterFails, PostFails, tables
<1>2. Disturbed'
  BY <1>1, RoundTyped, FaultDisturbs DEF FoundIsConfigured, Disturbed
<1>3. Recorded'
  BY <1>1, Forgotten
<1>4. FoundIsConfigured' /\ RecordedIsPosted'
  BY <1>1, <1>2, RoundTyped DEF FoundIsConfigured, RecordedIsPosted
<1> QED BY <1>1, <1>3, <1>4, RoundTyped, RoundStepKeeps

LEMMA PostKeeps ==
  ASSUME MonitorInv, Post PROVE MonitorInv'
<1>1. /\ round = "post" /\ round' = "rest" /\ toPost' = {} /\ posted' = posted \cup toPost
      /\ twice' = (twice \/ toPost \cap posted # {})
      /\ UNCHANGED <<configs, monitored, dict, refs, notified, handler, import, found, raced,
                     requests, imports, faults, crashes, gen>>
  BY DEF Post, tables
<1>2. twice' = FALSE
  BY <1>1, RoundTyped DEF Recorded
<1>3. Recorded' /\ FoundIsConfigured' /\ RecordedIsPosted'
  BY <1>1, RoundTyped DEF Recorded, FoundIsConfigured, RecordedIsPosted, Disturbed
<1> QED BY <1>1, <1>2, <1>3, RoundTyped, RoundStepKeeps

LEMMA CrashKeeps ==
  ASSUME MonitorInv, Crash PROVE MonitorInv'
<1>1. /\ crashes < MaxCrashes /\ crashes' = crashes + 1
      /\ handler' = [h \in Handlers |-> NoRequest] /\ import' = NoImport
      /\ round' = "rest" /\ found' = {} /\ toPost' = {}
      /\ UNCHANGED <<configs, monitored, dict, refs, notified, posted, twice, raced, requests,
                     imports, faults, gen>>
  BY DEF Crash, tables
<1>2. /\ import' \in ImportRecord /\ Cardinality(import'.batch) <= BatchSize
      /\ ImportProgress' /\ ImportIsComplete'
  BY <1>1, ImportBegins DEF NoImport
<1>3. handler' \in [Handlers -> Request] /\ \A h \in Handlers : handler'[h].pc = "idle"
  BY <1>1, NoRequestIsOne
<1>4. crashes' \in 0 .. MaxCrashes
  BY <1>1, Typed, MonitorAssumption DEF TypeOK
<1>5. TypeOK'
  BY <1>1, <1>2, <1>3, <1>4, Typed DEF TypeOK, ImportRecord, Request
<1>6. Recorded' /\ Disturbed'
  BY <1>1, Forgotten, FaultDisturbs
<1>7. ForeignKeys' /\ FoundIsConfigured' /\ Unanswered' /\ AtMostOnce' /\ RecordedIsPosted'
  BY <1>1, <1>3, <1>6 DEF MonitorInv, ForeignKeys, FoundIsConfigured, Unanswered, AtMostOnce,
                          RecordedIsPosted
<1> QED BY <1>2, <1>5, <1>6, <1>7 DEF MonitorInv

LEMMA StutterKeeps ==
  ASSUME MonitorInv, UNCHANGED vars PROVE MonitorInv'
BY DEF vars, MonitorInv, TypeOK, ForeignKeys, ImportProgress, Recorded, FoundIsConfigured,
       Unanswered, ImportIsComplete, AtMostOnce, RecordedIsPosted, Disturbed

LEMMA NextMonitorInv == MonitorInv /\ [Next]_vars => MonitorInv'
<1> SUFFICES ASSUME MonitorInv, [Next]_vars PROVE MonitorInv'
  OBVIOUS
<1>1. ASSUME NEW h \in Handlers, Begin(h) \/ Serve(h) PROVE MonitorInv'
  BY <1>1, HandlerStepKeeps, ApplyKeeps DEF Serve
<1>2. CASE Import
  BY <1>2, ImportStartKeeps, ImportItemKeeps, ImportFlushKeeps, ReplaceDictKeeps,
     ReplaceRefsKeeps DEF Import
<1>3. CASE Notify
  BY <1>3, MatchKeeps, FilterKnownKeeps, FilterNewKeeps, RoundFailsKeeps, PostKeeps DEF Notify
<1> QED BY <1>1, <1>2, <1>3, CrashKeeps, StutterKeeps DEF Next

LEMMA AlwaysMonitorInv == Spec => []MonitorInv
BY InitMonitorInv, NextMonitorInv, PTL DEF Spec

-----------------------------------------------------------------------------
(* ImportDictionnary, NotificationCron: whatever requests, imports, rounds, faults and
   crashes are interleaved, the tables keep their foreign keys and a batch its size, an
   import that reports success has written every item with its references, and nothing is
   posted twice for a configuration as it was added last.                    *)
THEOREM NothingIsPostedTwice == Spec => []Inv
<1>1. MonitorInv => Inv
  BY DEF MonitorInv, Inv
<1> QED BY <1>1, AlwaysMonitorInv, PTL

(* NotificationCron: as long as no fault, no crash and no removal came in between, what
   cves_notified lists has been posted or is about to be.                    *)
THEOREM WhatIsRecordedIsPosted == Spec => []RecordedIsPosted
<1>1. MonitorInv => RecordedIsPosted
  BY DEF MonitorInv
<1> QED BY <1>1, AlwaysMonitorInv, PTL

(* Add, Update and DeleteConfiguration: a request answered with success has left exactly
   the CPEs it named, whatever happened between its check and its writes.    *)
THEOREM OkIsDone == Spec => OkMeansDone
<1> DEFINE Done(h) == LET r == handler[h] IN
             r.pc # "idle" /\ handler'[h].answer = "ok" =>
               /\ {c \in Cpes : <<r.name, c>> \in monitored'} = r.cpes
               /\ r.name \in configs' <=> r.op # "remove"
<1>1. ASSUME MonitorInv, [Next]_vars, NEW h \in Handlers PROVE Done(h)
  <2> SUFFICES ASSUME handler[h].pc # "idle", handler'[h].answer = "ok"
               PROVE  /\ {c \in Cpes : <<handler[h].name, c>> \in monitored'} = handler[h].cpes
                      /\ handler[h].name \in configs' <=> handler[h].op # "remove"
    OBVIOUS
  <2> DEFINE r == handler[h]
  <2>1. handler[h].answer = "none" /\ (r.op = "remove" => r.cpes = {}) /\ r \in Request
    BY <1>1, Typed DEF MonitorInv, Unanswered
  <2>2. Apply(h)
    <3>1. handler' # handler
      BY <2>1
    <3>2. PICK k \in Handlers : Begin(k) \/ Serve(k)
      <4>1. ~Crash
        BY NoRequestIsOne DEF Crash, NoRequest
      <4> QED BY <1>1, <3>1, <4>1 DEF Next, Import, Notify, vars, ImportStart, ImportItem,
              ImportFlush, ReplaceDict, ReplaceRefs, ImportFails, Match, FilterKnown, FilterNew,
              FilterFails, FilterDone, Post, PostFails
    <3>3. k = h
      <4>1. \E s : handler' = [handler EXCEPT ![k] = s]
        BY <3>2 DEF Serve, Begin, Check, Apply, ApplyFails, Reply
      <4> QED BY <2>1, <4>1, Typed, <1>1
    <3>4. ~Begin(h)
      BY DEF Begin
    <3>5. ASSUME Reply(h, "bad") PROVE FALSE
      BY <3>5, <1>1, Typed DEF Reply, NoRequest
    <3>6. ASSUME handler' = [handler EXCEPT ![h].pc = "apply"] PROVE FALSE
      BY <3>6, <1>1, <2>1, Typed DEF Request
    <3> QED BY <3>2, <3>3, <3>4, <3>5, <3>6 DEF Serve, Check, ApplyFails
  <2>3. /\ AddConfiguration(r) \/ UpdateConfiguration(r) \/ DeleteConfiguration(r)
        /\ monitored \subseteq configs \X dict /\ r.name \in Names /\ r.cpes \subseteq Cpes
    BY <1>1, <2>1, <2>2 DEF Apply, MonitorInv, ForeignKeys, Request
  <2> HIDE DEF r
  <2>5. CASE AddConfiguration(r)
    BY <2>3, <2>5 DEF AddConfiguration, Exists, r
  <2>6. CASE UpdateConfiguration(r)
    BY <2>3, <2>6 DEF UpdateConfiguration, Exists, Others, r
  <2>7. CASE DeleteConfiguration(r)
    BY <2>1, <2>3, <2>7 DEF DeleteConfiguration, Others, r
  <2> QED BY <2>3, <2>5, <2>6, <2>7
<1>2. ASSUME MonitorInv, [Next]_vars PROVE \A h \in Handlers : Done(h)
  BY <1>1, <1>2
<1> QED BY <1>2, AlwaysMonitorInv, PTL DEF Spec, OkMeansDone
=============================================================================
