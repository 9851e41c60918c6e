---------------------------- MODULE VulnDB_proofs ----------------------------
(* What holds of vulndb for every set of providers, datasets, importers and trimmers,
   every batch size, limit and bound: first of its vendor tables while imports and
   trims write them, then of overrides, snoozes and exports.                 *)
EXTENDS VulnDBInv, VulnCommands, FeedDiff, FiniteSetTheorems, TLAPS

\* The bookkeeping of an import changes neither the fields nor the version.
LEMMA BatchKeepsVersion ==
  ASSUME NEW r, IsImport(r), NEW s
  PROVE  IsImport(StartBatch(r, s)) /\ StartBatch(r, s).version = r.version
  BY DEF IsImport, Fields, StartBatch

LEMMA FileKeepsVersion ==
  ASSUME NEW r, IsImport(r)
  PROVE  IsImport(NextFile(r)) /\ NextFile(r).version = r.version
  BY DEF IsImport, Fields, NextFile

LEMMA RetryKeepsVersion ==
  ASSUME NEW r, IsImport(r)
  PROVE  IsImport(RetrySmaller(r)) /\ RetrySmaller(r).version = r.version
  BY DEF IsImport, Fields, RetrySmaller

LEMMA InsertKeepsVersion ==
  ASSUME NEW r, IsImport(r)
  PROVE  IsImport(AfterInsert(r)) /\ AfterInsert(r).version = r.version
<1>1. CASE r.idx + r.size < BatchLen(r)
  BY <1>1 DEF IsImport, Fields, AfterInsert
<1>2. CASE ~(r.idx + r.size < BatchLen(r))
  BY <1>2, FileKeepsVersion, BatchKeepsVersion DEF AfterInsert
<1> QED BY <1>1, <1>2

LEMMA IdleIsImport == IsImport(Idle) /\ Idle.version = 0
  BY DEF IsImport, Fields, Idle

-----------------------------------------------------------------------------
LEMMA InitTrimInv == Init => TrimInv
<1> SUFFICES ASSUME Init PROVE TrimInv
  OBVIOUS
<1>1. DOMAIN vendor = {} /\ counter = 0 /\ Condemned = {}
  BY DEF Init, Condemned, NoTrim
<1>2. Rows
  <2>1. \A m \in Importers : IsImport(imp[m]) /\ imp[m].version = 0
    BY IdleIsImport DEF Init
  <2>2. trim \in [Trimmers -> [pc : {"idle", "delete", "orphans", "purge"},
                             versions : SUBSET Nat]]
    BY DEF Init, NoTrim
  <2>3. QED BY <1>1, <2>1, <2>2 DEF Rows, Made, Init
<1>3. Making
  BY IdleIsImport DEF Making, Init
<1>4. CondemnedForGood
  BY <1>1 DEF CondemnedForGood
<1>5. HasLatest
  BY <1>1 DEF HasLatest, Ready
<1> QED BY <1>2, <1>3, <1>4, <1>5 DEF TrimInv

-----------------------------------------------------------------------------
(* The steps of an importer that leave the vendor rows alone.                *)
LEMMA ImportStepKeeps ==
  ASSUME TrimInv, UNCHANGED <<vendor, counter, old, trim>>,
         NEW m \in Importers, NEW r, IsImport(r), r.version \in {0, imp[m].version},
         imp' = [imp EXCEPT ![m] = r]
  PROVE  TrimInv'
<1>1. imp' = [n \in Importers |-> IF n = m THEN r ELSE imp[n]]
  BY DEF TrimInv, Rows
<1>2. Rows'
  BY <1>1 DEF TrimInv, Rows, Made, Condemned
<1>3. Making'
  BY <1>1 DEF TrimInv, Making
<1>4. CondemnedForGood'
  BY DEF TrimInv, CondemnedForGood, Condemned, Abandoned, Superseded
<1>5. HasLatest'
  BY DEF TrimInv, HasLatest, Latest, Ready
<1> QED BY <1>2, <1>3, <1>4, <1>5 DEF TrimInv

(* The steps of a trimmer that delete and select no vendor row.              *)
LEMMA TrimStepKeeps ==
  ASSUME TrimInv, UNCHANGED <<vendor, counter, old, imp>>,
         NEW t \in Trimmers,
         NEW r \in [pc : {"idle", "orphans", "purge"}, versions : SUBSET Nat],
         trim' = [trim EXCEPT ![t] = r]
  PROVE  TrimInv'
<1>1. Condemned' \subseteq Condemned
  BY DEF Condemned, TrimInv, Rows
<1>2. Rows'
  BY <1>1 DEF TrimInv, Rows, Made
<1>3. Making'
  BY DEF TrimInv, Making
<1>4. CondemnedForGood'
  BY <1>1 DEF TrimInv, CondemnedForGood, Abandoned, Superseded
<1>5. HasLatest'
  BY DEF TrimInv, HasLatest, Latest, Ready
<1> QED BY <1>2, <1>3, <1>4, <1>5 DEF TrimInv
-----------------------------------------------------------------------------
LEMMA NewVersionKeeps ==
  ASSUME TrimInv, NEW m \in Importers, NewVersion(m)
  PROVE  TrimInv'
<1> DEFINE c == counter + 1
<1>1. PICK p \in Providers, d \in Datasets :
        /\ vendor' = [v \in DOMAIN vendor \cup {counter'} |->
                        IF v = counter' THEN NewRow(p) ELSE vendor[v]]
        /\ imp' = [imp EXCEPT ![m] = [Idle EXCEPT !.pc = "load", !.version = counter',
                                                 !.files = d, !.file = 1]]
  BY DEF NewVersion
<1>2. counter' = c /\ old' = old /\ trim' = trim /\ Condemned' = Condemned
  BY DEF NewVersion, Condemned
<1>3. c \in Nat /\ c > counter /\ c # 0 /\ c \notin DOMAIN vendor /\ c \notin old
      /\ c \notin Condemned /\ \A n \in Importers : imp[n].version # c
  BY DEF TrimInv, Rows, Made
<1>4. /\ imp' = [n \in Importers |-> imp'[n]]
      /\ IsImport(imp'[m]) /\ imp'[m].version = c
      /\ \A n \in Importers \ {m} : imp'[n] = imp[n]
  BY <1>1, <1>2 DEF TrimInv, Rows, IsImport, Fields, Idle
<1>5. /\ DOMAIN vendor' = DOMAIN vendor \cup {c}
      /\ \A v \in DOMAIN vendor : vendor'[v] = vendor[v]
      /\ vendor'[c] = [provider |-> p, ready |-> FALSE]
  BY <1>1, <1>2, <1>3 DEF NewRow
<1> HIDE DEF c
<1>6. Rows'
  <2>1. DOMAIN vendor' \subseteq Made' /\ old' \subseteq Made' /\ Condemned' \subseteq Made'
    BY <1>2, <1>3, <1>5 DEF TrimInv, Rows, Made, c
  <2>2. \A n \in Importers : IsImport(imp'[n]) /\ imp'[n].version \in 0 .. counter'
    BY <1>2, <1>3, <1>4 DEF TrimInv, Rows, c
  <2>3. vendor' = [v \in DOMAIN vendor' |-> vendor'[v]]
    BY <1>1
  <2>4. \A v \in DOMAIN vendor' : vendor'[v] \in [provider : Providers, ready : BOOLEAN]
    <3>1. vendor'[c] \in [provider : Providers, ready : BOOLEAN]
      BY <1>5
    <3>2. \A v \in DOMAIN vendor : vendor[v] \in [provider : Providers, ready : BOOLEAN]
      BY DEF TrimInv, Rows
    <3> QED BY <1>5, <3>1, <3>2
  <2> QED BY <1>2, <1>3, <1>4, <2>1, <2>2, <2>3, <2>4 DEF TrimInv, Rows
<1>7. Making'
  BY <1>2, <1>3, <1>4, <1>5 DEF TrimInv, Making
<1>8. CondemnedForGood'
  BY <1>2, <1>3, <1>5 DEF TrimInv, CondemnedForGood, Abandoned, Superseded
<1>9. HasLatest'
  BY <1>5, <1>3 DEF TrimInv, HasLatest, Latest, Ready
<1> QED BY <1>6, <1>7, <1>8, <1>9 DEF TrimInv

LEMMA EnableKeeps ==
  ASSUME TrimInv, NEW m \in Importers, Enable(m)
  PROVE  TrimInv'
<1> DEFINE c == imp[m].version
<1>1. UNCHANGED <<counter, old, trim>> /\ Condemned' = Condemned
  BY DEF Enable, Condemned
<1>2. imp' = [imp EXCEPT ![m] = Idle]
  BY DEF Enable
<1>3. CASE c \notin DOMAIN vendor
  BY <1>1, <1>2, <1>3, ImportStepKeeps, IdleIsImport DEF Enable
<1>4. CASE c \in DOMAIN vendor
  <2>1. /\ DOMAIN vendor' = DOMAIN vendor
        /\ vendor' = [v \in DOMAIN vendor' |-> vendor'[v]]
        /\ \A v \in DOMAIN vendor \ {c} : vendor'[v] = vendor[v]
        /\ vendor'[c] = [provider |-> vendor[c].provider, ready |-> TRUE]
    BY <1>4 DEF Enable, TrimInv, Rows
  <2>2. c \in Nat \ {0} /\ c \notin old
    BY <1>4 DEF TrimInv, Rows, Making, Made
  <2>3. /\ imp' = [n \in Importers |-> imp'[n]]
        /\ imp'[m] = Idle /\ \A n \in Importers \ {m} : imp'[n] = imp[n]
    BY <1>2 DEF TrimInv, Rows
  <2>4. \A n \in Importers \ {m} : imp[n].version # c
    BY <2>2 DEF TrimInv, Making
  <2> HIDE DEF c
  <2>5. Rows'
    <3>1. \A v \in DOMAIN vendor : vendor[v] \in [provider : Providers, ready : BOOLEAN]
      BY DEF TrimInv, Rows
    <3>2. vendor'[c] \in [provider : Providers, ready : BOOLEAN]
      BY <1>4, <2>1, <3>1
    <3>3. \A v \in DOMAIN vendor' : vendor'[v] \in [provider : Providers, ready : BOOLEAN]
      BY <2>1, <3>1, <3>2
    <3>4. \A n \in Importers : IsImport(imp'[n]) /\ imp'[n].version \in 0 .. counter'
      BY <1>1, <2>3, IdleIsImport DEF TrimInv, Rows
    <3> QED BY <1>1, <2>1, <2>3, <3>3, <3>4 DEF TrimInv, Rows, Made
  <2>6. Making'
    BY <1>1, <2>1, <2>3, <2>4, IdleIsImport DEF TrimInv, Making
  <2>7. CondemnedForGood'
    BY <1>1, <2>1, <2>2 DEF TrimInv, CondemnedForGood, Abandoned, Superseded
  <2>8. HasLatest'
    <3>1. SUFFICES ASSUME NEW p \in Providers, Ready(p)' # {} PROVE Latest(p)' # {}
      BY DEF HasLatest
    <3>2. CASE p # vendor[c].provider
      BY <1>4, <2>1, <3>1, <3>2 DEF TrimInv, HasLatest, Latest, Ready
    <3>3. CASE p = vendor[c].provider
      <4>1. Ready(p)' = Ready(p) \cup {c}
        BY <1>4, <2>1, <3>3 DEF Ready
      <4>2. Ready(p)' \subseteq Nat
        BY <2>5 DEF Rows, Made, Ready
      <4>3. CASE \A w \in Ready(p)' : w <= c
        BY <4>1, <4>3 DEF Latest
      <4>4. CASE \E w \in Ready(p)' : ~(w <= c)
        <5>1. Ready(p) # {}
          BY <4>1, <4>2, <4>4, <2>2
        <5>2. PICK l \in Latest(p) : TRUE
          BY <5>1 DEF TrimInv, HasLatest
        <5>3. l \in Ready(p) /\ \A w \in Ready(p) : w <= l
          BY <5>2 DEF Latest
        <5>4. c <= l
          BY <4>1, <4>2, <4>4, <5>3, <2>2
        <5>5. l \in Latest(p)'
          BY <4>1, <5>3, <5>4 DEF Latest
        <5> QED BY <5>5
      <4> QED BY <4>3, <4>4
    <3> QED BY <3>2, <3>3
  <2> QED BY <2>5, <2>6, <2>7, <2>8 DEF TrimInv
<1> QED BY <1>3, <1>4

LEMMA AgeKeeps ==
  ASSUME ImportsEndInADay, TrimInv, Age
  PROVE  TrimInv'
<1>1. PICK v \in DOMAIN vendor \ old : ~Running(v) /\ old' = old \cup {v}
  BY DEF Age, ImportsEndInADay
<1>2. UNCHANGED <<vendor, counter, imp, trim>> /\ Condemned' = Condemned
  BY DEF Age, Condemned
<1>3. Rows'
  BY <1>1, <1>2 DEF TrimInv, Rows, Made
<1>4. Making'
  BY <1>1, <1>2 DEF TrimInv, Making, Running
<1>5. CondemnedForGood'
  BY <1>1, <1>2 DEF TrimInv, CondemnedForGood, Abandoned, Superseded
<1>6. HasLatest'
  BY <1>2 DEF TrimInv, HasLatest, Latest, Ready
<1> QED BY <1>3, <1>4, <1>5, <1>6 DEF TrimInv
-----------------------------------------------------------------------------
(* Where the latest version protects what is older.                          *)
LEMMA LatestIsNotCondemned ==
  ASSUME TrimInv, NEW p \in Providers, NEW l \in Latest(p)
  PROVE  l \in DOMAIN vendor \ Condemned /\ vendor[l].provider = p /\ vendor[l].ready
<1>1. l \in DOMAIN vendor /\ vendor[l].provider = p /\ vendor[l].ready
  BY DEF Latest, Ready
<1>2. ~Superseded(l)
  <2>1. SUFFICES ASSUME NEW w \in DOMAIN vendor, w > l, vendor[w].provider = p,
                        vendor[w].ready
                 PROVE  FALSE
    BY <1>1 DEF Superseded
  <2>2. w \in Nat /\ l \in Nat
    BY <1>1 DEF TrimInv, Rows, Made
  <2> QED BY <2>1, <2>2 DEF Latest, Ready
<1> QED BY <1>1, <1>2 DEF TrimInv, CondemnedForGood, Abandoned

LEMMA SelectKeeps ==
  ASSUME TrimsAreDefault, TrimInv, NEW t \in Trimmers, SelectVersions(t)
  PROVE  TrimInv'
<1>1. PICK filter \in SUBSET Providers :
        trim' = [trim EXCEPT ![t] = [pc |-> "delete", versions |-> Deletable(filter, FALSE)]]
  BY DEF SelectVersions, TrimsAreDefault
<1> DEFINE chosen == Deletable(filter, FALSE)
<1>2. UNCHANGED <<vendor, counter, old, imp>>
  BY DEF SelectVersions
<1>3. /\ chosen \subseteq DOMAIN vendor
      /\ \A v \in chosen : /\ vendor[v].ready \/ v \in old
                          /\ v \notin Latest(vendor[v].provider)
  BY DEF Deletable
<1> HIDE DEF chosen
<1>4. Condemned' \subseteq Condemned \cup chosen
  BY <1>1 DEF TrimInv, Rows, Condemned, chosen
<1>5. Rows'
  <2>1. chosen \subseteq Made /\ chosen \subseteq Nat
    BY <1>3 DEF TrimInv, Rows, Made
  <2>2. trim' \in [Trimmers -> [pc : {"idle", "delete", "orphans", "purge"},
                                versions : SUBSET Nat]]
    BY <1>1, <2>1 DEF TrimInv, Rows, chosen
  <2>3. Condemned' \subseteq Made'
    BY <1>2, <1>4, <2>1 DEF TrimInv, Rows, Made
  <2> QED BY <1>2, <2>2, <2>3 DEF TrimInv, Rows, Made
<1>6. Making'
  BY <1>2 DEF TrimInv, Making
<1>7. CondemnedForGood'
  <2>1. SUFFICES ASSUME NEW v \in Condemned' \cap DOMAIN vendor, ~Abandoned(v)
                 PROVE  Superseded(v)'
    BY <1>2 DEF CondemnedForGood, Abandoned
  <2> DEFINE p == vendor[v].provider
  <2>2. v \in Nat /\ p \in Providers
    BY <2>1 DEF TrimInv, Rows, Made
  <2>3. Ready(p) # {}
    <3>1. CASE v \in Condemned
      BY <2>1, <3>1 DEF TrimInv, CondemnedForGood, Superseded, Ready
    <3>2. CASE v \in chosen
      BY <1>3, <2>1, <3>2 DEF Abandoned, Ready
    <3> QED BY <1>4, <2>1, <3>1, <3>2
  <2>4. PICK l \in Latest(p) : TRUE
    BY <2>2, <2>3 DEF TrimInv, HasLatest
  <2>5. l \in DOMAIN vendor \ Condemned /\ vendor[l].provider = p /\ vendor[l].ready
    BY <2>2, <2>4, LatestIsNotCondemned
  <2>6. l \notin chosen
    BY <1>3, <2>4, <2>5
  <2>7. l > v
    <3>1. l \in Nat
      BY <2>5 DEF TrimInv, Rows, Made
    <3>2. CASE v \in Condemned
      <4>1. PICK w \in DOMAIN vendor : w > v /\ vendor[w].provider = p /\ vendor[w].ready
        BY <2>1, <3>2 DEF TrimInv, CondemnedForGood, Superseded
      <4>2. w \in Nat /\ w <= l
        BY <2>4, <4>1 DEF TrimInv, Rows, Made, Latest, Ready
      <4> QED BY <2>2, <3>1, <4>1, <4>2
    <3>3. CASE v \in chosen
      <4>1. v \in Ready(p) /\ v \notin Latest(p)
        BY <1>3, <2>1, <3>3 DEF Abandoned, Ready
      <4>2. v <= l /\ v # l
        BY <2>4, <4>1 DEF Latest
      <4> QED BY <2>2, <3>1, <4>2
    <3> QED BY <1>4, <2>1, <3>2, <3>3
  <2> QED BY <1>2, <1>4, <2>5, <2>6, <2>7 DEF Superseded
<1>8. HasLatest'
  BY <1>2 DEF TrimInv, HasLatest, Latest, Ready
<1> QED BY <1>5, <1>6, <1>7, <1>8 DEF TrimInv

\* What a trimmer deletes leaves every latest version in place.
LEMMA DeleteSparesLatest ==
  ASSUME TrimInv, NEW t \in Trimmers, DeleteVendors(t), NEW p \in Providers
  PROVE  Latest(p) \subseteq DOMAIN vendor'
<1>1. trim[t].versions \subseteq Condemned
  BY DEF DeleteVendors, Condemned
<1>2. DOMAIN vendor' = DOMAIN vendor \ trim[t].versions
  BY DEF DeleteVendors
<1> QED BY <1>1, <1>2, LatestIsNotCondemned

LEMMA DeleteKeeps ==
  ASSUME TrimInv, NEW t \in Trimmers, DeleteVendors(t)
  PROVE  TrimInv'
<1>1. /\ vendor' = [v \in DOMAIN vendor' |-> vendor'[v]]
      /\ DOMAIN vendor' = DOMAIN vendor \ trim[t].versions
      /\ \A v \in DOMAIN vendor' : vendor'[v] = vendor[v]
  BY DEF DeleteVendors
<1>2. UNCHANGED <<counter, old, imp>>
  BY DEF DeleteVendors
<1>3. Condemned' \subseteq Condemned /\ trim[t].versions \subseteq Condemned
  BY DEF DeleteVendors, TrimInv, Rows, Condemned
<1>4. Rows'
  <2>1. trim' \in [Trimmers -> [pc : {"idle", "delete", "orphans", "purge"},
                              versions : SUBSET Nat]]
    BY DEF DeleteVendors, TrimInv, Rows
  <2> QED BY <1>1, <1>2, <1>3, <2>1 DEF TrimInv, Rows, Made
<1>5. Making'
  BY <1>1, <1>2 DEF TrimInv, Making
<1>6. CondemnedForGood'
  BY <1>1, <1>2, <1>3 DEF TrimInv, CondemnedForGood, Abandoned, Superseded
<1>7. HasLatest'
  <2>1. SUFFICES ASSUME NEW p \in Providers, Ready(p)' # {} PROVE Latest(p)' # {}
    BY DEF HasLatest
  <2>2. Ready(p)' \subseteq Ready(p)
    BY <1>1 DEF Ready
  <2>3. PICK l \in Latest(p) : TRUE
    BY <2>1, <2>2 DEF TrimInv, HasLatest
  <2>4. l \in DOMAIN vendor' /\ vendor[l].provider = p /\ vendor[l].ready
    BY <2>3, DeleteSparesLatest, LatestIsNotCondemned
  <2>5. l \in Latest(p)'
    BY <1>1, <2>2, <2>3, <2>4 DEF Latest, Ready
  <2> QED BY <2>5
<1> QED BY <1>4, <1>5, <1>6, <1>7 DEF TrimInv

-----------------------------------------------------------------------------
LEMMA NextTrimInv ==
  ASSUME ImportsEndInADay, TrimsAreDefault
  PROVE  TrimInv /\ [Next]_vars => TrimInv'
<1> SUFFICES ASSUME TrimInv, [Next]_vars PROVE TrimInv'
  OBVIOUS
<1>1. ASSUME NEW m \in Importers, NewVersion(m) PROVE TrimInv'
  BY <1>1, NewVersionKeeps
<1>2. ASSUME NEW m \in Importers, LoadFile(m) PROVE TrimInv'
  <2>1. IsImport(imp[m])
    BY DEF TrimInv, Rows
  <2> QED BY <1>2, <2>1, FileKeepsVersion, BatchKeepsVersion, ImportStepKeeps DEF LoadFile
<1>3. ASSUME NEW m \in Importers, Replace(m) PROVE TrimInv'
  <2>1. IsImport(imp[m])
    BY DEF TrimInv, Rows
  <2> QED BY <1>3, <2>1, InsertKeepsVersion, ImportStepKeeps DEF Replace
<1>4. ASSUME NEW m \in Importers, ReplaceFails(m) PROVE TrimInv'
  <2>1. IsImport(imp[m])
    BY DEF TrimInv, Rows
  <2> QED BY <1>4, <2>1, RetryKeepsVersion, IdleIsImport, ImportStepKeeps DEF ReplaceFails
<1>5. ASSUME NEW m \in Importers, Enable(m) PROVE TrimInv'
  BY <1>5, EnableKeeps
<1>6. ASSUME NEW m \in Importers, ImportFails(m) PROVE TrimInv'
  BY <1>6, IdleIsImport, ImportStepKeeps DEF ImportFails
<1>7. ASSUME NEW t \in Trimmers, SelectVersions(t) PROVE TrimInv'
  BY <1>7, SelectKeeps
<1>8. ASSUME NEW t \in Trimmers, DeleteVendors(t) PROVE TrimInv'
  BY <1>8, DeleteKeeps
<1>9. ASSUME NEW t \in Trimmers, SelectOrphans(t) PROVE TrimInv'
  <2>1. PICK r \in {NoTrim} \cup [pc : {"purge"}, versions : SUBSET Versions] :
          trim' = [trim EXCEPT ![t] = r]
    BY <1>9 DEF SelectOrphans, Orphans
  <2>2. r \in [pc : {"idle", "orphans", "purge"}, versions : SUBSET Nat]
    BY DEF NoTrim, Versions
  <2> QED BY <1>9, <2>1, <2>2, TrimStepKeeps DEF SelectOrphans
<1>10. ASSUME NEW t \in Trimmers, PurgeSome(t) PROVE TrimInv'
  BY <1>10 DEF PurgeSome, TrimInv, Rows, Made, Condemned, Making, CondemnedForGood,
               Abandoned, Superseded, HasLatest, Latest, Ready
<1>11. ASSUME NEW t \in Trimmers, PurgeDone(t) \/ TrimFails(t) PROVE TrimInv'
  <2>1. NoTrim \in [pc : {"idle", "orphans", "purge"}, versions : SUBSET Nat]
    BY DEF NoTrim
  <2> QED BY <1>11, <2>1, TrimStepKeeps DEF PurgeDone, TrimFails
<1>12. ASSUME Age PROVE TrimInv'
  BY <1>12, AgeKeeps
<1>13. ASSUME UNCHANGED vars PROVE TrimInv'
  BY <1>13 DEF vars, TrimInv, Rows, Made, Condemned, Making, CondemnedForGood,
               Abandoned, Superseded, HasLatest, Latest, Ready
<1> QED BY <1>1, <1>2, <1>3, <1>4, <1>5, <1>6, <1>7, <1>8, <1>9, <1>10, <1>11, <1>12,
           <1>13 DEF Next, Import, Purge

(* "By default keeps only the latest version of data for each provider": with
   imports that end within a day, a trim never deletes a version that is the
   latest ready one when the DELETE runs, though it was selected earlier.    *)
THEOREM LatestSurvivesTrims ==
  ASSUME ImportsEndInADay, TrimsAreDefault
  PROVE  Spec => TrimKeepsLatest
<1> DEFINE Spares ==
      \A t \in Trimmers : trim[t].pc = "delete" /\ trim'[t].pc = "orphans" =>
        \A p \in Providers : Latest(p) \subseteq DOMAIN vendor'
<1>1. TrimInv /\ [Next]_vars => [Spares]_vars
  <2>1. SUFFICES ASSUME TrimInv, Next, NEW t \in Trimmers,
                        trim[t].pc = "delete", trim'[t].pc = "orphans",
                        NEW p \in Providers
                 PROVE  Latest(p) \subseteq DOMAIN vendor'
    OBVIOUS
  <2>2. DeleteVendors(t)
    <3>1. trim \in [Trimmers -> [pc : {"idle", "delete", "orphans", "purge"},
                                versions : SUBSET Nat]]
      BY <2>1 DEF TrimInv, Rows
    <3>2. ASSUME NEW m \in Importers, NewVersion(m) \/ Import(m) PROVE FALSE
      BY <2>1, <3>2 DEF NewVersion, Import, LoadFile, Replace, ReplaceFails, Enable, ImportFails
    <3>3. ASSUME NEW u \in Trimmers,
                 \/ SelectVersions(u) \/ SelectOrphans(u)
                 \/ PurgeSome(u) \/ PurgeDone(u) \/ TrimFails(u)
          PROVE  FALSE
      BY <2>1, <3>1, <3>3 DEF SelectVersions, SelectOrphans, PurgeSome, PurgeDone, TrimFails, NoTrim
    <3>4. ASSUME NEW u \in Trimmers, DeleteVendors(u) PROVE u = t
      BY <2>1, <3>1, <3>4 DEF DeleteVendors
    <3>5. ASSUME Age PROVE FALSE
      BY <2>1, <3>5 DEF Age
    <3> QED BY <2>1, <3>2, <3>3, <3>4, <3>5 DEF Next, Purge
  <2> QED BY <2>1, <2>2, DeleteSparesLatest
<1> QED BY <1>1, InitTrimInv, NextTrimInv, PTL DEF Spec, TrimKeepsLatest

-----------------------------------------------------------------------------
(* How an import goes through its files.                                     *)
LEMMA FilesTyped ==
  ASSUME NEW d \in Datasets
  PROVE  /\ Len(d) \in Nat \ {0} /\ \A j \in 1 .. Len(d) : Len(d[j]) \in Nat
         /\ CvesOf(d) = {d[p[1]][p[2]] : p \in Positions(d)} /\ CvesOf(d) \subseteq Cves
<1>1. d \in Seq(Seq(Cves)) /\ d # <<>>
  BY VulnDBAssumption
<1>2. Len(d) \in Nat \ {0} /\ \A j \in 1 .. Len(d) : d[j] \in Seq(Cves)
  BY <1>1
<1>3. \A j \in 1 .. Len(d) : Len(d[j]) \in Nat
  BY <1>2
<1>4. CvesOf(d) \subseteq Cves
  BY DEF Cves
<1>5. CvesOf(d) = {d[p[1]][p[2]] : p \in Positions(d)}
  <2>1. ASSUME NEW p \in Positions(d) PROVE d[p[1]][p[2]] \in CvesOf(d)
    BY <2>1 DEF Positions, CvesOf
  <2>2. ASSUME NEW j \in 1 .. Len(d), NEW k \in 1 .. Len(d[j])
        PROVE  d[j][k] \in {d[p[1]][p[2]] : p \in Positions(d)}
    <3>1. <<j, k>> \in Positions(d) /\ <<j, k>>[1] = j /\ <<j, k>>[2] = k
      BY <1>2, <1>3 DEF Positions
    <3> QED BY <3>1
  <2> QED BY <2>1, <2>2, SMTT(30) DEF CvesOf
<1> QED BY <1>2, <1>3, <1>4, <1>5

\* What is known of an import that is not idle.
LEMMA ImportTyped ==
  ASSUME StoreRows, NEW r, ImportAt(r)
  PROVE  /\ r.files \in Datasets /\ r.version \in Made /\ r.file \in Nat /\ r.file >= 1
         /\ r.file <= Len(r.files) /\ Len(r.files) \in Nat
         /\ File(r) = r.files[r.file] /\ Len(File(r)) \in Nat
         /\ BatchSize \in Nat \ {0} /\ r # Idle
<1>1. r.version \in 1 .. Len(made) /\ r.files = made[r.version].files
  BY DEF ImportAt, StoreRows, Made
<1>2. r.files \in Datasets
  <2> DEFINE Entry == [provider : Providers, files : Datasets]
  <2>1. made \in Seq(Entry)
    BY DEF StoreRows
  <2> HIDE DEF Entry
  <2>2. made[r.version] \in Entry
    BY <1>1, <2>1
  <2> QED BY <1>1, <2>2 DEF Entry
<1>3. Len(r.files) \in Nat /\ Len(File(r)) \in Nat
  BY <1>2, FilesTyped DEF ImportAt, File
<1>4. r # Idle
  BY DEF ImportAt, Idle
<1> QED BY <1>2, <1>3, <1>4, VulnDBAssumption DEF ImportAt, File

LEMMA BatchStarts ==
  ASSUME StoreRows, NEW r, ImportAt(r), NEW s \in Nat, s < Len(File(r))
  PROVE  LET q == StartBatch(r, s) IN
         /\ ImportAt(q) /\ q.version = r.version /\ q.files = r.files /\ q.file = r.file
         /\ q.pc = "insert" /\ q.start = s /\ q.idx = 0
<1> DEFINE q == StartBatch(r, s)
<1>1. /\ IsImport(q) /\ q.pc = "insert" /\ q.version = r.version /\ q.files = r.files
      /\ q.file = r.file /\ q.start = s /\ q.from = 0 /\ q.idx = 0
      /\ q.size = Smaller(BatchSize, Len(File(r)) - s)
  BY DEF StartBatch, ImportAt, IsImport, Fields
<1> HIDE DEF q
<1>2. File(q) = File(r) /\ BatchLen(q) = q.size /\ q.size \in Nat \ {0}
  BY <1>1, ImportTyped DEF File, BatchLen, Smaller
<1>3. ImportAt(q)
  BY <1>1, <1>2 DEF ImportAt
<1> QED BY <1>1, <1>3 DEF q

LEMMA FileEnds ==
  ASSUME StoreRows, NEW r, ImportAt(r)
  PROVE  LET q == NextFile(r) IN
         /\ ImportAt(q) /\ q.version = r.version /\ q.files = r.files
         /\ \A p \in Positions(r.files) : Through(q, p) <=> p[1] <= r.file
<1> DEFINE q == NextFile(r)
<1>1. CASE r.file < Len(r.files)
  <2>1. /\ IsImport(q) /\ q.pc = "load" /\ q.version = r.version /\ q.files = r.files
        /\ q.file = r.file + 1
    BY <1>1 DEF NextFile, ImportAt, IsImport, Fields
  <2> HIDE DEF q
  <2>2. ImportAt(q)
    BY <1>1, <2>1, ImportTyped DEF ImportAt
  <2>3. \A p \in Positions(r.files) : Through(q, p) <=> p[1] <= r.file
    BY <2>1, ImportTyped DEF Through, Positions
  <2> QED BY <2>1, <2>2, <2>3 DEF q
<1>2. CASE ~(r.file < Len(r.files))
  <2>1. /\ IsImport(q) /\ q.pc = "enable" /\ q.version = r.version /\ q.files = r.files
        /\ q.file = r.file
    BY <1>2 DEF NextFile, ImportAt, IsImport, Fields
  <2> HIDE DEF q
  <2>2. ImportAt(q)
    BY <2>1 DEF ImportAt
  <2>3. \A p \in Positions(r.files) : Through(q, p) <=> p[1] <= r.file
    BY <1>2, <2>1, ImportTyped DEF Through, Positions
  <2> QED BY <2>1, <2>2, <2>3 DEF q
<1> QED BY <1>1, <1>2

\* The positions of the next statement's records.
Inserting(r) ==
  {p \in Positions(r.files) :
     p[1] = r.file /\ r.start + r.idx < p[2] /\ p[2] <= r.start + Limit(r)}

LEMMA SliceIsInserting ==
  ASSUME StoreRows, NEW r, ImportAt(r), r.pc = "insert"
  PROVE  /\ Slice(r) = {<<r.version, r.files[p[1]][p[2]]>> : p \in Inserting(r)}
         /\ Limit(r) \in Nat /\ BatchLen(r) \in Nat
         /\ Limit(r) <= BatchLen(r) /\ r.start + BatchLen(r) <= Len(File(r))
<1>1. /\ r.start \in Nat /\ r.idx \in Nat /\ r.size \in 1 .. BatchLen(r)
      /\ r.start < Len(File(r)) /\ r.idx < BatchLen(r)
  BY DEF ImportAt
<1>2. BatchLen(r) \in Nat /\ r.start + BatchLen(r) <= Len(File(r))
  BY <1>1, ImportTyped DEF BatchLen, Smaller
<1>3. Limit(r) \in Nat /\ Limit(r) <= BatchLen(r)
  BY <1>1, <1>2 DEF Limit, Smaller
<1>0. /\ r.file \in Nat /\ r.file \in 1 .. Len(r.files) /\ File(r) = r.files[r.file]
      /\ Len(File(r)) \in Nat /\ Len(r.files) \in Nat
  BY ImportTyped
<1>4. ASSUME NEW k \in r.idx + 1 .. Limit(r)
      PROVE  /\ <<r.file, r.start + k>> \in Inserting(r)
             /\ <<r.file, r.start + k>>[1] = r.file /\ <<r.file, r.start + k>>[2] = r.start + k
  <2>1. r.start + k \in 1 .. Len(r.files[r.file]) /\ r.file \in 1 .. Len(r.files)
    <3>1. k \in Nat /\ k >= 1 /\ k <= Limit(r)
      BY <1>1, <1>3, <1>4
    <3>2. \A s, b, l, n \in Nat : l <= b /\ s + b <= n /\ k <= l =>
            s + k >= 1 /\ s + k <= n /\ s + k \in Nat
      BY <3>1
    <3>3. r.start + k >= 1 /\ r.start + k <= Len(File(r)) /\ r.start + k \in Nat
      BY <3>1, <3>2, <1>0, <1>1, <1>2, <1>3
    <3> QED BY <1>0, <3>3
  <2>2. <<r.file, r.start + k>> \in Positions(r.files)
    BY <1>0, <2>1 DEF Positions
  <2>3. r.start + r.idx < r.start + k /\ r.start + k <= r.start + Limit(r)
    BY <1>1, <1>3, <1>4
  <2> QED BY <2>2, <2>3 DEF Inserting
<1>5. ASSUME NEW p \in Inserting(r)
      PROVE  /\ p[2] - r.start \in r.idx + 1 .. Limit(r) /\ r.start + (p[2] - r.start) = p[2]
             /\ p[1] = r.file
  <2>1. p[1] = r.file /\ p[2] \in Nat /\ r.start + r.idx < p[2] /\ p[2] <= r.start + Limit(r)
    <3>1. /\ p \in Positions(r.files) /\ p[1] = r.file
          /\ r.start + r.idx < p[2] /\ p[2] <= r.start + Limit(r)
      BY <1>5 DEF Inserting
    <3>2. p[2] \in Nat
      BY <3>1 DEF Positions
    <3> QED BY <3>1, <3>2
  <2>2. \A s, i, l, k \in Nat : s + i < k /\ k <= s + l => k - s \in i + 1 .. l /\ s + (k - s) = k
    OBVIOUS
  <2> QED BY <1>1, <1>3, <2>1, <2>2
<1>6. Slice(r) \subseteq {<<r.version, r.files[p[1]][p[2]]>> : p \in Inserting(r)}
  <2> SUFFICES ASSUME NEW k \in r.idx + 1 .. Limit(r)
               PROVE  <<r.version, File(r)[r.start + k]>>
                        \in {<<r.version, r.files[p[1]][p[2]]>> : p \in Inserting(r)}
    BY DEF Slice
  <2> QED BY <1>4, ImportTyped
<1>7. {<<r.version, r.files[p[1]][p[2]]>> : p \in Inserting(r)} \subseteq Slice(r)
  <2> SUFFICES ASSUME NEW p \in Inserting(r)
               PROVE  <<r.version, r.files[p[1]][p[2]]>> \in Slice(r)
    OBVIOUS
  <2> QED BY <1>5, ImportTyped DEF Slice
<1> QED BY <1>2, <1>3, <1>6, <1>7

\* A statement takes the import through exactly what it inserts.
LEMMA InsertMoves ==
  ASSUME StoreRows, NEW r, ImportAt(r), r.pc = "insert"
  PROVE  LET q == AfterInsert(r) IN
         /\ ImportAt(q) /\ q.version = r.version /\ q.files = r.files
         /\ \A p \in Positions(r.files) : Through(q, p) <=> Through(r, p) \/ p \in Inserting(r)
<1>1. /\ r.start \in Nat /\ r.idx \in Nat /\ r.size \in Nat /\ r.size >= 1
      /\ r.size <= BatchLen(r) /\ r.start < Len(File(r)) /\ r.idx < BatchLen(r)
      /\ Limit(r) \in Nat /\ BatchLen(r) \in Nat /\ Len(File(r)) \in Nat
      /\ BatchSize \in Nat \ {0}
  BY SliceIsInserting, ImportTyped DEF ImportAt
<1>2. \A p \in Positions(r.files) :
        /\ p[1] \in Nat /\ p[2] \in Nat /\ (p[1] = r.file => p[2] <= Len(File(r)))
        /\ Through(r, p) <=> p[1] < r.file \/ (p[1] = r.file /\ p[2] <= r.start + r.idx)
        /\ p \in Inserting(r) <=> /\ p[1] = r.file /\ r.start + r.idx < p[2]
                                  /\ p[2] <= r.start + Limit(r)
  BY ImportTyped DEF Positions, Through, Inserting
<1>3. CASE r.idx + r.size < BatchLen(r)
  <2> DEFINE q == [r EXCEPT !.idx = @ + r.size, !.from = Limit(r)]
  <2>1. Limit(r) = r.idx + r.size
    BY <1>1, <1>3 DEF Limit, Smaller
  <2>2. /\ IsImport(q) /\ q.pc = "insert" /\ q.version = r.version /\ q.files = r.files
        /\ q.file = r.file /\ q.start = r.start /\ q.size = r.size
        /\ q.idx = r.idx + r.size /\ q.from = Limit(r)
    BY DEF ImportAt, IsImport, Fields
  <2>3. AfterInsert(r) = q
    BY <1>3 DEF AfterInsert
  <2> HIDE DEF q
  <2>4. File(q) = File(r) /\ BatchLen(q) = BatchLen(r)
    BY <2>2 DEF File, BatchLen
  <2>5. ImportAt(q)
    BY <1>1, <1>3, <2>1, <2>2, <2>4 DEF ImportAt
  <2>6. \A p \in Positions(r.files) : Through(q, p) <=> Through(r, p) \/ p \in Inserting(r)
    BY <1>1, <1>2, <2>1, <2>2, SMTT(30) DEF Through
  <2> QED BY <2>2, <2>3, <2>5, <2>6
<1>4. CASE ~(r.idx + r.size < BatchLen(r)) /\ r.start + BatchSize < Len(File(r))
  <2> DEFINE q == StartBatch(r, r.start + BatchSize)
  <2>1. Limit(r) = BatchSize
    BY <1>1, <1>4 DEF Limit, BatchLen, Smaller
  <2>2. /\ ImportAt(q) /\ q.version = r.version /\ q.files = r.files /\ q.file = r.file
        /\ q.pc = "insert" /\ q.start = r.start + BatchSize /\ q.idx = 0
    BY <1>1, <1>4, BatchStarts
  <2>3. AfterInsert(r) = q
    BY <1>4 DEF AfterInsert
  <2> HIDE DEF q
  <2>4. \A p \in Positions(r.files) : Through(q, p) <=> Through(r, p) \/ p \in Inserting(r)
    <3>1. r.idx < BatchSize
      BY <1>1, <1>4 DEF BatchLen, Smaller
    <3> QED BY <1>1, <1>2, <2>1, <2>2, <3>1 DEF Through
  <2> QED BY <2>2, <2>3, <2>4
<1>5. CASE ~(r.idx + r.size < BatchLen(r)) /\ ~(r.start + BatchSize < Len(File(r)))
  <2> DEFINE q == NextFile(r)
  <2>1. r.start + Limit(r) = Len(File(r)) /\ r.start + r.idx < Len(File(r))
    BY <1>1, <1>5 DEF Limit, BatchLen, Smaller
  <2>2. /\ ImportAt(q) /\ q.version = r.version /\ q.files = r.files
        /\ \A p \in Positions(r.files) : Through(q, p) <=> p[1] <= r.file
    BY FileEnds
  <2>3. AfterInsert(r) = q
    BY <1>5 DEF AfterInsert
  <2> HIDE DEF q
  <2>4. \A p \in Positions(r.files) : Through(q, p) <=> Through(r, p) \/ p \in Inserting(r)
    <3>1. r.file \in Nat
      BY ImportTyped
    <3>2. Limit(r) = Len(File(r)) - r.start
      BY <1>1, <2>1
    <3>3. ASSUME NEW p \in Positions(r.files) PROVE p[1] <= r.file <=> Through(r, p) \/ p \in Inserting(r)
      BY <1>1, <1>2, <2>1, <3>1, SMTT(30)
    <3> QED BY <2>2, <3>3
  <2> QED BY <2>2, <2>3, <2>4
<1> QED BY <1>3, <1>4, <1>5

LEMMA RetryStays ==
  ASSUME StoreRows, NEW r, ImportAt(r), r.pc = "insert", r.size # 1
  PROVE  LET q == RetrySmaller(r) IN
         /\ ImportAt(q) /\ q.version = r.version /\ q.files = r.files
         /\ \A p \in Positions(r.files) : Through(q, p) <=> Through(r, p)
<1> DEFINE q == RetrySmaller(r)
<1>1. /\ IsImport(q) /\ q.pc = "insert" /\ q.version = r.version /\ q.files = r.files
      /\ q.file = r.file /\ q.start = r.start /\ q.size = r.size \div 2
      /\ q.idx = r.idx /\ q.from = r.from
  BY DEF ImportAt, IsImport, Fields, RetrySmaller
<1> HIDE DEF q
<1>2. BatchLen(r) \in Nat /\ r.size \in 1 .. BatchLen(r)
  BY SliceIsInserting DEF ImportAt
<1>3. q.size \in 1 .. BatchLen(r) /\ File(q) = File(r) /\ BatchLen(q) = BatchLen(r)
  BY <1>1, <1>2 DEF File, BatchLen
<1>4. ImportAt(q)
  BY <1>1, <1>3 DEF ImportAt
<1> QED BY <1>1, <1>4 DEF q, Through

-----------------------------------------------------------------------------
LEMMA InitStoreInv == Init => StoreInv
<1> SUFFICES ASSUME Init PROVE StoreInv
  OBVIOUS
<1> USE VulnDBAssumption
<1>1. DOMAIN vendor = {} /\ counter = 0 /\ Made = {} /\ imp = [m \in Importers |-> Idle]
      /\ trim = [t \in Trimmers |-> NoTrim]
  BY DEF Init, Made
<1>2. StoreRows
  BY <1>1 DEF Init, StoreRows, NoTrim
<1>3. Imports /\ AsFarAsThrough
  BY <1>1 DEF Imports, AsFarAsThrough
<1>4. PurgesOrphans /\ ReadyIsComplete
  BY <1>1 DEF PurgesOrphans, ReadyIsComplete
<1> QED BY <1>2, <1>3, <1>4 DEF StoreInv

(* A step of an importer that leaves the rows of vendor alone: it inserts the records at
   the positions in P, and has then been through just these in addition; or it gives up. *)
LEMMA ImportMoves ==
  ASSUME StoreInv, NEW m \in Importers, imp[m] # Idle, NEW q, NEW P,
         P \subseteq Positions(imp[m].files),
         \/ q = Idle /\ P = {}
         \/ /\ ImportAt(q) /\ q.version = imp[m].version /\ q.files = imp[m].files
            /\ \A p \in Positions(q.files) : Through(q, p) <=> Through(imp[m], p) \/ p \in P,
         data' = data \cup {<<imp[m].version, imp[m].files[p[1]][p[2]]>> : p \in P},
         imp' = [imp EXCEPT ![m] = q],
         UNCHANGED <<vendor, counter, old, trim, made>>, faults' \in 0 .. MaxFaults
  PROVE  StoreInv'
<1> DEFINE r == imp[m]
           v == r.version
           new == {<<v, r.files[p[1]][p[2]]>> : p \in P}
<1>1. ImportAt(r) /\ StoreRows /\ r.files \in Datasets /\ v \in Made /\ Made \subseteq Nat \ {0}
  BY ImportTyped DEF StoreInv, Imports, Made
<1>2. /\ imp' = [n \in Importers |-> imp'[n]] /\ imp'[m] = q
      /\ \A n \in Importers \ {m} : imp'[n] = imp[n]
  BY DEF StoreInv, Imports
<1>3. new \subseteq {v} \X Cves
  BY <1>1, FilesTyped
<1>4. \A n \in Importers \ {m} : imp[n].version # v
  BY DEF StoreInv, Imports
<1>5. Made' = Made /\ Idle.version = 0
  BY DEF Made, Idle
<1> HIDE DEF r, v, new
<1>6. data' = data \cup new
  BY DEF r, v, new
<1>7. StoreRows'
  BY <1>1, <1>3, <1>5, <1>6 DEF StoreRows
<1>8. Imports'
  <2>1. \A n \in Importers : (imp[n] = Idle \/ ImportAt(imp[n]))'
    <3> SUFFICES ASSUME NEW n \in Importers, imp'[n] # Idle PROVE ImportAt(imp[n])'
      OBVIOUS
    <3>1. CASE n = m
      BY <1>2, <1>5, <3>1 DEF ImportAt, IsImport, File, BatchLen
    <3>2. CASE n # m
      <4>1. imp'[n] = imp[n] /\ imp[n] # Idle
        BY <1>2, <3>2
      <4>2. ImportAt(imp[n])
        BY <4>1 DEF StoreInv, Imports
      <4> QED BY <1>5, <4>1, <4>2 DEF ImportAt
    <3> QED BY <3>1, <3>2
  <2> SUFFICES ASSUME NEW n \in Importers, imp'[n] # Idle
               PROVE  /\ imp'[n].version \in DOMAIN vendor => ~vendor[imp'[n].version].ready
                      /\ \A k \in Importers : imp'[k].version = imp'[n].version => k = n
    BY <1>2, <2>1 DEF Imports
  <2>2. imp[n] # Idle /\ imp'[n].version = imp[n].version /\ imp[n].version \in Made
    BY <1>1, <1>2 DEF StoreInv, Imports, ImportAt, r, v
  <2>3. \A k \in Importers : imp'[k].version \in {0, imp[k].version}
    BY <1>2, <1>5
  <2> QED BY <1>1, <2>2, <2>3 DEF StoreInv, Imports
<1>9. AsFarAsThrough'
  <2> SUFFICES ASSUME NEW n \in Importers, imp'[n] # Idle
               PROVE  LET x == imp'[n] IN
                      /\ x.version \in DOMAIN vendor =>
                           \A p \in Positions(x.files) :
                             Through(x, p) => <<x.version, x.files[p[1]][p[2]]>> \in data'
                      /\ \A d \in data' : d[1] = x.version =>
                           \E p \in Positions(x.files) : Through(x, p) /\ d[2] = x.files[p[1]][p[2]]
    BY DEF AsFarAsThrough
  <2>1. CASE n # m
    <3>1. imp'[n] = imp[n] /\ imp[n].version # v
      BY <1>2, <1>4, <2>1
    <3>2. \A d \in new : d[1] = v
      BY <1>3
    <3> DEFINE x == imp[n]
    <3>3. /\ x.version \in DOMAIN vendor =>
               \A p \in Positions(x.files) :
                 Through(x, p) => <<x.version, x.files[p[1]][p[2]]>> \in data
          /\ \A d \in data : d[1] = x.version =>
               \E p \in Positions(x.files) : Through(x, p) /\ d[2] = x.files[p[1]][p[2]]
      BY <3>1 DEF StoreInv, AsFarAsThrough
    <3> HIDE DEF x
    <3>4. imp'[n] = x /\ x.version # v
      BY <3>1 DEF x
    <3>5. \A d \in data' : d[1] = x.version => d \in data
      BY <1>6, <3>2, <3>4
    <3> QED BY <1>6, <3>3, <3>4, <3>5
  <2>2. CASE n = m
    <3>1. /\ imp'[n] = q /\ q.version = v /\ q.files = r.files
          /\ \A p \in Positions(r.files) : Through(q, p) <=> Through(r, p) \/ p \in P
      BY <1>2, <2>2 DEF r, v
    <3>2. \A p \in P : p \in Positions(r.files) /\ <<v, r.files[p[1]][p[2]]>> \in new
      BY DEF new, r
    <3>3. \A d \in new : \E p \in P : d[2] = r.files[p[1]][p[2]]
      BY DEF new
    <3>4. /\ v \in DOMAIN vendor =>
               \A p \in Positions(r.files) : Through(r, p) => <<v, r.files[p[1]][p[2]]>> \in data
          /\ \A d \in data : d[1] = v =>
               \E p \in Positions(r.files) : Through(r, p) /\ d[2] = r.files[p[1]][p[2]]
      BY DEF StoreInv, AsFarAsThrough, r, v
    <3>5. ASSUME v \in DOMAIN vendor, NEW p \in Positions(r.files), Through(q, p)
          PROVE  <<v, r.files[p[1]][p[2]]>> \in data'
      <4>1. Through(r, p) \/ p \in P
        BY <3>1, <3>5
      <4> QED BY <1>6, <3>2, <3>4, <3>5, <4>1
    <3>6. ASSUME NEW d \in data', d[1] = v
          PROVE  \E p \in Positions(r.files) : Through(q, p) /\ d[2] = r.files[p[1]][p[2]]
      <4>1. CASE d \in new
        BY <3>1, <3>2, <3>3, <4>1
      <4>2. CASE d \in data
        BY <3>1, <3>4, <3>6, <4>2
      <4> QED BY <1>6, <4>1, <4>2
    <3>7. /\ q.version \in DOMAIN vendor =>
               \A p \in Positions(q.files) : Through(q, p) => <<q.version, q.files[p[1]][p[2]]>> \in data'
          /\ \A d \in data' : d[1] = q.version =>
               \E p \in Positions(q.files) : Through(q, p) /\ d[2] = q.files[p[1]][p[2]]
      BY <3>1, <3>5, <3>6
    <3>8. imp'[n] = q
      BY <3>1
    <3> QED BY ONLY <3>7, <3>8
  <2> QED BY <2>1, <2>2
<1>10. PurgesOrphans'
  BY DEF StoreInv, PurgesOrphans
<1>11. ReadyIsComplete'
  <2> SUFFICES ASSUME NEW w \in DOMAIN vendor, vendor[w].ready PROVE Stored(w)' = Stored(w)
    BY DEF StoreInv, ReadyIsComplete
  <2>1. w # v
    BY DEF StoreInv, Imports, r, v
  <2> QED BY <1>3, <1>6, <2>1 DEF Stored
<1> QED BY <1>7, <1>8, <1>9, <1>10, <1>11 DEF StoreInv

LEMMA FaultTyped ==
  ASSUME StoreInv PROVE faults \in 0 .. MaxFaults /\ (Fault => faults' \in 0 .. MaxFaults)
BY VulnDBAssumption DEF StoreInv, StoreRows, Fault

LEMMA ImporterKeepsStore ==
  ASSUME StoreInv, NEW m \in Importers,
         LoadFile(m) \/ Replace(m) \/ ReplaceFails(m) \/ ImportFails(m)
  PROVE  StoreInv'
<1> DEFINE r == imp[m]
<1>1. r # Idle /\ ImportAt(r) /\ StoreRows
  BY DEF StoreInv, Imports, LoadFile, Replace, ReplaceFails, ImportFails, Idle
<1>2. UNCHANGED <<vendor, counter, old, trim, made>> /\ faults' \in 0 .. MaxFaults
  BY FaultTyped DEF LoadFile, Replace, ReplaceFails, ImportFails
<1>3. /\ data = data \cup {<<r.version, r.files[p[1]][p[2]]>> : p \in {}}
      /\ {} \subseteq Positions(r.files)
  OBVIOUS
<1>4. CASE LoadFile(m)
  <2>1. r.pc = "load" /\ data' = data
    BY <1>4 DEF LoadFile
  <2>2. \A p \in Positions(r.files) : Through(r, p) <=> p[1] < r.file
    BY <2>1 DEF Through
  <2>3. CASE Len(File(r)) = 0
    <3> DEFINE q == NextFile(r)
    <3>1. /\ ImportAt(q) /\ q.version = r.version /\ q.files = r.files
          /\ \A p \in Positions(r.files) : Through(q, p) <=> p[1] <= r.file
      BY <1>1, FileEnds
    <3>2. imp' = [imp EXCEPT ![m] = q]
      BY <1>4, <2>3 DEF LoadFile
    <3> HIDE DEF q
    <3>3. \A p \in Positions(r.files) : p[1] <= r.file <=> p[1] < r.file
      BY <1>1, <2>3, ImportTyped DEF Positions
    <3>4. /\ \A p \in Positions(q.files) : Through(q, p) <=> Through(r, p) \/ p \in {}
          /\ data' = data \cup {<<r.version, r.files[p[1]][p[2]]>> : p \in {}}
      BY <1>3, <2>1, <2>2, <3>1, <3>3
    <3> QED BY <1>1, <1>2, <1>3, <3>1, <3>2, <3>4, ImportMoves
  <2>4. CASE Len(File(r)) # 0
    <3> DEFINE q == StartBatch(r, 0)
    <3>1. /\ ImportAt(q) /\ q.version = r.version /\ q.files = r.files /\ q.file = r.file
          /\ q.pc = "insert" /\ q.start = 0 /\ q.idx = 0
      <4>1. 0 < Len(File(r))
        BY <1>1, <2>4, ImportTyped
      <4> QED BY <1>1, <4>1, BatchStarts
    <3>2. imp' = [imp EXCEPT ![m] = q]
      BY <1>4, <2>4 DEF LoadFile
    <3> HIDE DEF q
    <3>3. \A p \in Positions(r.files) : Through(q, p) <=> p[1] < r.file
      BY <3>1 DEF Through, Positions
    <3>4. /\ \A p \in Positions(q.files) : Through(q, p) <=> Through(r, p) \/ p \in {}
          /\ data' = data \cup {<<r.version, r.files[p[1]][p[2]]>> : p \in {}}
      BY <1>3, <2>1, <2>2, <3>1, <3>3
    <3> QED BY <1>1, <1>2, <1>3, <3>1, <3>2, <3>4, ImportMoves
  <2> QED BY <2>3, <2>4
<1>5. CASE Replace(m)
  <2> DEFINE q == AfterInsert(r)
  <2>1. r.pc = "insert" /\ data' = data \cup Slice(r) /\ imp' = [imp EXCEPT ![m] = q]
    BY <1>5 DEF Replace
  <2>2. /\ ImportAt(q) /\ q.version = r.version /\ q.files = r.files
        /\ \A p \in Positions(r.files) : Through(q, p) <=> Through(r, p) \/ p \in Inserting(r)
    BY <1>1, <2>1, InsertMoves
  <2>3. Slice(r) = {<<r.version, r.files[p[1]][p[2]]>> : p \in Inserting(r)}
    BY <1>1, <2>1, SliceIsInserting
  <2> HIDE DEF q
  <2>4. Inserting(r) \subseteq Positions(r.files)
    BY DEF Inserting
  <2> QED BY <1>1, <1>2, <2>1, <2>2, <2>3, <2>4, ImportMoves
<1>6. CASE ReplaceFails(m) \/ ImportFails(m)
  <2>1. data' = data
    BY <1>6 DEF ReplaceFails, ImportFails
  <2>2. CASE imp' = [imp EXCEPT ![m] = Idle]
    <3>1. data' = data \cup {<<r.version, r.files[p[1]][p[2]]>> : p \in {}}
      BY <1>3, <2>1
    <3> QED BY <1>1, <1>2, <1>3, <2>2, <3>1, ImportMoves
  <2>3. CASE r.pc = "insert" /\ r.size # 1 /\ imp' = [imp EXCEPT ![m] = RetrySmaller(r)]
    <3> DEFINE q == RetrySmaller(r)
    <3>1. /\ ImportAt(q) /\ q.version = r.version /\ q.files = r.files
          /\ \A p \in Positions(r.files) : Through(q, p) <=> Through(r, p)
      BY <1>1, <2>3, RetryStays
    <3>2. imp' = [imp EXCEPT ![m] = q]
      BY <2>3
    <3> HIDE DEF q
    <3>3. /\ \A p \in Positions(q.files) : Through(q, p) <=> Through(r, p) \/ p \in {}
          /\ data' = data \cup {<<r.version, r.files[p[1]][p[2]]>> : p \in {}}
      BY <1>3, <2>1, <3>1
    <3> QED BY <1>1, <1>2, <1>3, <3>1, <3>2, <3>3, ImportMoves
  <2> QED BY <1>6, <2>2, <2>3 DEF ReplaceFails, ImportFails
<1> QED BY <1>4, <1>5, <1>6

\* The row is new, and an import begins before its first file.
LEMMA NewVersionKeepsStore ==
  ASSUME StoreInv, NEW m \in Importers, NewVersion(m)
  PROVE  StoreInv'
<1> DEFINE c == counter + 1
           Entry == [provider : Providers, files : Datasets]
<1>1. PICK p \in Providers, d \in Datasets :
        /\ vendor' = [v \in DOMAIN vendor \cup {c} |-> IF v = c THEN NewRow(p) ELSE vendor[v]]
        /\ made' = Append(made, [provider |-> p, files |-> d])
        /\ imp' = [imp EXCEPT ![m] = [Idle EXCEPT !.pc = "load", !.version = c,
                                                 !.files = d, !.file = 1]]
  <2> DEFINE Makes(p, d, k) ==
               /\ vendor' = [v \in DOMAIN vendor \cup {k} |-> IF v = k THEN NewRow(p) ELSE vendor[v]]
               /\ made' = Append(made, [provider |-> p, files |-> d])
               /\ imp' = [imp EXCEPT ![m] = [Idle EXCEPT !.pc = "load", !.version = k,
                                                        !.files = d, !.file = 1]]
  <2>1. counter' = c /\ \E p \in Providers, d \in Datasets : Makes(p, d, counter')
    BY DEF NewVersion
  <2> HIDE DEF Makes
  <2>2. \E p \in Providers, d \in Datasets : Makes(p, d, c)
    BY <2>1
  <2> QED BY <2>2 DEF Makes
<1>2. /\ counter' = c /\ counter < MaxVersion /\ imp[m].pc = "idle"
      /\ UNCHANGED <<data, old, trim, faults>>
  BY DEF NewVersion
<1>3. counter \in Nat /\ c \in 1 .. MaxVersion /\ c \notin Made /\ Made' = Made \cup {c}
  BY <1>2, VulnDBAssumption DEF StoreInv, StoreRows, Made
<1>4. /\ made' \in Seq(Entry) /\ Len(made') = c /\ made'[c].files = d
      /\ \A v \in Made : made'[v] = made[v]
  <2>1. made \in Seq(Entry) /\ Len(made) = counter /\ [provider |-> p, files |-> d] \in Entry
    BY DEF StoreInv, StoreRows
  <2> HIDE DEF Entry
  <2> QED BY <1>1, <1>3, <2>1 DEF Made
<1>5. /\ imp' = [n \in Importers |-> imp'[n]] /\ \A n \in Importers \ {m} : imp'[n] = imp[n]
      /\ IsImport(imp'[m]) /\ imp'[m].version = c /\ imp'[m].files = d
      /\ imp'[m].file = 1 /\ imp'[m].pc = "load"
  BY <1>1 DEF StoreInv, Imports, IsImport, Fields, Idle
<1>6. /\ DOMAIN vendor' = DOMAIN vendor \cup {c} /\ DOMAIN vendor \subseteq Made
      /\ \A v \in DOMAIN vendor : vendor'[v] = vendor[v]
      /\ vendor'[c] = [provider |-> p, ready |-> FALSE]
      /\ vendor' = [v \in DOMAIN vendor' |-> vendor'[v]]
  BY <1>1, <1>3 DEF NewRow, StoreInv, StoreRows
<1> HIDE DEF c
<1>7. StoreRows'
  <2>1. \A v \in DOMAIN vendor' : vendor'[v] \in [provider : Providers, ready : BOOLEAN]
    <3>1. vendor'[c] \in [provider : Providers, ready : BOOLEAN]
      BY <1>6
    <3> QED BY <1>6, <3>1 DEF StoreInv, StoreRows
  <2>2. counter' \in 0 .. MaxVersion
    BY <1>2, <1>3
  <2>3. data' \subseteq Made' \X Cves /\ old' \subseteq Made' /\ DOMAIN vendor' \subseteq Made'
        /\ trim' \in [Trimmers -> [pc : {"idle", "delete", "orphans", "purge"},
                                   versions : SUBSET Made']]
    BY <1>2, <1>3, <1>6 DEF StoreInv, StoreRows
  <2> QED BY <1>2, <1>4, <1>6, <2>1, <2>2, <2>3 DEF StoreInv, StoreRows
<1>8. \A n \in Importers : (imp[n] = Idle \/ ImportAt(imp[n]))'
  <2> SUFFICES ASSUME NEW n \in Importers, imp'[n] # Idle PROVE ImportAt(imp[n])'
    OBVIOUS
  <2>1. CASE n = m
    <3>1. imp'[m].file \in 1 .. Len(imp'[m].files)
      BY <1>5, FilesTyped
    <3>2. imp'[m].pc \in {"load", "insert", "enable"} /\ imp'[m].pc # "insert"
          /\ imp'[m].version \in Made' /\ imp'[m].files = made'[imp'[m].version].files
      BY <1>3, <1>4, <1>5
    <3> QED BY <1>5, <2>1, <3>1, <3>2 DEF ImportAt
  <2>2. CASE n # m
    <3>1. imp'[n] = imp[n] /\ imp[n] # Idle
      BY <1>5, <2>2
    <3>2. ImportAt(imp[n])
      BY <3>1 DEF StoreInv, Imports
    <3>3. made'[imp[n].version] = made[imp[n].version] /\ imp[n].version \in Made'
      BY <1>3, <1>4, <3>2 DEF ImportAt
    <3> QED BY <3>1, <3>2, <3>3 DEF ImportAt
  <2> QED BY <2>1, <2>2
<1>9. \A n \in Importers : imp[n].version \in Made \cup {0} /\ (imp[n] # Idle => imp[n].version \in Made)
  BY DEF StoreInv, Imports, ImportAt, Idle
<1>10. c # 0 /\ imp'[m] # Idle
  BY <1>3, <1>5 DEF Idle
<1>11. Imports'
  <2>1. \A n \in Importers : imp'[n].version = c <=> n = m
    BY <1>3, <1>5, <1>9, <1>10
  <2> SUFFICES ASSUME NEW n \in Importers, imp'[n] # Idle
               PROVE  /\ imp'[n].version \in DOMAIN vendor' => ~vendor'[imp'[n].version].ready
                      /\ \A k \in Importers : imp'[k].version = imp'[n].version => k = n
    BY <1>5, <1>8 DEF Imports
  <2>2. CASE n = m
    BY <1>5, <1>6, <2>1, <2>2
  <2>3. CASE n # m
    BY <1>3, <1>5, <1>6, <1>9, <2>1, <2>3 DEF StoreInv, Imports
  <2> QED BY <2>2, <2>3
<1>12. AsFarAsThrough'
  <2>1. \A q \in Positions(d) : ~Through(imp'[m], q)
    BY <1>5 DEF Through, Positions
  <2>2. \A e \in data : e[1] # c
    BY <1>3 DEF StoreInv, StoreRows
  <2> SUFFICES ASSUME NEW n \in Importers, imp'[n] # Idle
               PROVE  LET x == imp'[n] IN
                      /\ x.version \in DOMAIN vendor' =>
                           \A q \in Positions(x.files) :
                             Through(x, q) => <<x.version, x.files[q[1]][q[2]]>> \in data
                      /\ \A e \in data : e[1] = x.version =>
                           \E q \in Positions(x.files) : Through(x, q) /\ e[2] = x.files[q[1]][q[2]]
    BY <1>2 DEF AsFarAsThrough
  <2>3. CASE n = m
    BY <1>5, <2>1, <2>2, <2>3
  <2>4. CASE n # m
    <3>1. imp'[n] = imp[n] /\ imp[n].version \in Made
      BY <1>5, <1>9, <2>4
    <3>2. imp[n].version \in DOMAIN vendor' => imp[n].version \in DOMAIN vendor
      BY <1>3, <1>6, <3>1
    <3> QED BY <3>1, <3>2 DEF StoreInv, AsFarAsThrough
  <2> QED BY <2>3, <2>4
<1>13. PurgesOrphans'
  BY <1>2, <1>3, <1>6 DEF StoreInv, StoreRows, PurgesOrphans
<1>14. ReadyIsComplete'
  <2> SUFFICES ASSUME NEW v \in DOMAIN vendor', vendor'[v].ready
               PROVE  Stored(v)' = CvesOf(made'[v].files)
    BY DEF ReadyIsComplete
  <2>1. v \in DOMAIN vendor /\ vendor[v].ready /\ made'[v] = made[v]
    BY <1>4, <1>6
  <2> QED BY <1>2, <2>1 DEF StoreInv, ReadyIsComplete, Stored
<1> QED BY <1>7, <1>11, <1>12, <1>13, <1>14 DEF StoreInv

\* The import has been through everything when it makes its version ready.
LEMMA EnableKeepsStore ==
  ASSUME StoreInv, NEW m \in Importers, Enable(m)
  PROVE  StoreInv'
<1> DEFINE r == imp[m]
           v == r.version
<1>1. /\ r.pc = "enable" /\ imp' = [imp EXCEPT ![m] = Idle]
      /\ UNCHANGED <<data, counter, old, trim, faults, made>>
  BY DEF Enable
<1>2. r # Idle /\ ImportAt(r) /\ StoreRows
  BY <1>1 DEF StoreInv, Imports, Idle
<1>3. CASE v \notin DOMAIN vendor
  <2>1. vendor' = vendor /\ faults' \in 0 .. MaxFaults
        /\ data' = data \cup {<<r.version, r.files[p[1]][p[2]]>> : p \in {}}
        /\ {} \subseteq Positions(r.files)
    BY <1>1, <1>3, FaultTyped DEF Enable
  <2> QED BY <1>1, <1>2, <2>1, ImportMoves
<1>4. CASE v \in DOMAIN vendor
  <2>1. /\ DOMAIN vendor' = DOMAIN vendor /\ vendor' = [w \in DOMAIN vendor' |-> vendor'[w]]
        /\ \A w \in DOMAIN vendor \ {v} : vendor'[w] = vendor[w]
        /\ vendor'[v] = [provider |-> vendor[v].provider, ready |-> TRUE]
    BY <1>4 DEF Enable, StoreInv, StoreRows
  <2>2. /\ imp' = [n \in Importers |-> imp'[n]] /\ imp'[m] = Idle
        /\ \A n \in Importers \ {m} : imp'[n] = imp[n] /\ imp[n].version # v
    BY <1>1, <1>2 DEF StoreInv, Imports
  <2>3. /\ r.files \in Datasets /\ r.files = made[v].files /\ v # 0 /\ Idle.version = 0
        /\ Made' = Made
    BY <1>1, <1>2, ImportTyped DEF ImportAt, Made, Idle
  <2>4. Stored(v) = CvesOf(made[v].files)
    <3>1. \A p \in Positions(r.files) : Through(r, p)
      BY <1>1 DEF Through
    <3>2. /\ \A p \in Positions(r.files) : <<v, r.files[p[1]][p[2]]>> \in data
          /\ \A d \in data : d[1] = v => \E p \in Positions(r.files) : d[2] = r.files[p[1]][p[2]]
      BY <1>2, <1>4, <3>1 DEF StoreInv, AsFarAsThrough
    <3>3. /\ CvesOf(r.files) = {r.files[p[1]][p[2]] : p \in Positions(r.files)}
          /\ CvesOf(r.files) \subseteq Cves
      BY <2>3, FilesTyped
    <3> HIDE DEF v, r
    <3>4. \A c : <<v, c>>[1] = v /\ <<v, c>>[2] = c
      OBVIOUS
    <3> QED BY <2>3, <3>2, <3>3, <3>4 DEF Stored
  <2> HIDE DEF v, r
  <2>5. StoreRows'
    <3>1. \A w \in DOMAIN vendor' : vendor'[w] \in [provider : Providers, ready : BOOLEAN]
      <4>1. vendor[v] \in [provider : Providers, ready : BOOLEAN]
        BY <1>2, <1>4 DEF StoreRows
      <4>2. vendor'[v] \in [provider : Providers, ready : BOOLEAN]
        BY <2>1, <4>1
      <4> QED BY <1>2, <2>1, <4>2 DEF StoreRows
    <3> QED BY <1>1, <1>2, <2>1, <2>3, <3>1 DEF StoreRows
  <2>6. \A n \in Importers : (imp[n] = Idle \/ ImportAt(imp[n]))'
    <3> SUFFICES ASSUME NEW n \in Importers, imp'[n] # Idle PROVE ImportAt(imp[n])'
      OBVIOUS
    <3>1. imp'[n] = imp[n] /\ imp[n] # Idle
      BY <2>2
    <3>2. ImportAt(imp[n])
      BY <3>1 DEF StoreInv, Imports
    <3> QED BY <1>1, <2>3, <3>1, <3>2 DEF ImportAt
  <2>7. Imports'
    <3> SUFFICES ASSUME NEW n \in Importers, imp'[n] # Idle
                 PROVE  /\ imp'[n].version \in DOMAIN vendor' => ~vendor'[imp'[n].version].ready
                        /\ \A k \in Importers : imp'[k].version = imp'[n].version => k = n
      BY <2>2, <2>6 DEF Imports
    <3>1. imp'[n] = imp[n] /\ n # m /\ imp[n].version # v /\ imp[n] # Idle
      BY <2>2
    <3>2. imp[n].version # 0
      BY <3>1 DEF StoreInv, Imports, ImportAt, Made
    <3> QED BY <2>1, <2>2, <2>3, <3>1, <3>2 DEF StoreInv, Imports
  <2>8. AsFarAsThrough'
    BY <1>1, <2>1, <2>2 DEF StoreInv, AsFarAsThrough
  <2>9. PurgesOrphans'
    BY <1>1, <2>1 DEF StoreInv, PurgesOrphans
  <2>10. ReadyIsComplete'
    <3> SUFFICES ASSUME NEW w \in DOMAIN vendor', vendor'[w].ready
                 PROVE  Stored(w)' = CvesOf(made[w].files)
      BY <1>1 DEF ReadyIsComplete
    <3>1. Stored(w)' = Stored(w)
      BY <1>1 DEF Stored
    <3> QED BY <2>1, <2>4, <3>1 DEF StoreInv, ReadyIsComplete
  <2> QED BY <2>5, <2>7, <2>8, <2>9, <2>10 DEF StoreInv
<1> QED BY <1>3, <1>4

\* What neither imports nor removes, as long as it purges only what has no row.
LEMMA TrimStepKeepsStore ==
  ASSUME StoreInv, UNCHANGED <<counter, imp, made>>, faults' \in 0 .. MaxFaults, old' \subseteq Made,
         DOMAIN vendor' \subseteq DOMAIN vendor, vendor' = [v \in DOMAIN vendor' |-> vendor[v]],
         data' \subseteq data, \A d \in data : d[1] \in DOMAIN vendor' => d \in data',
         trim' \in [Trimmers -> [pc : {"idle", "delete", "orphans", "purge"},
                                versions : SUBSET Made]],
         PurgesOrphans'
  PROVE  StoreInv'
<1>1. Made' = Made /\ \A v \in DOMAIN vendor' : vendor'[v] = vendor[v]
  BY DEF Made
<1>2. StoreRows'
  BY <1>1 DEF StoreInv, StoreRows
<1>3. Imports'
  <2>1. \A n \in Importers : (imp[n] = Idle \/ ImportAt(imp[n]))'
    BY <1>1 DEF StoreInv, Imports, ImportAt
  <2> QED BY <1>1, <2>1 DEF StoreInv, Imports
<1>4. AsFarAsThrough'
  <2> SUFFICES ASSUME NEW m \in Importers, imp[m] # Idle
               PROVE  LET r == imp[m] IN
                      /\ r.version \in DOMAIN vendor' =>
                           \A p \in Positions(r.files) :
                             Through(r, p) => <<r.version, r.files[p[1]][p[2]]>> \in data'
                      /\ \A d \in data' : d[1] = r.version =>
                           \E p \in Positions(r.files) : Through(r, p) /\ d[2] = r.files[p[1]][p[2]]
    BY DEF AsFarAsThrough
  <2>1. \A c : <<imp[m].version, c>>[1] = imp[m].version
    OBVIOUS
  <2> QED BY <2>1 DEF StoreInv, AsFarAsThrough
<1>5. ReadyIsComplete'
  <2> SUFFICES ASSUME NEW v \in DOMAIN vendor', vendor[v].ready
               PROVE  Stored(v)' = CvesOf(made[v].files)
    BY <1>1 DEF ReadyIsComplete
  <2>1. Stored(v)' = Stored(v)
    BY DEF Stored
  <2> QED BY <2>1 DEF StoreInv, ReadyIsComplete
<1> QED BY <1>2, <1>3, <1>4, <1>5 DEF StoreInv

LEMMA TrimmerKeepsStore ==
  ASSUME StoreInv, NEW t \in Trimmers,
         SelectVersions(t) \/ Purge(t) \/ TrimFails(t)
  PROVE  StoreInv'
<1> DEFINE Typed == [pc : {"idle", "delete", "orphans", "purge"}, versions : SUBSET Made]
<1>1. /\ trim \in [Trimmers -> Typed] /\ DOMAIN vendor \subseteq Made /\ old \subseteq Made
      /\ vendor = [v \in DOMAIN vendor |-> vendor[v]] /\ data \subseteq Made \X Cves
      /\ PurgesOrphans
  BY DEF StoreInv, StoreRows
<1>2. /\ UNCHANGED <<counter, imp, made, old>> /\ faults' \in 0 .. MaxFaults
  BY FaultTyped DEF SelectVersions, Purge, DeleteVendors, SelectOrphans, PurgeSome, PurgeDone,
                    TrimFails
<1>3. CASE PurgeSome(t)
  <2>1. /\ UNCHANGED <<vendor, trim>> /\ trim[t].pc = "purge" /\ data' \subseteq data
        /\ \A d \in data \ data' : d[1] \in trim[t].versions
    BY <1>3 DEF PurgeSome
  <2>2. \A d \in data : d[1] \in DOMAIN vendor' => d \in data'
    BY <1>1, <2>1 DEF PurgesOrphans
  <2>3. PurgesOrphans'
    BY <1>1, <2>1 DEF PurgesOrphans
  <2> QED BY <1>1, <1>2, <2>1, <2>2, <2>3, TrimStepKeepsStore
<1>4. CASE DeleteVendors(t)
  <2>1. /\ DOMAIN vendor' = DOMAIN vendor \ trim[t].versions /\ data' = data
        /\ vendor' = [v \in DOMAIN vendor' |-> vendor[v]]
        /\ trim' = [trim EXCEPT ![t] = [pc |-> "orphans", versions |-> {}]]
    BY <1>4 DEF DeleteVendors
  <2>2. trim' \in [Trimmers -> Typed] /\ PurgesOrphans'
    BY <1>1, <2>1 DEF PurgesOrphans
  <2> QED BY <1>1, <1>2, <2>1, <2>2, TrimStepKeepsStore
<1>5. CASE \/ SelectVersions(t) \/ SelectOrphans(t) \/ PurgeDone(t) \/ TrimFails(t)
  <2>1. UNCHANGED <<vendor, data>>
    BY <1>5 DEF SelectVersions, SelectOrphans, PurgeDone, TrimFails
  <2>2. PICK r \in Typed : /\ trim' = [trim EXCEPT ![t] = r]
                           /\ r.pc = "purge" => r.versions \cap DOMAIN vendor = {}
    <3>1. NoTrim \in Typed /\ NoTrim.pc # "purge"
      BY DEF NoTrim
    <3>2. CASE SelectVersions(t)
      <4>1. PICK filter, all :
              trim' = [trim EXCEPT ![t] = [pc |-> "delete", versions |-> Deletable(filter, all)]]
        BY <3>2 DEF SelectVersions
      <4>2. Deletable(filter, all) \subseteq Made
        BY <1>1 DEF Deletable
      <4>3. [pc |-> "delete", versions |-> Deletable(filter, all)] \in Typed
        BY <4>2
      <4> QED BY <4>1, <4>3
    <3>3. CASE SelectOrphans(t)
      <4> DEFINE found == {v \in Orphans : \E d \in data : d[1] = v}
      <4>1. trim' = [trim EXCEPT ![t] = IF found = {} THEN NoTrim
                                        ELSE [pc |-> "purge", versions |-> found]]
        BY <3>3 DEF SelectOrphans
      <4>2. found \subseteq Made /\ found \cap DOMAIN vendor = {}
        BY <1>1 DEF Orphans
      <4> HIDE DEF found
      <4>3. [pc |-> "purge", versions |-> found] \in Typed
        BY <4>2
      <4> HIDE DEF Typed
      <4>4. CASE found = {}
        BY <3>1, <4>1, <4>4
      <4>5. CASE found # {}
        BY <4>1, <4>2, <4>3, <4>5
      <4> QED BY <4>4, <4>5
    <3> QED BY <1>5, <3>1, <3>2, <3>3 DEF PurgeDone, TrimFails
  <2>3. trim' \in [Trimmers -> Typed] /\ PurgesOrphans'
    BY <1>1, <2>1, <2>2 DEF PurgesOrphans
  <2> QED BY <1>1, <1>2, <2>1, <2>3, TrimStepKeepsStore
<1> QED BY <1>3, <1>4, <1>5 DEF Purge

LEMMA AgeKeepsStore ==
  ASSUME StoreInv, Age \/ UNCHANGED vars
  PROVE  StoreInv'
<1>1. UNCHANGED <<vendor, data, counter, imp, trim, faults, made>> /\ old' \subseteq Made
  BY DEF StoreInv, StoreRows, Age, vars
<1>2. PurgesOrphans' /\ faults' \in 0 .. MaxFaults
  BY <1>1, FaultTyped DEF StoreInv, PurgesOrphans
<1> QED BY <1>1, <1>2, TrimStepKeepsStore DEF StoreInv, StoreRows

LEMMA NextStoreInv == StoreInv /\ [Next]_vars => StoreInv'
BY ImporterKeepsStore, NewVersionKeepsStore, EnableKeepsStore, TrimmerKeepsStore,
   AgeKeepsStore DEF Next, Import

LEMMA AlwaysStoreInv == Spec => []StoreInv
BY InitStoreInv, NextStoreInv, PTL DEF Spec

(* ImportFiles, exportVendorData and the trimmer, whatever runs beside them and however
   long imports take: a version that is ready has all of its dataset and nothing else.  *)
THEOREM ReadyVersionsAreComplete == Spec => []ReadyIsComplete
<1>1. StoreInv => ReadyIsComplete
  BY DEF StoreInv
<1> QED BY <1>1, AlwaysStoreInv, PTL

(* In every state the tables name versions that were made and positions stay in the files,
   ready versions are complete, and, if no dataset names a CVE twice, the statement to
   come inserts nothing that an earlier one, or its own failed attempt, has inserted.   *)
THEOREM StoreIsSound ==
  ASSUME NoCveTwice
  PROVE  Spec => []Inv
<1>1. StoreInv => TypeOK
  <2> SUFFICES ASSUME StoreInv PROVE TypeOK
    OBVIOUS
  <2>1. /\ counter \in 0 .. MaxVersion /\ faults \in 0 .. MaxFaults /\ counter \in Nat
        /\ DOMAIN vendor \subseteq 1 .. counter /\ data \subseteq (1 .. counter) \X Cves
        /\ \A v \in DOMAIN vendor : vendor[v] \in [provider : Providers, ready : BOOLEAN]
        /\ Len(made) = counter
        /\ \A t \in Trimmers : /\ trim[t].pc \in {"idle", "delete", "orphans", "purge"}
                               /\ trim[t].versions \subseteq 1 .. counter
    BY VulnDBAssumption DEF StoreInv, StoreRows, Made
  <2>2. old \subseteq Versions
    BY <2>1, VulnDBAssumption DEF StoreInv, StoreRows, Made, Versions
  <2>3. ASSUME NEW m \in Importers
        PROVE  LET r == imp[m] IN
               /\ r.pc \in {"idle", "load", "insert", "enable"}
               /\ r.pc = "insert" => /\ r.start < Len(File(r)) /\ r.size \in 1 .. BatchLen(r)
                                     /\ r.from <= r.idx /\ r.idx < BatchLen(r)
    BY DEF StoreInv, Imports, ImportAt, Idle
  <2> QED BY <2>1, <2>2, <2>3 DEF TypeOK
<1>2. StoreInv => NothingTwice
  <2> SUFFICES ASSUME StoreInv, NEW m \in Importers, imp[m].pc = "insert",
                      NEW d \in Slice(imp[m]), d \in data
               PROVE  FALSE
    BY DEF NothingTwice
  <2> DEFINE r == imp[m]
  <2>1. r # Idle /\ ImportAt(r) /\ StoreRows /\ r.files \in Datasets
    BY ImportTyped DEF StoreInv, Imports, Idle
  <2>2. PICK p \in Inserting(r) : d = <<r.version, r.files[p[1]][p[2]]>>
    BY <2>1, SliceIsInserting
  <2>3. PICK q \in Positions(r.files) : Through(r, q) /\ d[2] = r.files[q[1]][q[2]]
    BY <2>1, <2>2 DEF StoreInv, AsFarAsThrough
  <2>4. p = q
    BY <2>1, <2>2, <2>3 DEF NoCveTwice, Inserting
  <2>5. r.start \in Nat /\ r.idx \in Nat /\ r.file \in Nat
    BY <2>1, ImportTyped DEF ImportAt
  <2> QED BY <2>2, <2>3, <2>4, <2>5 DEF Through, Inserting, Positions
<1> QED BY <1>1, <1>2, AlwaysStoreInv, PTL DEF Inv, StoreInv

-----------------------------------------------------------------------------
(* The refinement.  What is exported for a provider is its latest ready version.      *)
Exported(p, v) == v \in Latest(p) /\ View[p] = [version |-> v, cves |-> CvesOf(made[v].files)]
LatestIsExported == \A p \in Providers : \A v \in Latest(p) : Exported(p, v) /\ v \in Made

LEMMA ViewOfLatest == StoreInv => LatestIsExported
<1> SUFFICES ASSUME StoreInv, NEW p \in Providers, NEW v \in Latest(p)
             PROVE  Exported(p, v) /\ v \in Made
  BY DEF LatestIsExported
<1>1. v \in Ready(p) /\ \A w \in Latest(p) : w = v
  <2>1. Ready(p) \subseteq Nat
    BY DEF Ready, StoreInv, StoreRows, Made
  <2> QED BY <2>1 DEF Latest
<1>2. v \in DOMAIN vendor /\ vendor[v].ready /\ v \in Made
  BY <1>1 DEF Ready, StoreInv, StoreRows
<1>3. Stored(v) = CvesOf(made[v].files)
  BY <1>2 DEF StoreInv, ReadyIsComplete
<1>4. (CHOOSE w \in Latest(p) : TRUE) = v
  BY <1>1
<1> QED BY <1>1, <1>2, <1>3, <1>4 DEF Exported, View

LEMMA ViewOfNothing ==
  ASSUME NEW p \in Providers, Ready(p) = {}
  PROVE  View[p] = Store!NoData
BY DEF View, Store!NoData

\* As long as the ready versions of a provider keep their latest, it is what is exported.
LEMMA ViewStays ==
  ASSUME StoreInv, StoreInv', TrimInv, TrimInv', NEW p \in Providers,
         Ready(p)' \subseteq Ready(p), Latest(p) \subseteq Ready(p)',
         \A v \in Made : made'[v] = made[v]
  PROVE  View'[p] = View[p]
<1>1. CASE Ready(p) = {}
  <2>1. Ready(p)' = {}
    BY <1>1
  <2> QED BY <1>1, <2>1 DEF View
<1>2. CASE Ready(p) # {}
  <2>1. PICK v \in Latest(p) : TRUE
    BY <1>2 DEF TrimInv, HasLatest
  <2>2. v \in Latest(p)'
    BY <2>1 DEF Latest
  <2>3. View[p] = [version |-> v, cves |-> CvesOf(made[v].files)] /\ v \in Made
    BY <2>1, ViewOfLatest DEF LatestIsExported, Exported
  <2>4. View'[p] = [version |-> v, cves |-> CvesOf(made'[v].files)]
    <3>1. LatestIsExported'
      BY ViewOfLatest, PTL
    <3>2. Exported(p, v)'
      BY <2>2, <3>1 DEF LatestIsExported
    <3> QED BY <3>2 DEF Exported
  <2> QED BY <2>3, <2>4
<1> QED BY <1>1, <1>2

\* Steps that leave the ready versions as they are.
LEMMA StoreUnmoved ==
  ASSUME StoreInv, StoreInv', TrimInv, TrimInv', \A v \in Made : made'[v] = made[v],
         DOMAIN vendor \subseteq DOMAIN vendor',
         \A v \in DOMAIN vendor : vendor'[v] = vendor[v],
         \A v \in DOMAIN vendor' \ DOMAIN vendor : ~vendor'[v].ready
  PROVE  View' = View
<1>1. ASSUME NEW p \in Providers PROVE View'[p] = View[p]
  <2>1. Ready(p)' = Ready(p)
    BY DEF Ready
  <2>2. Latest(p) \subseteq Ready(p)'
    BY <2>1 DEF Latest
  <2> QED BY <2>1, <2>2, ViewStays
<1> QED BY <1>1 DEF View

LEMMA DeleteUnmoved ==
  ASSUME StoreInv, StoreInv', TrimInv, TrimInv', NEW t \in Trimmers, DeleteVendors(t)
  PROVE  View' = View
<1>1. ASSUME NEW p \in Providers PROVE View'[p] = View[p]
  <2>1. /\ made' = made /\ DOMAIN vendor' \subseteq DOMAIN vendor
        /\ \A v \in DOMAIN vendor' : vendor'[v] = vendor[v]
    BY DEF DeleteVendors
  <2>2. Ready(p)' \subseteq Ready(p)
    BY <2>1 DEF Ready
  <2>3. Latest(p) \subseteq Ready(p)'
    BY <2>1, DeleteSparesLatest DEF Latest, Ready
  <2> QED BY <2>1, <2>2, <2>3, ViewStays
<1> QED BY <1>1 DEF View

\* A version that becomes ready is published, unless a newer one is ready already.
LEMMA EnablePublishes ==
  ASSUME StoreInv, StoreInv', TrimInv, TrimInv', NEW m \in Importers, Enable(m)
  PROVE  View' = View \/ \E p \in Providers : Store!Publish(p)
<1>1. made' = made /\ Made' = Made
  BY DEF Enable, Made
<1>2. CASE imp[m].version \notin DOMAIN vendor
  BY <1>1, <1>2, StoreUnmoved DEF Enable
<1>3. CASE imp[m].version \in DOMAIN vendor
  <2>0. PICK c, p : c = imp[m].version /\ p = vendor[c].provider /\ c \in DOMAIN vendor
    BY <1>3
  <2>1. /\ DOMAIN vendor' = DOMAIN vendor
        /\ \A v \in DOMAIN vendor \ {c} : vendor'[v] = vendor[v]
        /\ vendor'[c] = [provider |-> p, ready |-> TRUE]
    <3>1. vendor' = [vendor EXCEPT ![c].ready = TRUE]
      BY <1>3, <2>0 DEF Enable
    <3>2. vendor[c] \in [provider : Providers, ready : BOOLEAN]
      BY <2>0 DEF StoreInv, StoreRows
    <3> QED BY <2>0, <3>1, <3>2
  <2>2. p \in Providers /\ c \in Made /\ Made \subseteq Nat \ {0} /\ ~vendor[c].ready
    <3>1. imp[m] # Idle
      BY DEF Enable, Idle
    <3>2. ImportAt(imp[m])
      BY <3>1 DEF StoreInv, Imports
    <3> QED BY <2>0, <3>1, <3>2 DEF StoreInv, StoreRows, Imports, ImportAt, Made
  <2>3. /\ \A q \in Providers \ {p} : Ready(q)' = Ready(q)
        /\ Ready(p)' = Ready(p) \cup {c} /\ c \notin Ready(p) /\ Ready(p) \subseteq Made
    <3>1. ASSUME NEW q \in Providers \ {p} PROVE Ready(q)' = Ready(q)
      BY <2>0, <2>1, <2>2 DEF Ready
    <3>2. Ready(p)' = Ready(p) \cup {c}
      BY <2>0, <2>1 DEF Ready
    <3>3. c \notin Ready(p) /\ Ready(p) \subseteq Made
      BY <2>2 DEF Ready, StoreInv, StoreRows
    <3> QED BY <3>1, <3>2, <3>3
  <2>4. ASSUME NEW q \in Providers \ {p} PROVE View'[q] = View[q]
    BY <1>1, <2>3, <2>4, ViewStays DEF Latest
  <2>nat. c \in Nat \ {0} /\ Ready(p) \subseteq Nat \ {0} /\ Ready(p)' = Ready(p) \cup {c}
    BY <2>2, <2>3
  <2>5. CASE \E w \in Ready(p) : w > c
    <3>1. PICK w \in Ready(p) : w > c
      BY <2>5
    <3>2. PICK l \in Latest(p) : TRUE
      BY <2>2, <3>1 DEF TrimInv, HasLatest
    <3>3. l \in Ready(p) /\ l > c /\ \A x \in Ready(p) : x <= l
      BY <2>nat, <3>1, <3>2 DEF Latest
    <3>4. l \in Latest(p)'
      BY <2>nat, <3>3 DEF Latest
    <3>5. View'[p] = View[p]
      <4>1. LatestIsExported'
        BY ViewOfLatest, PTL
      <4>2. Exported(p, l) /\ Exported(p, l)'
        BY <2>2, <3>2, <3>4, <4>1, ViewOfLatest DEF LatestIsExported
      <4> QED BY <1>1, <4>2 DEF Exported
    <3> QED BY <2>4, <3>5 DEF View
  <2>6. CASE \A w \in Ready(p) : ~(w > c)
    <3> DEFINE new == [version |-> c, cves |-> CvesOf(made[c].files)]
    <3>1. c \in Latest(p)'
      BY <2>nat, <2>6 DEF Latest
    <3>2. View'[p] = new
      <4>1. LatestIsExported'
        BY ViewOfLatest, PTL
      <4>2. Exported(p, c)'
        BY <2>2, <3>1, <4>1 DEF LatestIsExported
      <4> QED BY <1>1, <4>2 DEF Exported
    <3>3. View[p].version < c
      <4>1. CASE Ready(p) = {}
        BY <2>2, <4>1 DEF View
      <4>2. CASE Ready(p) # {}
        <5>1. PICK l \in Latest(p) : TRUE
          BY <2>2, <4>2 DEF TrimInv, HasLatest
        <5>2. Exported(p, l) /\ l \in Ready(p)
          BY <2>2, <5>1, ViewOfLatest DEF LatestIsExported, Latest
        <5>3. View[p].version = l
          BY <5>2 DEF Exported
        <5>4. l \in Nat /\ ~(l > c) /\ l # c
          BY <2>nat, <2>3, <2>6, <5>2
        <5> QED BY <2>nat, <5>3, <5>4
      <4> QED BY <4>1, <4>2
    <3>4. new \in [version : Versions, cves : {CvesOf(d) : d \in Datasets}]
      <4> DEFINE Entry == [provider : Providers, files : Datasets]
      <4>1. made \in Seq(Entry) /\ c \in 1 .. Len(made) /\ c \in Versions
        BY <2>2, VulnDBAssumption DEF StoreInv, StoreRows, Made, Versions
      <4> HIDE DEF Entry
      <4>2. made[c] \in Entry
        BY <4>1
      <4> QED BY <4>1, <4>2 DEF Entry
    <3>5. View' = [View EXCEPT ![p] = new]
      <4>1. View' = [q \in Providers |-> View'[q]] /\ View = [q \in Providers |-> View[q]]
        BY DEF View
      <4> HIDE DEF new
      <4> QED BY <2>2, <2>4, <3>2, <4>1
    <3>6. Store!Publish(p)
      <4> HIDE DEF new
      <4>1. new.version > View[p].version
        BY <2>2, <3>3 DEF new
      <4> QED BY <3>4, <3>5, <4>1 DEF Store!Publish
    <3> QED BY <2>2, <3>6
  <2> QED BY <2>5, <2>6
<1> QED BY <1>2, <1>3

(* Importers, trimmers that spare the latest, faults and abandoned imports together keep
   the promise of VendorStore: of every provider those who export see one complete dataset,
   which only gives way to a newer complete one, as long as imports end within a day.   *)
THEOREM StoreKeepsPromise ==
  ASSUME ImportsEndInADay, TrimsAreDefault
  PROVE  Spec => KeepsPromise
<1> DEFINE IInv == StoreInv /\ TrimInv
<1>1. Init => Store!VInit
  <2> SUFFICES ASSUME Init PROVE Store!VInit
    OBVIOUS
  <2>1. \A p \in Providers : Ready(p) = {}
    BY DEF Init, Ready
  <2> QED BY <2>1 DEF View, Store!VInit, Store!NoData
<1>2. IInv /\ IInv' /\ [Next]_vars => [Store!VNext]_View
  <2> SUFFICES ASSUME IInv, IInv', [Next]_vars
               PROVE  View' = View \/ \E p \in Providers : Store!Publish(p)
    BY DEF Store!VNext
  <2>1. \A v \in Made : made[v] = made[v] /\ v \in Nat /\ v \in 1 .. Len(made)
    BY DEF StoreInv, StoreRows, Made
  <2>2. ASSUME NEW m \in Importers, NewVersion(m) PROVE View' = View
    <3>1. PICK p \in Providers, d \in Datasets :
            /\ vendor' = [v \in DOMAIN vendor \cup {counter'} |->
                            IF v = counter' THEN NewRow(p) ELSE vendor[v]]
            /\ made' = Append(made, [provider |-> p, files |-> d]) /\ counter' = counter + 1
      BY <2>2 DEF NewVersion
    <3>2. counter' \notin DOMAIN vendor
      BY <3>1 DEF StoreInv, StoreRows, Made
    <3>3. \A v \in Made : made'[v] = made[v]
      <4> DEFINE Entry == [provider : Providers, files : Datasets]
      <4>1. made \in Seq(Entry) /\ [provider |-> p, files |-> d] \in Entry
        BY DEF StoreInv, StoreRows
      <4> HIDE DEF Entry
      <4> QED BY <2>1, <3>1, <4>1
    <3>4. ~NewRow(p).ready
      BY DEF NewRow
    <3> QED BY <3>1, <3>2, <3>3, <3>4, StoreUnmoved
  <2>3. ASSUME NEW m \in Importers, Enable(m)
        PROVE  View' = View \/ \E p \in Providers : Store!Publish(p)
    BY <2>3, EnablePublishes
  <2>4. ASSUME NEW t \in Trimmers, DeleteVendors(t) PROVE View' = View
    BY <2>4, DeleteUnmoved
  <2>5. ASSUME UNCHANGED <<vendor, made>> PROVE View' = View
    BY <2>5, StoreUnmoved
  <2>6. ASSUME NEW m \in Importers, LoadFile(m) \/ Replace(m) \/ ReplaceFails(m) \/ ImportFails(m)
        PROVE  UNCHANGED <<vendor, made>>
    BY <2>6 DEF LoadFile, Replace, ReplaceFails, ImportFails
  <2>7. ASSUME NEW t \in Trimmers,
               \/ SelectVersions(t) \/ SelectOrphans(t) \/ PurgeSome(t) \/ PurgeDone(t) \/ TrimFails(t)
        PROVE  UNCHANGED <<vendor, made>>
    BY <2>7 DEF SelectVersions, SelectOrphans, PurgeSome, PurgeDone, TrimFails
  <2>8. Age \/ UNCHANGED vars => UNCHANGED <<vendor, made>>
    BY DEF Age, vars
  <2> QED BY <2>2, <2>3, <2>4, <2>5, <2>6, <2>7, <2>8 DEF Next, Import, Purge
<1>3. Init => IInv
  BY InitStoreInv, InitTrimInv
<1>4. IInv /\ [Next]_vars => IInv'
  BY NextStoreInv, NextTrimInv
<1> QED BY <1>1, <1>2, <1>3, <1>4, PTL DEF Spec, KeepsPromise, Store!VSpec

-----------------------------------------------------------------------------
VendorRow == [version : Nat, provider : Vendors, ready : BOOLEAN]
DataRow == [version : Nat, cve : CveIds, json : Texts]
CustomRow == [provider : Vendors, cve : CveIds, json : Texts]
SnoozeRow == [collector : Collectors, provider : Vendors, cve : CveIds]
Tables == [vendor : SUBSET VendorRow, vendorData : SUBSET DataRow,
           custom : SUBSET CustomRow, snoozes : SUBSET SnoozeRow]

\* The primary keys of a database's tables.
KeysOK(d) ==
  /\ d \in Tables /\ IsFiniteSet(d.vendorData)
  /\ \A v, w \in d.vendor : v.version = w.version => v = w
  /\ \A e, f \in d.vendorData : e.version = f.version /\ e.cve = f.cve => e = f
  /\ \A c, o \in d.custom : c.cve = o.cve => c = o

\* The keys are part of the commands' invariant.
LEMMA TablesAreKeyed == TablesOK => KeysOK(db)
BY DEF TablesOK, KeysOK, Tables, VendorRow, DataRow, CustomRow, SnoozeRow

\* A latest version is the only one of its number, and of its provider.
LEMMA LatestIsUnique ==
  ASSUME NEW d, KeysOK(d), NEW v \in LatestVendorVersions(d)
  PROVE  /\ v \in d.vendor /\ ProviderOf(d, v.version) = v.provider
         /\ v.version \in Nat /\ v.provider \in Vendors
         /\ \A w \in LatestVendorVersions(d) :
              /\ w.version = v.version => w = v
              /\ w.provider = v.provider => w = v
<1>1. v \in d.vendor /\ v \in VendorRow
  BY DEF LatestVendorVersions, KeysOK, Tables
<1>2. ProviderOf(d, v.version) = v.provider
  <2>1. \E w \in d.vendor : w.version = v.version
    BY <1>1
  <2>2. \A w \in d.vendor : w.version = v.version => w = v
    BY <1>1 DEF KeysOK
  <2>3. QED BY <2>1, <2>2 DEF ProviderOf
<1>3. ASSUME NEW w \in LatestVendorVersions(d)
      PROVE  /\ w.version = v.version => w = v
             /\ w.provider = v.provider => w = v
  <2>1. w \in d.vendor /\ w \in VendorRow
    BY DEF LatestVendorVersions, KeysOK, Tables
  <2>2. w.version = v.version => w = v
    BY <1>1, <2>1 DEF KeysOK
  <2>3. ASSUME w.provider = v.provider PROVE w.version = v.version
    <3>1. w.version <= v.version /\ v.version <= w.version
      BY <1>1, <2>1, <2>3 DEF LatestVendorVersions
    <3>2. w.version \in Nat /\ v.version \in Nat
      BY <1>1, <2>1 DEF VendorRow
    <3>3. QED BY <3>1, <3>2
  <2>4. QED BY <2>2, <2>3
<1>4. QED BY <1>1, <1>2, <1>3 DEF VendorRow

\* Whose rows of the vendors' data are exported.
LEMMA SelectedRows ==
  ASSUME NEW d, KeysOK(d), NEW providers, NEW cves, NEW r
  PROVE  r \in SelectVendorData(d, providers, cves) <=>
           \E v \in LatestVendorVersions(d), x \in d.vendorData :
             /\ x.version = v.version /\ ~Hidden(d, x)
             /\ Passes(v.provider, providers) /\ Passes(x.cve, cves)
             /\ r = Row(v.provider, x.cve, x.json)
<1>1. ASSUME r \in SelectVendorData(d, providers, cves)
      PROVE  \E v \in LatestVendorVersions(d), x \in d.vendorData :
             /\ x.version = v.version /\ ~Hidden(d, x)
             /\ Passes(v.provider, providers) /\ Passes(x.cve, cves)
             /\ r = Row(v.provider, x.cve, x.json)
  <2>1. PICK x \in d.vendorData :
          /\ x.version \in SelectLatestVersion(d, providers) /\ ~Hidden(d, x)
          /\ Passes(x.cve, cves) /\ r = Row(ProviderOf(d, x.version), x.cve, x.json)
    BY <1>1 DEF SelectVendorData
  <2>2. PICK v \in LatestVendorVersions(d) :
          Passes(v.provider, providers) /\ v.version = x.version
    BY <2>1 DEF SelectLatestVersion
  <2>3. ProviderOf(d, x.version) = v.provider
    BY <2>2, LatestIsUnique
  <2>4. QED BY <2>1, <2>2, <2>3
<1>2. ASSUME NEW v \in LatestVendorVersions(d), NEW x \in d.vendorData,
             x.version = v.version, ~Hidden(d, x),
             Passes(v.provider, providers), Passes(x.cve, cves),
             r = Row(v.provider, x.cve, x.json)
      PROVE  r \in SelectVendorData(d, providers, cves)
  <2>1. x.version \in SelectLatestVersion(d, providers)
    BY <1>2 DEF SelectLatestVersion
  <2>2. ProviderOf(d, x.version) = v.provider
    BY <1>2, LatestIsUnique
  <2>3. QED BY <1>2, <2>1, <2>2 DEF SelectVendorData
<1>3. QED BY <1>1, <1>2

\* What a row says.
LEMMA RowParts ==
  ASSUME NEW p, NEW c, NEW j
  PROVE  Row(p, c, j).provider = p /\ Row(p, c, j).cve = c /\ Row(p, c, j).json = j
BY DEF Row

\* Filters choose among the rows of an export: which rows overrides hide is
\* asked of all overrides (export.go, selectVendorData).
LEMMA FiltersOnlySelect ==
  ASSUME NEW d, KeysOK(d), NEW providers, NEW cves
  PROVE  FiltersSelect(d, providers, cves)
<1>1. ASSUME NEW r
      PROVE  r \in SelectVendorData(d, providers, cves) <=>
               r \in SelectVendorData(d, {}, {}) /\ Passes(r.provider, providers) /\ Passes(r.cve, cves)
  <2>1. \A x : Passes(x, {})
    BY DEF Passes
  <2>2. QED BY <2>1, SelectedRows, RowParts
<1>2. ASSUME NEW r
      PROVE  r \in SelectOverrides(d, providers, cves) <=>
               r \in SelectOverrides(d, {}, {}) /\ Passes(r.provider, providers) /\ Passes(r.cve, cves)
  BY DEF SelectOverrides, Passes
<1>3. QED BY <1>1, <1>2 DEF FiltersSelect, Export

\* An overridden CVE is exported once, and any other once for each provider, as a
\* provider has one latest version and a version a CVE once.
LEMMA ExportHasOnce ==
  ASSUME NEW d, KeysOK(d)
  PROVE  OverriddenOnce(d)
<1>1. SUFFICES ASSUME NEW r \in Export(d, {}, {}), NEW s \in Export(d, {}, {}),
                      r # s, r.cve = s.cve
               PROVE  r.provider # s.provider /\ \A c \in d.custom : c.cve # r.cve
  BY DEF OverriddenOnce
<1>2. ASSUME NEW t \in SelectVendorData(d, {}, {})
      PROVE  \A c \in d.custom : c.cve # t.cve
  BY SelectedRows, RowParts DEF Hidden
<1>3. SelectOverrides(d, {}, {}) = d.custom
  BY DEF SelectOverrides, Passes
<1>4. r \in SelectVendorData(d, {}, {}) /\ s \in SelectVendorData(d, {}, {})
  <2>1. \A c, o \in d.custom : c.cve = o.cve => c = o
    BY DEF KeysOK
  <2>2. QED BY <2>1, <1>1, <1>2, <1>3 DEF Export
<1>5. ASSUME r.provider = s.provider PROVE FALSE
  <2>1. PICK v \in LatestVendorVersions(d), x \in d.vendorData :
          x.version = v.version /\ r = Row(v.provider, x.cve, x.json)
    BY <1>4, SelectedRows
  <2>2. PICK w \in LatestVendorVersions(d), y \in d.vendorData :
          y.version = w.version /\ s = Row(w.provider, y.cve, y.json)
    BY <1>4, SelectedRows
  <2>3. v = w
    BY <2>1, <2>2, <1>5, RowParts, LatestIsUnique
  <2>4. x = y
    BY <2>1, <2>2, <2>3, <1>1, RowParts DEF KeysOK
  <2>5. QED BY <2>1, <2>2, <2>3, <2>4, <1>1
<1>6. QED BY <1>2, <1>4, <1>5

\* The rows that an edit imports.
Edited(d, p, cves, text) ==
  {Row(p, r.cve, IF r.cve \in DOMAIN text THEN text[r.cve] ELSE r.json) : r \in Export(d, {p}, cves)}

\* An edit imports what it changed, if it did.
LEMMA EditIs ==
  ASSUME NEW d, KeysOK(d), NEW p, NEW cves, NEW text
  PROVE  /\ Edited(d, p, cves, text) = Export(d, {p}, cves) => Edit(d, d, p, cves, text) = d
         /\ Edited(d, p, cves, text) # Export(d, {p}, cves) =>
              Edit(d, d, p, cves, text)
                = [d EXCEPT !.custom =
                     {c \in d.custom : \A r \in Edited(d, p, cves, text) : r.cve # c.cve}
                       \cup Edited(d, p, cves, text)]
BY DEF Edit, Edited, ImportCustom

\* An override of another provider's keeps a CVE out of what is exported.
LEMMA ExportedIsOwn ==
  ASSUME NEW d, KeysOK(d), NEW providers, NEW cves, NEW r \in Export(d, providers, cves)
  PROVE  /\ Passes(r.provider, providers) /\ Passes(r.cve, cves)
         /\ \A c \in d.custom : c.cve = r.cve => c.provider = r.provider
<1>1. CASE r \in SelectVendorData(d, providers, cves)
  <2>1. PICK v \in LatestVendorVersions(d), x \in d.vendorData :
          /\ x.version = v.version /\ ~Hidden(d, x)
          /\ Passes(v.provider, providers) /\ Passes(x.cve, cves)
          /\ r = Row(v.provider, x.cve, x.json)
    BY <1>1, SelectedRows
  <2>2. r.provider = v.provider /\ r.cve = x.cve
    BY <2>1, RowParts
  <2>3. \A c \in d.custom : c.cve # r.cve
    BY <2>1, <2>2 DEF Hidden
  <2>4. QED BY <2>1, <2>2, <2>3
<1>2. CASE r \in SelectOverrides(d, providers, cves)
  <2>1. r \in d.custom /\ Passes(r.provider, providers) /\ Passes(r.cve, cves)
    BY <1>2 DEF SelectOverrides
  <2>2. QED BY <2>1 DEF KeysOK
<1>3. QED BY <1>1, <1>2 DEF Export

\* What an edit imports is its provider's, and replaces no override of another's.
LEMMA EditedIsOwn ==
  ASSUME NEW d, KeysOK(d), NEW p, NEW cves, NEW text, NEW e \in Edited(d, p, cves, text)
  PROVE  /\ e.provider = p /\ Passes(e.cve, cves)
         /\ e.cve \in DOMAIN text => e.json = text[e.cve]
         /\ \A c \in d.custom : c.cve = e.cve => c.provider = p
<1>1. PICK r \in Export(d, {p}, cves) :
        e = Row(p, r.cve, IF r.cve \in DOMAIN text THEN text[r.cve] ELSE r.json)
  BY DEF Edited
<1>2. e.provider = p /\ e.cve = r.cve /\ (r.cve \in DOMAIN text => e.json = text[r.cve])
  BY <1>1, RowParts
<1>3. /\ Passes(r.provider, {p}) /\ Passes(r.cve, cves)
      /\ \A c \in d.custom : c.cve = r.cve => c.provider = r.provider
  BY ExportedIsOwn
<1>4. r.provider = p
  BY <1>3 DEF Passes
<1>5. QED BY <1>2, <1>3, <1>4

\* The tables with other overrides.
LEMMA CustomReplaced ==
  ASSUME NEW d, KeysOK(d), NEW S
  PROVE  LET after == [d EXCEPT !.custom = S] IN
         /\ after.custom = S /\ after.vendor = d.vendor /\ after.vendorData = d.vendorData
         /\ after.snoozes = d.snoozes
         /\ S = d.custom => after = d
BY DEF KeysOK, Tables

\* An edit takes no override away from another provider.
LEMMA EditKeepsOthers ==
  ASSUME NEW d, KeysOK(d), NEW p, NEW cves, NEW text, NEW c \in d.custom, c.provider # p
  PROVE  c \in Edit(d, d, p, cves, text).custom
<1> DEFINE edited == Edited(d, p, cves, text)
           left == {o \in d.custom : \A r \in edited : r.cve # o.cve}
<1>1. CASE Edit(d, d, p, cves, text) = d
  BY <1>1
<1>2. CASE Edit(d, d, p, cves, text) = [d EXCEPT !.custom = left \cup edited]
  <2>1. \A r \in edited : r.cve # c.cve
    BY EditedIsOwn
  <2>2. c \in left \cup edited
    BY <2>1
  <2> HIDE DEF left, edited
  <2>3. QED BY <2>2, <1>2, CustomReplaced
<1>3. edited = Export(d, {p}, cves) => Edit(d, d, p, cves, text) = d
  BY EditIs
<1>4. edited # Export(d, {p}, cves) =>
        Edit(d, d, p, cves, text) = [d EXCEPT !.custom = left \cup edited]
  BY EditIs
<1>5. QED BY <1>1, <1>2, <1>3, <1>4

\* An edit takes effect.
LEMMA EditIsExported ==
  ASSUME NEW d, KeysOK(d), NEW p, NEW cves, NEW text
  PROVE  EditTakesEffect(d, p, cves, text)
<1> DEFINE after == Edit(d, d, p, cves, text)
           edited == Edited(d, p, cves, text)
           left == {o \in d.custom : \A r \in edited : r.cve # o.cve}
<1>1. \A c \in d.custom : c.provider # p => c \in after.custom
  BY EditKeepsOthers
<1>2. ASSUME NEW r \in Export(d, {p}, cves), r.cve \in DOMAIN text
      PROVE  /\ Row(p, r.cve, text[r.cve]) \in Export(after, {}, {})
             /\ after # d => \A x \in Export(after, {}, {}) : x.cve = r.cve => x.json = text[r.cve]
  <2>1. Row(p, r.cve, text[r.cve]) \in edited
    BY <1>2 DEF Edited
  <2>2. Row(p, r.cve, text[r.cve]).cve = r.cve
    BY RowParts
  <2>3. CASE edited = Export(d, {p}, cves)
    <3>1. after = d
      BY <2>3, EditIs
    <3>2. Row(p, r.cve, text[r.cve]) \in Export(d, {}, {})
      BY <2>1, <2>3, FiltersOnlySelect DEF FiltersSelect
    <3>3. QED BY <3>1, <3>2
  <2>4. CASE edited # Export(d, {p}, cves)
    <3>1. after = [d EXCEPT !.custom = left \cup edited]
      BY <2>4, EditIs
    <3>2. after.custom = left \cup edited
      <4> HIDE DEF after, left, edited
      <4> QED BY <3>1, CustomReplaced
    <3>3. SelectOverrides(after, {}, {}) = left \cup edited
      BY <3>2 DEF SelectOverrides, Passes
    <3>4. Row(p, r.cve, text[r.cve]) \in Export(after, {}, {})
      BY <2>1, <3>3 DEF Export
    <3>5. ASSUME NEW x \in Export(after, {}, {}), x.cve = r.cve PROVE x.json = text[r.cve]
      <4>1. CASE x \in SelectVendorData(after, {}, {})
        <5>1. PICK y \in after.vendorData :
                ~Hidden(after, y) /\ x = Row(ProviderOf(after, y.version), y.cve, y.json)
          BY <4>1 DEF SelectVendorData
        <5>2. y.cve = r.cve
          BY <5>1, <3>5, RowParts
        <5>3. Hidden(after, y)
          BY <2>1, <2>2, <3>2, <5>2 DEF Hidden
        <5>4. QED BY <5>1, <5>3
      <4>2. CASE x \in left
        BY <4>2, <2>1, <2>2, <3>5
      <4>3. CASE x \in edited
        BY <4>3, <3>5, <1>2, EditedIsOwn
      <4>4. QED BY <4>1, <4>2, <4>3, <3>3 DEF Export
    <3>6. QED BY <3>4, <3>5
  <2>5. QED BY <2>3, <2>4
<1>3. QED BY <1>1, <1>2 DEF EditTakesEffect

\* A deletion undoes an edit of a provider that had no overrides.
LEMMA EditIsUndone ==
  ASSUME NEW d, KeysOK(d), NEW p, NEW cves, NEW text
  PROVE  DeleteUndoes(d, p, cves, text)
<1> DEFINE after == Edit(d, d, p, cves, text)
           edited == Edited(d, p, cves, text)
           left == {o \in d.custom : \A r \in edited : r.cve # o.cve}
<1>1. SUFFICES ASSUME \A c \in d.custom : c.provider # p
               PROVE  DeleteCustom(after, p, cves) = d
  BY DEF DeleteUndoes
<1>2. after = d \/ after = [d EXCEPT !.custom = left \cup edited]
  <2>1. edited = Export(d, {p}, cves) => after = d
    BY EditIs
  <2>2. edited # Export(d, {p}, cves) => after = [d EXCEPT !.custom = left \cup edited]
    BY EditIs
  <2>3. QED BY <2>1, <2>2
<1>3. {c \in after.custom : ~Selected(c, p, cves)} = d.custom
  <2>1. CASE after = d
    BY <2>1, <1>1 DEF Selected
  <2>2. CASE after = [d EXCEPT !.custom = left \cup edited]
    <3>1. after.custom = left \cup edited
      <4> HIDE DEF after, left, edited
      <4> QED BY <2>2, CustomReplaced
    <3>2. \A e \in edited : Selected(e, p, cves)
      BY EditedIsOwn DEF Selected
    <3>3. \A c \in d.custom : c \in left /\ ~Selected(c, p, cves)
      BY <1>1, EditedIsOwn DEF Selected
    <3>4. QED BY <3>1, <3>2, <3>3
  <2>3. QED BY <1>2, <2>1, <2>2
<1>4. DeleteCustom(after, p, cves) = [after EXCEPT !.custom = d.custom]
  BY <1>3 DEF DeleteCustom
<1>5. [d EXCEPT !.custom = d.custom] = d
  BY CustomReplaced
<1>6. \A S : [[d EXCEPT !.custom = S] EXCEPT !.custom = d.custom] = d
  BY DEF KeysOK, Tables
<1>7. QED BY <1>2, <1>4, <1>5, <1>6

\* Deletions stay within their provider.
LEMMA DeletionsStayOwn ==
  ASSUME NEW d, KeysOK(d), NEW k, NEW p, NEW cves
  PROVE  DeletesOwnOnly(d, k, p, cves)
<1>1. d = [vendor |-> d.vendor, vendorData |-> d.vendorData, custom |-> d.custom,
           snoozes |-> d.snoozes]
  BY DEF KeysOK, Tables
<1>2. DeleteCustom(d, p, cves).custom = {c \in d.custom : ~Selected(c, p, cves)}
  BY <1>1 DEF DeleteCustom
<1>3. DeleteSnoozes(d, k, p, cves).snoozes
        = {s \in d.snoozes : ~(s.collector = p /\ Selected(s, p, cves))}
  BY <1>1 DEF DeleteSnoozes
<1>4. QED BY <1>2, <1>3 DEF DeletesOwnOnly, Selected

\* The summary counts what is exported of a latest version and what overrides hide:
\* the rows of the version are one to one with the rows of the export that they become.
LEMMA SummaryAddsUp ==
  ASSUME NEW d, KeysOK(d)
  PROVE  SummaryCounts(d)
<1>1. SUFFICES ASSUME NEW v \in LatestVendorVersions(d)
      PROVE  LET shown == SelectVendorData(d, {v.provider}, {})
                 hidden == {e \in d.vendorData : e.version = v.version /\ Hidden(d, e)}
                 counted == {s \in Summary(d) : s.kind = "vendor_data" /\ s.version = v.version}
             IN  IF shown = {} /\ hidden = {} THEN counted = {}
                 ELSE counted = {[kind |-> "vendor_data", provider |-> v.provider,
                                  version |-> v.version,
                                  cves |-> Cardinality(shown) + Cardinality(hidden)]}
  BY DEF SummaryCounts
<1> DEFINE shown == SelectVendorData(d, {v.provider}, {})
           hidden == {e \in d.vendorData : e.version = v.version /\ Hidden(d, e)}
           plain == {e \in d.vendorData : e.version = v.version /\ ~Hidden(d, e)}
           rows == {e \in d.vendorData : e.version = v.version}
           counted == {s \in Summary(d) : s.kind = "vendor_data" /\ s.version = v.version}
           own == [kind |-> "vendor_data", provider |-> v.provider, version |-> v.version,
                   cves |-> Cardinality(rows)]
<1>2. v \in d.vendor /\ v.ready /\ v.version \in Nat /\ \A w \in d.vendor : w.version = v.version => w = v
  <2>1. v \in d.vendor /\ v.ready
    BY DEF LatestVendorVersions
  <2>2. v.version \in Nat
    BY LatestIsUnique
  <2>3. QED BY <2>1, <2>2 DEF KeysOK
<1>3. rows = plain \cup hidden /\ plain \cap hidden = {}
  OBVIOUS
<1>4. IsFiniteSet(rows) /\ IsFiniteSet(plain) /\ IsFiniteSet(hidden)
  <2>1. IsFiniteSet(d.vendorData)
    BY DEF KeysOK
  <2>2. rows \in SUBSET d.vendorData /\ plain \in SUBSET d.vendorData /\ hidden \in SUBSET d.vendorData
    OBVIOUS
  <2> HIDE DEF rows, plain, hidden
  <2>3. QED BY <2>1, <2>2, FS_Subset
<1>5. Cardinality(shown) = Cardinality(plain) /\ (shown = {} <=> plain = {})
  <2> DEFINE image == [e \in plain |-> Row(v.provider, e.cve, e.json)]
  <2>1. \A r : r \in shown <=> \E e \in plain : r = image[e]
    <3>1. ASSUME NEW r, r \in shown PROVE \E e \in plain : r = image[e]
      <4>1. PICK w \in LatestVendorVersions(d), e \in d.vendorData :
              /\ e.version = w.version /\ ~Hidden(d, e)
              /\ Passes(w.provider, {v.provider})
              /\ r = Row(w.provider, e.cve, e.json)
        BY <3>1, SelectedRows
      <4>2. w.provider = v.provider
        BY <4>1 DEF Passes
      <4>3. w = v
        BY <4>2, LatestIsUnique
      <4>4. QED BY <4>1, <4>3
    <3>2. ASSUME NEW e \in plain PROVE image[e] \in shown
      <4>1. Passes(v.provider, {v.provider}) /\ Passes(e.cve, {})
        BY DEF Passes
      <4>2. image[e] = Row(v.provider, e.cve, e.json)
        OBVIOUS
      <4>3. e \in d.vendorData /\ e.version = v.version /\ ~Hidden(d, e)
        OBVIOUS
      <4> HIDE DEF image, plain
      <4>4. QED BY <4>1, <4>2, <4>3, SelectedRows
    <3>3. QED BY <3>1, <3>2
  <2>2. \A e, f \in plain : image[e] = image[f] => e = f
    <3>1. SUFFICES ASSUME NEW e \in plain, NEW f \in plain, image[e] = image[f]
                   PROVE  e = f
      OBVIOUS
    <3>2. e.cve = f.cve
      BY <3>1, RowParts
    <3>3. QED BY <3>2 DEF KeysOK
  <2>3. image \in [plain -> shown]
    BY <2>1
  <2> HIDE DEF image, plain, shown
  <2>4. image \in Bijection(plain, shown)
    <3>1. image \in Injection(plain, shown)
      BY <2>2, <2>3 DEF Injection, IsInjective
    <3>2. image \in Surjection(plain, shown)
      <4>1. \A t \in shown : \E e \in plain : image[e] = t
        BY <2>1
      <4>2. QED BY <4>1, <2>3 DEF Surjection
    <3>3. QED BY <3>1, <3>2 DEF Bijection
  <2>5. ExistsBijection(plain, shown)
    BY <2>4 DEF ExistsBijection
  <2>6. QED BY <1>4, <2>1, <2>5, FS_Bijection
<1>6. Cardinality(rows) = Cardinality(shown) + Cardinality(hidden)
  <2> HIDE DEF rows, plain, hidden, shown
  <2>1. Cardinality(rows) = Cardinality(plain) + Cardinality(hidden) - Cardinality(plain \cap hidden)
    BY <1>3, <1>4, FS_Union
  <2>2. Cardinality(plain \cap hidden) = 0
    BY <1>3, FS_EmptySet
  <2>3. Cardinality(plain) \in Nat /\ Cardinality(hidden) \in Nat
    BY <1>4, FS_CardinalityType
  <2>4. QED BY <1>5, <2>1, <2>2, <2>3
<1>7. shown = {} /\ hidden = {} <=> rows = {}
  BY <1>3, <1>5
<1>8. counted = IF rows = {} THEN {} ELSE {own}
  <2>1. ASSUME NEW s \in counted PROVE s = own /\ rows # {}
    <3>1. s \in Summary(d) /\ s.kind = "vendor_data" /\ s.version = v.version
      OBVIOUS
    <3>2. PICK w \in d.vendor :
            /\ \E e \in d.vendorData : e.version = w.version
            /\ s = Count("vendor_data", w.provider, w.version,
                         {x \in d.vendorData : x.version = w.version})
      <4>1. \A p, n, S : /\ Count("snooze", p, n, S).kind = "snooze"
                         /\ Count("custom_data", p, n, S).kind = "custom_data"
        BY DEF Count
      <4>2. "snooze" # "vendor_data" /\ "custom_data" # "vendor_data"
        OBVIOUS
      <4>3. s \in {Count("vendor_data", w.provider, w.version,
                         {x \in d.vendorData : x.version = w.version}) :
                   w \in {u \in d.vendor : u.ready /\ \E e \in d.vendorData : e.version = u.version}}
        <5>1. \/ s \in {Count("snooze", t.provider, Current, {x \in d.snoozes : x.provider = t.provider}) :
                         t \in d.snoozes}
              \/ s \in {Count("custom_data", c.provider, Current, {x \in d.custom : x.provider = c.provider}) :
                         c \in d.custom}
              \/ s \in {Count("vendor_data", w.provider, w.version,
                              {x \in d.vendorData : x.version = w.version}) :
                         w \in {u \in d.vendor : u.ready /\ \E e \in d.vendorData : e.version = u.version}}
          BY <3>1, Zenon DEF Summary
        <5>2. s \notin {Count("snooze", t.provider, Current, {x \in d.snoozes : x.provider = t.provider}) :
                         t \in d.snoozes}
          <6>1. ASSUME NEW t \in d.snoozes,
                       s = Count("snooze", t.provider, Current, {x \in d.snoozes : x.provider = t.provider})
                PROVE  s.kind = "snooze"
            BY <6>1, <4>1
          <6>2. QED BY <6>1, <4>2, <3>1
        <5>3. s \notin {Count("custom_data", c.provider, Current, {x \in d.custom : x.provider = c.provider}) :
                         c \in d.custom}
          <6>1. ASSUME NEW c \in d.custom,
                       s = Count("custom_data", c.provider, Current, {x \in d.custom : x.provider = c.provider})
                PROVE  s.kind = "custom_data"
            BY <6>1, <4>1
          <6>2. QED BY <6>1, <4>2, <3>1
        <5>4. QED BY <5>1, <5>2, <5>3, Zenon
      <4>4. QED BY <4>3
    <3>3. w = v
      BY <1>2, <3>1, <3>2 DEF Count
    <3>4. QED BY <3>2, <3>3 DEF Count
  <2>2. ASSUME rows # {} PROVE own \in counted
    <3>1. v \in {w \in d.vendor : w.ready /\ \E e \in d.vendorData : e.version = w.version}
      BY <1>2, <2>2
    <3>2. own = Count("vendor_data", v.provider, v.version,
                      {x \in d.vendorData : x.version = v.version})
      BY DEF Count
    <3>3. own \in Summary(d)
      BY <3>1, <3>2 DEF Summary
    <3>4. QED BY <3>3
  <2> HIDE DEF counted, own, rows
  <2>3. QED BY <2>1, <2>2
<1>9. own = [kind |-> "vendor_data", provider |-> v.provider, version |-> v.version,
             cves |-> Cardinality(shown) + Cardinality(hidden)]
  BY <1>6
<1> HIDE DEF shown, hidden, counted, own, rows
<1>10. IF shown = {} /\ hidden = {} THEN counted = {}
       ELSE counted = {[kind |-> "vendor_data", provider |-> v.provider, version |-> v.version,
                        cves |-> Cardinality(shown) + Cardinality(hidden)]}
  BY <1>7, <1>8, <1>9
<1>11. QED BY <1>10 DEF shown, hidden, counted

\* A database is its four tables.
LEMMA TablesApart ==
  ASSUME NEW d, d \in Tables
  PROVE  /\ d = [vendor |-> d.vendor, vendorData |-> d.vendorData, custom |-> d.custom,
                snoozes |-> d.snoozes]
         /\ d.vendor \subseteq VendorRow /\ d.vendorData \subseteq DataRow
         /\ d.custom \subseteq CustomRow /\ d.snoozes \subseteq SnoozeRow
BY DEF Tables

\* What TablesOK says of the tables of the commands.
LEMMA TablesParts ==
  TablesOK <=> /\ newest \in Nat /\ db \in Tables /\ IsFiniteSet(db.vendorData)
               /\ \A v \in db.vendor : v.version <= newest
               /\ \A v, w \in db.vendor : v.version = w.version => v = w
               /\ \A e, f \in db.vendorData : e.version = f.version /\ e.cve = f.cve => e = f
               /\ \A c, o \in db.custom : c.cve = o.cve => c = o
               /\ \A s, o \in db.snoozes : s.provider = o.provider /\ s.cve = o.cve => s = o
BY DEF TablesOK, Tables, VendorRow, DataRow, CustomRow, SnoozeRow

\* The keys hold if they do of what a command writes into the versions ...
LEMMA VendorWritten ==
  ASSUME TablesOK, NEW S, S \subseteq VendorRow, db' = [db EXCEPT !.vendor = S], newest' \in Nat,
         \A v \in S : v.version <= newest', \A v, w \in S : v.version = w.version => v = w
  PROVE  TablesOK'
<1>1. db' \in Tables /\ db'.vendor = S /\ db'.vendorData = db.vendorData
      /\ db'.custom = db.custom /\ db'.snoozes = db.snoozes
  <2>1. db = [vendor |-> db.vendor, vendorData |-> db.vendorData, custom |-> db.custom,
             snoozes |-> db.snoozes]
        /\ db.vendor \subseteq VendorRow /\ db.vendorData \subseteq DataRow
        /\ db.custom \subseteq CustomRow /\ db.snoozes \subseteq SnoozeRow
    <3>1. db \in Tables
      BY TablesParts
    <3>2. QED BY <3>1, TablesApart
  <2>2. db' = [vendor |-> S, vendorData |-> db.vendorData, custom |-> db.custom,
               snoozes |-> db.snoozes]
    BY <2>1
  <2>3. QED BY <2>1, <2>2 DEF Tables
<1>2. QED BY <1>1, TablesParts DEF TablesOK, Tables, VendorRow, DataRow, CustomRow, SnoozeRow

\* What a command writes into the vendors' data ...
LEMMA DataWritten ==
  ASSUME TablesOK, NEW S, S \subseteq DataRow, db' = [db EXCEPT !.vendorData = S], newest' = newest,
         IsFiniteSet(S), \A e, f \in S : e.version = f.version /\ e.cve = f.cve => e = f
  PROVE  TablesOK'
<1>1. db' \in Tables /\ db'.vendor = db.vendor /\ db'.vendorData = S
      /\ db'.custom = db.custom /\ db'.snoozes = db.snoozes
  <2>1. db = [vendor |-> db.vendor, vendorData |-> db.vendorData, custom |-> db.custom,
             snoozes |-> db.snoozes]
        /\ db.vendor \subseteq VendorRow /\ db.vendorData \subseteq DataRow
        /\ db.custom \subseteq CustomRow /\ db.snoozes \subseteq SnoozeRow
    <3>1. db \in Tables
      BY TablesParts
    <3>2. QED BY <3>1, TablesApart
  <2>2. db' = [vendor |-> db.vendor, vendorData |-> S, custom |-> db.custom,
               snoozes |-> db.snoozes]
    BY <2>1
  <2>3. QED BY <2>1, <2>2 DEF Tables
<1>2. QED BY <1>1, TablesParts DEF TablesOK, Tables, VendorRow, DataRow, CustomRow, SnoozeRow

\* ... into the overrides ...
LEMMA CustomWritten ==
  ASSUME TablesOK, NEW S, S \subseteq CustomRow, db' = [db EXCEPT !.custom = S], newest' = newest,
         \A c, o \in S : c.cve = o.cve => c = o
  PROVE  TablesOK'
<1>1. db' \in Tables /\ db'.vendor = db.vendor /\ db'.vendorData = db.vendorData
      /\ db'.custom = S /\ db'.snoozes = db.snoozes
  <2>1. db = [vendor |-> db.vendor, vendorData |-> db.vendorData, custom |-> db.custom,
             snoozes |-> db.snoozes]
        /\ db.vendor \subseteq VendorRow /\ db.vendorData \subseteq DataRow
        /\ db.custom \subseteq CustomRow /\ db.snoozes \subseteq SnoozeRow
    <3>1. db \in Tables
      BY TablesParts
    <3>2. QED BY <3>1, TablesApart
  <2>2. db' = [vendor |-> db.vendor, vendorData |-> db.vendorData, custom |-> S,
               snoozes |-> db.snoozes]
    BY <2>1
  <2>3. QED BY <2>1, <2>2 DEF Tables
<1>2. QED BY <1>1, TablesParts DEF TablesOK, Tables, VendorRow, DataRow, CustomRow, SnoozeRow

\* ... and into the snoozes.
LEMMA SnoozesWritten ==
  ASSUME TablesOK, NEW S, S \subseteq SnoozeRow, db' = [db EXCEPT !.snoozes = S], newest' = newest,
         \A s, o \in S : s.provider = o.provider /\ s.cve = o.cve => s = o
  PROVE  TablesOK'
<1>1. db' \in Tables /\ db'.vendor = db.vendor /\ db'.vendorData = db.vendorData
      /\ db'.custom = db.custom /\ db'.snoozes = S
  <2>1. db = [vendor |-> db.vendor, vendorData |-> db.vendorData, custom |-> db.custom,
             snoozes |-> db.snoozes]
        /\ db.vendor \subseteq VendorRow /\ db.vendorData \subseteq DataRow
        /\ db.custom \subseteq CustomRow /\ db.snoozes \subseteq SnoozeRow
    <3>1. db \in Tables
      BY TablesParts
    <3>2. QED BY <3>1, TablesApart
  <2>2. db' = [vendor |-> db.vendor, vendorData |-> db.vendorData, custom |-> db.custom,
               snoozes |-> S]
    BY <2>1
  <2>3. QED BY <2>1, <2>2 DEF Tables
<1>2. QED BY <1>1, TablesParts DEF TablesOK, Tables, VendorRow, DataRow, CustomRow, SnoozeRow

\* An import of rows that have the CVE as their key leaves it the key of all.
LEMMA ImportKeepsKeys ==
  ASSUME TablesOK, NEW R, R \subseteq CustomRow, \A c, o \in R : c.cve = o.cve => c = o,
         db' = ImportCustom(db, R), newest' = newest
  PROVE  TablesOK'
<1> DEFINE S == {c \in db.custom : \A r \in R : r.cve # c.cve} \cup R
<1>1. db' = [db EXCEPT !.custom = S]
  BY DEF ImportCustom
<1>2. S \subseteq CustomRow
  BY TablesParts DEF Tables
<1>3. \A c, o \in S : c.cve = o.cve => c = o
  BY TablesParts
<1> HIDE DEF S
<1>4. QED BY <1>1, <1>2, <1>3, CustomWritten

\* Every row that is exported is one that custom_data may hold.
LEMMA ExportedRows ==
  ASSUME NEW d, KeysOK(d), NEW providers, NEW cves
  PROVE  Export(d, providers, cves) \subseteq CustomRow
<1>1. ASSUME NEW r \in SelectVendorData(d, providers, cves) PROVE r \in CustomRow
  <2>1. PICK v \in LatestVendorVersions(d), x \in d.vendorData :
          r = Row(v.provider, x.cve, x.json)
    BY SelectedRows
  <2>2. v.provider \in Vendors
    BY LatestIsUnique
  <2>3. x \in DataRow
    BY DEF KeysOK, Tables
  <2>4. QED BY <2>1, <2>2, <2>3 DEF Row, DataRow, CustomRow
<1>2. d.custom \subseteq CustomRow
  BY DEF KeysOK, Tables
<1>3. QED BY <1>1, <1>2 DEF Export, SelectOverrides

\* What one provider exports has a CVE once.
LEMMA ExportedKeys ==
  ASSUME NEW d, KeysOK(d), NEW p, NEW cves,
         NEW r \in Export(d, {p}, cves), NEW s \in Export(d, {p}, cves), r.cve = s.cve
  PROVE  r = s
<1>1. Export(d, {p}, cves)
        = {x \in Export(d, {}, {}) : Passes(x.provider, {p}) /\ Passes(x.cve, cves)}
  BY FiltersOnlySelect DEF FiltersSelect
<1>2. /\ r \in Export(d, {}, {}) /\ s \in Export(d, {}, {})
      /\ r.provider = p /\ s.provider = p
  BY <1>1 DEF Passes
<1>3. QED BY <1>2, ExportHasOnce DEF OverriddenOnce

\* The primary keys of the tables hold whatever commands, imports and trims came before
\* (schema.sql; REPLACE and DELETE of vulndb).
THEOREM CommandsInvariant == CommandsSpec => []TablesOK
<1>1. CommandsInit => TablesOK
  BY FS_EmptySet DEF CommandsInit, TablesOK
<1>2. TablesOK /\ [CommandsNext]_commandVars => TablesOK'
  <2> SUFFICES ASSUME TablesOK, [CommandsNext]_commandVars PROVE TablesOK'
    OBVIOUS
  <2>0. KeysOK(db) /\ newest \in Nat /\ db \in Tables
    BY TablesAreKeyed, TablesParts
  <2>1. ASSUME NEW p \in Vendors, AddVersion(p) PROVE TablesOK'
    <3> DEFINE new == [version |-> newest + 1, provider |-> p, ready |-> FALSE]
               S == db.vendor \cup {new}
    <3>1. db' = [db EXCEPT !.vendor = S] /\ newest' = newest + 1
      BY <2>1 DEF AddVersion
    <3>2. new \in VendorRow
      BY <2>0 DEF VendorRow
    <3>3. S \subseteq VendorRow
      BY <2>0, <3>2 DEF Tables
    <3>4. \A v \in db.vendor : v.version \in Nat /\ v.version <= newest
      BY <2>0, TablesParts DEF Tables, VendorRow
    <3>5. \A v \in S : v.version <= newest'
      BY <2>0, <3>1, <3>4
    <3>6. \A v, w \in S : v.version = w.version => v = w
      <4>1. \A v, w \in db.vendor : v.version = w.version => v = w
        BY TablesParts
      <4>2. new.version = newest + 1 /\ \A v \in db.vendor : v.version # newest + 1
        BY <2>0, <3>4
      <4> HIDE DEF new
      <4>3. QED BY <4>1, <4>2
    <3>7. newest' \in Nat
      BY <2>0, <3>1
    <3> HIDE DEF S
    <3>8. QED BY <3>1, <3>3, <3>5, <3>6, <3>7, VendorWritten
  <2>2. ASSUME NEW v \in Issued, NEW c \in CveIds, NEW text \in Texts, AddRecord(v, c, text)
        PROVE  TablesOK'
    <3> DEFINE new == [version |-> v, cve |-> c, json |-> text]
               kept == {d \in db.vendorData : ~(d.version = v /\ d.cve = c)}
               S == kept \cup {new}
    <3>1. db' = [db EXCEPT !.vendorData = S] /\ newest' = newest
      BY <2>2 DEF AddRecord
    <3>2. v \in Nat
      BY <2>0 DEF Issued
    <3>3. S \subseteq DataRow
      BY <2>0, <3>2 DEF Tables, DataRow
    <3>4. \A e, f \in S : e.version = f.version /\ e.cve = f.cve => e = f
      BY TablesParts
    <3>5. IsFiniteSet(S)
      <4>1. IsFiniteSet(db.vendorData) /\ kept \in SUBSET db.vendorData
        BY TablesParts
      <4> HIDE DEF kept, new
      <4>2. IsFiniteSet(kept)
        BY <4>1, FS_Subset
      <4>3. QED BY <4>2, FS_AddElement
    <3> HIDE DEF S
    <3>6. QED BY <3>1, <3>3, <3>4, <3>5, DataWritten
  <2>3. ASSUME NEW v \in Issued, SetReady(v) PROVE TablesOK'
    <3> DEFINE readied(w) == IF w.version = v THEN [w EXCEPT !.ready = TRUE] ELSE w
               S == {readied(w) : w \in db.vendor}
    <3>1. db' = [db EXCEPT !.vendor = S] /\ newest' = newest
      BY <2>3 DEF SetReady
    <3>2. \A w \in VendorRow : readied(w) \in VendorRow /\ readied(w).version = w.version
      BY DEF VendorRow
    <3>3. db.vendor \subseteq VendorRow
      BY <2>0 DEF Tables
    <3> HIDE DEF readied
    <3>4. S \subseteq VendorRow
      BY <3>2, <3>3
    <3>5. \A w \in S : w.version <= newest'
      BY <3>1, <3>2, <3>3, TablesParts
    <3>6. \A w, x \in S : w.version = x.version => w = x
      <4>1. SUFFICES ASSUME NEW w \in db.vendor, NEW x \in db.vendor,
                            readied(w).version = readied(x).version
                     PROVE  readied(w) = readied(x)
        OBVIOUS
      <4>2. w.version = x.version
        BY <3>2, <3>3, <4>1
      <4>3. w = x
        BY <4>2, TablesParts
      <4>4. QED BY <4>3
    <3> HIDE DEF S
    <3>7. QED BY <2>0, <3>1, <3>4, <3>5, <3>6, VendorWritten
  <2>4. ASSUME NEW v \in Issued, DropVersion(v) PROVE TablesOK'
    <3> DEFINE S == {w \in db.vendor : w.version # v}
    <3>1. db' = [db EXCEPT !.vendor = S] /\ newest' = newest
      BY <2>4 DEF DropVersion
    <3>2. S \subseteq VendorRow /\ (\A w \in S : w.version <= newest')
          /\ \A w, x \in S : w.version = x.version => w = x
      BY <2>0, <3>1, TablesParts DEF Tables
    <3> HIDE DEF S
    <3>3. QED BY <2>0, <3>1, <3>2, VendorWritten
  <2>5. ASSUME NEW d \in db.vendorData, DropRecord(d) PROVE TablesOK'
    <3> DEFINE S == db.vendorData \ {d}
    <3>1. db' = [db EXCEPT !.vendorData = S] /\ newest' = newest
      BY <2>5 DEF DropRecord
    <3>2. S \subseteq DataRow /\ \A e, f \in S : e.version = f.version /\ e.cve = f.cve => e = f
      BY <2>0, TablesParts DEF Tables
    <3>3. IsFiniteSet(S)
      <4>1. IsFiniteSet(db.vendorData) /\ S \in SUBSET db.vendorData
        BY TablesParts
      <4> HIDE DEF S
      <4>2. QED BY <4>1, FS_Subset
    <3> HIDE DEF S
    <3>4. QED BY <3>1, <3>2, <3>3, DataWritten
  <2>6. ASSUME NEW p \in Vendors, NEW cves \in Some, NEW text \in [cves -> Texts],
               ImportOverrides(p, text)
        PROVE  TablesOK'
    <3> DEFINE R == {Row(p, c, text[c]) : c \in DOMAIN text}
    <3>1. db' = ImportCustom(db, R) /\ newest' = newest
      BY <2>6 DEF ImportOverrides
    <3>2. R \subseteq CustomRow
      BY DEF Row, CustomRow, Some
    <3>3. \A c, o \in R : c.cve = o.cve => c = o
      BY RowParts
    <3> HIDE DEF R
    <3>4. QED BY <3>1, <3>2, <3>3, ImportKeepsKeys
  <2>7. ASSUME NEW p \in Vendors, NEW cves \in Some, NEW text \in [cves -> Texts],
               EditExported(p, cves, text)
        PROVE  TablesOK'
    <3> DEFINE R == Edited(db, p, cves, text)
    <3>1. newest' = newest /\ (db' = db \/ db' = ImportCustom(db, R))
      BY <2>7 DEF EditExported, Edit, Edited
    <3>2. ASSUME NEW e \in R
          PROVE \E r \in Export(db, {p}, cves) :
                   e = Row(p, r.cve, IF r.cve \in cves THEN text[r.cve] ELSE r.json)
      <4>1. DOMAIN text = cves
        OBVIOUS
      <4>2. QED BY <4>1 DEF Edited
    <3>3. Export(db, {p}, cves) \subseteq CustomRow
      BY <2>0, ExportedRows
    <3>4. R \subseteq CustomRow
      <4>1. SUFFICES ASSUME NEW e \in R PROVE e \in CustomRow
        OBVIOUS
      <4>2. PICK r \in Export(db, {p}, cves) :
              e = Row(p, r.cve, IF r.cve \in cves THEN text[r.cve] ELSE r.json)
        BY <3>2
      <4>3. r.cve \in CveIds /\ r.json \in Texts
        BY <3>3 DEF CustomRow
      <4>4. r.cve \in cves => text[r.cve] \in Texts
        OBVIOUS
      <4>5. QED BY <4>2, <4>3, <4>4 DEF Row, CustomRow
    <3>5. \A c, o \in R : c.cve = o.cve => c = o
      <4>1. SUFFICES ASSUME NEW c \in R, NEW o \in R, c.cve = o.cve PROVE c = o
        OBVIOUS
      <4>2. PICK r \in Export(db, {p}, cves) :
              c = Row(p, r.cve, IF r.cve \in cves THEN text[r.cve] ELSE r.json)
        BY <3>2
      <4>3. PICK s \in Export(db, {p}, cves) :
              o = Row(p, s.cve, IF s.cve \in cves THEN text[s.cve] ELSE s.json)
        BY <3>2
      <4>4. r.cve = s.cve
        BY <4>1, <4>2, <4>3, RowParts
      <4>5. r = s
        BY <2>0, <4>4, ExportedKeys
      <4>6. QED BY <4>2, <4>3, <4>5
    <3> HIDE DEF R
    <3>6. CASE db' = db
      BY <3>1, <3>6 DEF TablesOK
    <3>7. CASE db' = ImportCustom(db, R)
      BY <3>1, <3>4, <3>5, <3>7, ImportKeepsKeys
    <3>8. QED BY <3>1, <3>6, <3>7
  <2>8. ASSUME NEW p \in Vendors, NEW cves \in SUBSET CveIds, DeleteOverrides(p, cves)
        PROVE  TablesOK'
    <3> DEFINE S == {c \in db.custom : ~Selected(c, p, cves)}
    <3>1. db' = [db EXCEPT !.custom = S] /\ newest' = newest
      BY <2>8 DEF DeleteOverrides, DeleteCustom
    <3>2. S \subseteq CustomRow /\ \A c, o \in S : c.cve = o.cve => c = o
      BY <2>0, TablesParts DEF Tables
    <3> HIDE DEF S
    <3>3. QED BY <3>1, <3>2, CustomWritten
  <2>9. ASSUME NEW k \in Collectors, NEW p \in Vendors, NEW cves \in Some, Snooze(k, p, cves)
        PROVE  TablesOK'
    <3> DEFINE kept == {s \in db.snoozes : ~(s.provider = p /\ s.cve \in cves)}
               new == {[collector |-> k, provider |-> p, cve |-> id] : id \in cves}
               S == kept \cup new
    <3>1. db' = [db EXCEPT !.snoozes = S] /\ newest' = newest
      BY <2>9 DEF Snooze, CreateSnoozes
    <3>2. new \subseteq SnoozeRow
      BY DEF Some, SnoozeRow
    <3>3. S \subseteq SnoozeRow
      BY <2>0, <3>2 DEF Tables
    <3>4. \A s \in new : s.collector = k /\ s.provider = p /\ s.cve \in cves
      OBVIOUS
    <3>5. \A s, o \in new : s.cve = o.cve => s = o
      OBVIOUS
    <3>6. \A s, o \in S : s.provider = o.provider /\ s.cve = o.cve => s = o
      <4>1. \A s, o \in kept : s.provider = o.provider /\ s.cve = o.cve => s = o
        BY TablesParts
      <4>2. \A s \in kept : ~(s.provider = p /\ s.cve \in cves)
        OBVIOUS
      <4> HIDE DEF kept, new
      <4>3. QED BY <3>4, <3>5, <4>1, <4>2
    <3> HIDE DEF S
    <3>7. QED BY <3>1, <3>3, <3>6, SnoozesWritten
  <2>10. ASSUME NEW k \in Collectors, NEW p \in Vendors, NEW cves \in SUBSET CveIds,
                Unsnooze(k, p, cves)
         PROVE  TablesOK'
    <3> DEFINE S == {s \in db.snoozes : ~(s.collector = p /\ Selected(s, p, cves))}
    <3>1. db' = [db EXCEPT !.snoozes = S] /\ newest' = newest
      BY <2>10 DEF Unsnooze, DeleteSnoozes
    <3>2. S \subseteq SnoozeRow /\ \A s, o \in S : s.provider = o.provider /\ s.cve = o.cve => s = o
      BY <2>0, TablesParts DEF Tables
    <3> HIDE DEF S
    <3>3. QED BY <3>1, <3>2, SnoozesWritten
  <2>11. CASE UNCHANGED commandVars
    BY <2>11 DEF commandVars, TablesOK
  <2>12. QED
    BY <2>1, <2>2, <2>3, <2>4, <2>5, <2>6, <2>7, <2>8, <2>9, <2>10, <2>11 DEF CommandsNext
<1>3. QED BY <1>1, <1>2, PTL DEF CommandsSpec

\* Whatever came before, exports, edits, deletions and the summary agree with each
\* other (export.go, custom.go, editcmd.go, snooze.go, summary.go).
THEOREM ExportIsSound == CommandsSpec => []ExportSound
<1>1. TablesOK => ExportSound
  <2> SUFFICES ASSUME TablesOK PROVE ExportSound
    OBVIOUS
  <2>1. KeysOK(db)
    BY TablesAreKeyed
  <2>2. \A providers \in SUBSET Vendors, cves \in SUBSET CveIds : FiltersSelect(db, providers, cves)
    BY <2>1, FiltersOnlySelect
  <2>3. OverriddenOnce(db)
    BY <2>1, ExportHasOnce
  <2>4. \A p \in Vendors, cves \in Some : \A text \in [cves -> Texts] :
          EditTakesEffect(db, p, cves, text) /\ DeleteUndoes(db, p, cves, text)
    BY <2>1, EditIsExported, EditIsUndone
  <2>5. \A k \in Collectors, p \in Vendors, cves \in SUBSET CveIds : DeletesOwnOnly(db, k, p, cves)
    BY <2>1, DeletionsStayOwn
  <2>6. SummaryCounts(db)
    BY <2>1, SummaryAddsUp
  <2>7. QED BY <2>2, <2>3, <2>4, <2>5, <2>6 DEF ExportSound
<1>2. QED BY <1>1, CommandsInvariant, PTL
-----------------------------------------------------------------------------
(* Comparison of two feeds                                                      *)

\* Three parts that have nothing in common are counted one after the other.
LEMMA ThreeParts ==
  ASSUME NEW S, IsFiniteSet(S), NEW X, NEW Y, NEW Z, S = X \cup Y \cup Z,
         X \cap Y = {}, X \cap Z = {}, Y \cap Z = {}
  PROVE  Cardinality(S) = Cardinality(X) + Cardinality(Y) + Cardinality(Z)
<1>1. X \subseteq S /\ Y \subseteq S /\ Z \subseteq S /\ X \cup Y \subseteq S
  OBVIOUS
<1>2. IsFiniteSet(X) /\ IsFiniteSet(Y) /\ IsFiniteSet(Z) /\ IsFiniteSet(X \cup Y)
  BY <1>1, FS_Subset
<1>3. (X \cup Y) \cap Z = {}
  OBVIOUS
<1>4. Cardinality(X \cup Y) = Cardinality(X) + Cardinality(Y)
  <2>1. Cardinality(X \cup Y) = Cardinality(X) + Cardinality(Y) - Cardinality(X \cap Y)
    BY <1>2, FS_Union
  <2>2. Cardinality(X \cap Y) = 0
    BY FS_EmptySet
  <2>3. Cardinality(X) \in Nat /\ Cardinality(Y) \in Nat
    BY <1>2, FS_CardinalityType
  <2> QED BY <2>1, <2>2, <2>3
<1>5. Cardinality(S) = Cardinality(X \cup Y) + Cardinality(Z)
  <2>1. Cardinality((X \cup Y) \cup Z)
          = Cardinality(X \cup Y) + Cardinality(Z) - Cardinality((X \cup Y) \cap Z)
    BY <1>2, FS_Union
  <2>2. Cardinality((X \cup Y) \cap Z) = 0
    BY <1>3, FS_EmptySet
  <2>3. Cardinality(X \cup Y) \in Nat /\ Cardinality(Z) \in Nat
    BY <1>2, FS_CardinalityType
  <2> QED BY <2>1, <2>2, <2>3
<1> QED BY <1>4, <1>5

\* The bits of an entry, and how many they are.
LEMMA DifferenceBits ==
  ASSUME NEW x, NEW y
  PROVE  /\ 1 \in Difference(x, y) <=> ~SameDescription(x, y)
         /\ 2 \in Difference(x, y) <=> ~SameScore(x, y)
         /\ Difference(x, y) \subseteq {1, 2}
BY DEF Difference
LEMMA CountBits ==
  ASSUME NEW bits, bits \subseteq {1, 2}, bits # {}
  PROVE  Cardinality(bits) = IF bits = {1, 2} THEN 2 ELSE 1
<1>1. Cardinality({1}) = 1 /\ Cardinality({2}) = 1
  BY FS_Singleton
<1>2. Cardinality({1, 2}) = 2
  <2>1. IsFiniteSet({1})
    BY FS_Singleton
  <2>2. {1, 2} = {1} \cup {2} /\ 2 \notin {1}
    OBVIOUS
  <2>3. Cardinality({1} \cup {2}) = Cardinality({1}) + 1
    BY <2>1, <2>2, FS_AddElement
  <2> QED BY <1>1, <2>2, <2>3
<1>3. bits = {1} \/ bits = {2} \/ bits = {1, 2}
  OBVIOUS
<1> QED BY <1>1, <1>2, <1>3

\* The other way round the same entries and bits result.
LEMMA DiffTurns ==
  ASSUME NEW a, NEW b
  PROVE  /\ Common(a, b) = Common(b, a)
         /\ \A id : Difference(a[id], b[id]) = Difference(b[id], a[id])
         /\ Entries(a, b) = Entries(b, a)
<1>1. Common(a, b) = Common(b, a)
  BY DEF Common
<1>2. \A id : Difference(a[id], b[id]) = Difference(b[id], a[id])
  BY DEF Difference, SameDescription, SameScore
<1> QED BY <1>1, <1>2 DEF Entries

\* A comparison of any two feeds accounts for every CVE, and an entry's output has a chunk
\* for every kind it differs in, but for a score alone (cvefeed/diff.go).
THEOREM DiffsAreSound ==
  ASSUME NEW a, NEW b, IsFiniteSet(DOMAIN a), IsFiniteSet(DOMAIN b)
  PROVE  DiffAccounts(a, b) /\ OutputsEveryKind(a, b)
<1> DEFINE Differs(id) == Difference(a[id], b[id])
           common == Common(a, b)
           differing == {id \in common : Differs(id) # {}}
           alike == {id \in common : /\ a[id].description = b[id].description
                                     /\ SameScore(a[id], b[id])}
           s == Stats(a, b)
           r == Stats(b, a)
<1>1. DOMAIN Entries(a, b) = differing /\ \A id \in differing : Entries(a, b)[id] = Differs(id)
  BY DEF Entries
<1>2. \A id : Differs(id) = {} <=> /\ a[id].description = b[id].description
                                   /\ SameScore(a[id], b[id])
  BY DEF Difference, SameDescription
<1>3. Cardinality(DOMAIN a)
        = Cardinality(DOMAIN a \ DOMAIN b) + Cardinality(differing) + Cardinality(alike)
  <2>1. DOMAIN a = (DOMAIN a \ DOMAIN b) \cup differing \cup alike /\ differing \cap alike = {}
    BY <1>2 DEF Common
  <2>2. (DOMAIN a \ DOMAIN b) \cap differing = {} /\ (DOMAIN a \ DOMAIN b) \cap alike = {}
    BY DEF Common
  <2> HIDE DEF differing, alike
  <2> QED BY <2>1, <2>2, ThreeParts
<1>4. Cardinality(DOMAIN b)
        = Cardinality(DOMAIN b \ DOMAIN a) + Cardinality(differing) + Cardinality(alike)
  <2>1. DOMAIN b = (DOMAIN b \ DOMAIN a) \cup differing \cup alike /\ differing \cap alike = {}
    BY <1>2 DEF Common
  <2>2. (DOMAIN b \ DOMAIN a) \cap differing = {} /\ (DOMAIN b \ DOMAIN a) \cap alike = {}
    BY DEF Common
  <2> HIDE DEF differing, alike
  <2> QED BY <2>1, <2>2, ThreeParts
<1>5. ASSUME NEW bit \in {1, 2}
      PROVE  s.bitCounts[bit] = Cardinality({id \in DOMAIN s.entries : bit \in s.entries[id]})
  <2>1. {id \in common : bit \in Differs(id)} = {id \in differing : bit \in Differs(id)}
    OBVIOUS
  <2>2. s.bitCounts[bit] = Cardinality({id \in common : bit \in Differs(id)})
    BY DEF Stats, Bits
  <2>3. s.entries = Entries(a, b)
    BY DEF Stats
  <2>4. {id \in DOMAIN s.entries : bit \in s.entries[id]} = {id \in differing : bit \in Differs(id)}
    <3> HIDE DEF s, differing, Differs
    <3> QED BY <1>1, <2>3
  <2> HIDE DEF s, differing, Differs
  <2> QED BY <2>1, <2>2, <2>4
<1>6. r.entries = s.entries /\ r.aNotB = s.bNotA /\ r.bitCounts = s.bitCounts
  <2>1. \A bit : {id \in Common(b, a) : bit \in Difference(b[id], a[id])}
                   = {id \in common : bit \in Differs(id)}
    BY DiffTurns
  <2>2. r.bitCounts = [bit \in Bits |-> Cardinality({id \in common : bit \in Differs(id)})]
    BY <2>1 DEF Stats
  <2>3. s.bitCounts = [bit \in Bits |-> Cardinality({id \in common : bit \in Differs(id)})]
    BY DEF Stats
  <2>4. r.entries = s.entries /\ r.aNotB = s.bNotA
    BY DiffTurns DEF Stats
  <2> QED BY <2>2, <2>3, <2>4
<1>7. DiffAccounts(a, b)
  <2>1. /\ s.numVulnsA = Cardinality(DOMAIN a) /\ s.numVulnsB = Cardinality(DOMAIN b)
        /\ s.aNotB = DOMAIN a \ DOMAIN b /\ s.bNotA = DOMAIN b \ DOMAIN a
        /\ DOMAIN s.entries = differing
    BY <1>1 DEF Stats
  <2> HIDE DEF differing
  <2>2. /\ s.numVulnsA = Cardinality(s.aNotB) + Cardinality(DOMAIN s.entries) + Cardinality(alike)
        /\ s.numVulnsB = Cardinality(s.bNotA) + Cardinality(DOMAIN s.entries) + Cardinality(alike)
    BY <1>3, <1>4, <2>1
  <2> QED BY <1>5, <1>6, <2>2 DEF DiffAccounts, Bits
<1>8. ASSUME NEW id \in differing
      PROVE  LET bits == Differs(id) IN
             IF a[id].description = b[id].description THEN OutOfRange(bits)
             ELSE /\ ~OutOfRange(bits)
                  /\ Len(EntryOutput(bits)) = Cardinality(bits)
                  /\ SameScore(a[id], b[id])
                       <=> \A k \in DOMAIN EntryOutput(bits) :
                             EntryOutput(bits)[k] # "score"
  <2> DEFINE bits == Differs(id)
             out == EntryOutput(bits)
  <2>1. /\ 1 \in bits <=> a[id].description # b[id].description
        /\ 2 \in bits <=> ~SameScore(a[id], b[id])
        /\ bits \subseteq {1, 2} /\ bits # {}
    BY DifferenceBits DEF SameDescription
  <2> HIDE DEF bits
  <2>2. Places(bits) = IF bits = {1, 2} THEN 2 ELSE 1
    BY <2>1, CountBits DEF Places
  <2>3. Places(bits) = Cardinality(bits)
    BY DEF Places
  <2>4. CASE a[id].description = b[id].description
    <3>1. bits = {2}
      BY <2>1, <2>4
    <3>2. OutOfRange(bits)
      BY <2>2, <3>1 DEF OutOfRange
    <3> QED BY <2>4, <3>2 DEF bits
  <2>5. CASE a[id].description # b[id].description
    <3>1. bits = {1} \/ bits = {1, 2}
      BY <2>1, <2>5
    <3>2. ~OutOfRange(bits)
      BY <2>2, <3>1 DEF OutOfRange
    <3>3. out = [k \in 1 .. Places(bits) |-> IF k \in bits THEN Kinds[k] ELSE "none"]
      BY DEF EntryOutput
    <3>4. Places(bits) \in Nat /\ Len(out) = Places(bits) /\ DOMAIN out = 1 .. Places(bits)
      BY <2>2, <3>3
    <3>5. out[1] = "description" /\ (bits = {1, 2} => out[2] = "score")
      BY <2>2, <3>1, <3>3 DEF Kinds
    <3>6. 2 \in bits <=> \E k \in DOMAIN out : out[k] = "score"
      <4>1. CASE bits = {1}
        <5>1. DOMAIN out = {1} /\ 2 \notin bits
          BY <2>2, <3>4, <4>1
        <5> QED BY <3>5, <5>1
      <4>2. CASE bits = {1, 2}
        BY <2>2, <3>4, <3>5, <4>2
      <4> QED BY <3>1, <4>1, <4>2
    <3> HIDE DEF out
    <3>7. SameScore(a[id], b[id]) <=> \A k \in DOMAIN out : out[k] # "score"
      BY <2>1, <3>6
    <3> QED BY <2>3, <2>5, <3>2, <3>4, <3>7 DEF bits, out
  <2> QED BY <2>4, <2>5
<1>9. OutputsEveryKind(a, b)
  <2>1. s.entries = Entries(a, b)
    BY DEF Stats
  <2> QED BY <1>1, <1>8, <2>1 DEF OutputsEveryKind
<1> QED BY <1>7, <1>9
=============================================================================
