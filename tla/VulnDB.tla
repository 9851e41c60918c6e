------------------------------- MODULE VulnDB -------------------------------
(* vulndb/vendor.go: importers write versions of the vendors' datasets into the
   tables vendor and vendor_data, trimmers delete old ones, exporters read the
   latest ready one.  Each SQL statement is a step of its own: nothing here runs
   in a transaction, and there is no foreign key between the two tables.       *)
EXTENDS Integers, Sequences, FiniteSets

CONSTANTS Providers,
          Datasets,     \* what is imported: sequences of files, each a sequence of CVEs
          Importers, Trimmers,
          BatchSize,    \* records per REPLACE (100 in the code)
          DeleteLimit,  \* rows per DELETE of orphans (100 in the code)
          TrimLatest,   \* subset of BOOLEAN: the values of DeleteLatestVersion
          SlowImports,  \* whether an import may take more than a day
          MaxVersion, MaxFaults   \* bounds: versions made, statements that fail

CvesOf(files) == UNION {{files[j][k] : k \in 1 .. Len(files[j])} : j \in 1 .. Len(files)}
Cves == UNION {CvesOf(d) : d \in Datasets}
\* the import command takes one file or more
ASSUME VulnDBAssumption ==
  /\ BatchSize \in Nat \ {0} /\ DeleteLimit \in Nat \ {0}
  /\ MaxVersion \in Nat /\ MaxFaults \in Nat
  /\ TrimLatest \subseteq BOOLEAN /\ SlowImports \in BOOLEAN
  /\ Datasets \subseteq Seq(Seq(Cves)) \ {<<>>}

Versions == 1 .. MaxVersion
Smaller(m, n) == IF m < n THEN m ELSE n

VARIABLES
  vendor,       \* rows of vendor: version -> [provider, ready], in DOMAIN the versions
  data,         \* rows of vendor_data: set of <<version, cve>>
  counter,      \* AUTO_INCREMENT of vendor
  old,          \* versions made more than a day ago
  imp,          \* each importer: its step and its position in the files
  trim,         \* each trimmer: its step and the versions it selected
  faults,
  made          \* history: the provider and dataset each version was made for

vars == <<vendor, data, counter, old, imp, trim, faults, made>>

Idle == [pc |-> "idle", version |-> 0, files |-> <<>>, file |-> 0, start |-> 0,
         size |-> 0, from |-> 0, idx |-> 0]
NoTrim == [pc |-> "idle", versions |-> {}]

Init ==
  /\ vendor = <<>> /\ data = {} /\ counter = 0 /\ old = {} /\ faults = 0 /\ made = <<>>
  /\ imp = [m \in Importers |-> Idle]
  /\ trim = [t \in Trimmers |-> NoTrim]

Fault == faults < MaxFaults /\ faults' = faults + 1

-----------------------------------------------------------------------------
(* ImportFiles.                                                              *)
\* Faulty variant: the version is ready from the start.
NewRowReady(p) == [provider |-> p, ready |-> TRUE]
NewRow(p) == [provider |-> p, ready |-> FALSE]

NewVersion(m) ==
  /\ imp[m].pc = "idle" /\ counter < MaxVersion
  /\ counter' = counter + 1
  /\ \E p \in Providers, d \in Datasets :
       /\ vendor' = [v \in DOMAIN vendor \cup {counter'} |->
            IF v = counter' THEN NewRow(p) ELSE vendor[v]]
       /\ made' = Append(made, [provider |-> p, files |-> d])
       /\ imp' = [imp EXCEPT ![m] = [Idle EXCEPT !.pc = "load", !.version = counter',
                                                 !.files = d, !.file = 1]]
  /\ UNCHANGED <<data, old, trim, faults>>

\* what a statement of the batch loop inserts: records[idx:limit] of the batch
File(r) == r.files[r.file]
BatchLen(r) == Smaller(BatchSize, Len(File(r)) - r.start)
Limit(r) == Smaller(r.idx + r.size, BatchLen(r))
Slice(r) == {<<r.version, File(r)[r.start + k]>> : k \in r.idx + 1 .. Limit(r)}

\* the batch at position s of the file, tried as a whole first
StartBatch(r, s) ==
  LET b == Smaller(BatchSize, Len(File(r)) - s) IN
  [r EXCEPT !.pc = "insert", !.start = s, !.size = b, !.from = 0, !.idx = 0]
NextFile(r) ==
  IF r.file < Len(r.files) THEN [r EXCEPT !.pc = "load", !.file = @ + 1]
  ELSE [r EXCEPT !.pc = "enable"]

LoadFile(m) ==
  /\ imp[m].pc = "load"
  /\ imp' = [imp EXCEPT ![m] = IF Len(File(@)) = 0 THEN NextFile(@) ELSE StartBatch(@, 0)]
  /\ UNCHANGED <<vendor, data, counter, old, trim, faults, made>>

\* the loop's next statement, the next batch, or the next file
AfterInsert(r) ==
  IF r.idx + r.size < BatchLen(r) THEN [r EXCEPT !.idx = @ + r.size, !.from = Limit(r)]
  ELSE IF r.start + BatchSize < Len(File(r)) THEN StartBatch(r, r.start + BatchSize)
  ELSE NextFile(r)

Replace(m) ==
  /\ imp[m].pc = "insert"
  /\ data' = data \cup Slice(imp[m])
  /\ imp' = [imp EXCEPT ![m] = AfterInsert(@)]
  /\ UNCHANGED <<vendor, counter, old, trim, faults, made>>

\* Faulty variant: the next size starts over, with what was inserted.
RetrySmallerAgain(r) == [r EXCEPT !.size = @ \div 2, !.idx = 0]
\* half the size, from behind the last success
RetrySmaller(r) == [r EXCEPT !.size = @ \div 2, !.idx = r.from]

ReplaceFails(m) ==
  /\ imp[m].pc = "insert" /\ Fault
  /\ imp' = [imp EXCEPT ![m] = IF @.size = 1 THEN Idle ELSE RetrySmaller(@)]
  /\ UNCHANGED <<vendor, data, counter, old, trim, made>>

\* UPDATE vendor SET ready: no row is no error
Enable(m) ==
  /\ imp[m].pc = "enable"
  /\ vendor' = IF imp[m].version \in DOMAIN vendor
               THEN [vendor EXCEPT ![imp[m].version].ready = TRUE] ELSE vendor
  /\ imp' = [imp EXCEPT ![m] = Idle]
  /\ UNCHANGED <<data, counter, old, trim, faults, made>>

\* a file that cannot be read, a failing UPDATE, or the process dies
ImportFails(m) ==
  /\ imp[m].pc # "idle" /\ Fault
  /\ imp' = [imp EXCEPT ![m] = Idle]
  /\ UNCHANGED <<vendor, data, counter, old, trim, made>>

\* a day passes
Running(v) == \E m \in Importers : imp[m].version = v
Age ==
  /\ \E v \in DOMAIN vendor \ old :
       /\ SlowImports \/ ~Running(v)
       /\ old' = old \cup {v}
  /\ UNCHANGED <<vendor, data, counter, imp, trim, faults, made>>

-----------------------------------------------------------------------------
(* latestVendorVersion and the trimmer.                                      *)
Ready(p) == {v \in DOMAIN vendor : vendor[v].provider = p /\ vendor[v].ready}
Latest(p) == {v \in Ready(p) : \A w \in Ready(p) : w <= v}

\* Faulty variant: the newest version counts, ready or not.
DeletableUnready(filter, all) ==
  {v \in DOMAIN vendor :
     /\ vendor[v].provider \in filter
     /\ all \/ \E w \in DOMAIN vendor : w > v /\ vendor[w].provider = vendor[v].provider}

\* SELECT version: ready ones and stale failures, but the latest
Deletable(filter, all) ==
  {v \in DOMAIN vendor :
     /\ vendor[v].ready \/ v \in old
     /\ vendor[v].provider \in filter
     /\ all \/ v \notin Latest(vendor[v].provider)}

SelectVersions(t) ==
  /\ trim[t].pc = "idle"
  /\ \E filter \in SUBSET Providers \ {{}}, all \in TrimLatest :
       trim' = [trim EXCEPT ![t] = [pc |-> "delete", versions |-> Deletable(filter, all)]]
  /\ UNCHANGED <<vendor, data, counter, old, imp, faults, made>>

DeleteVendors(t) ==
  /\ trim[t].pc = "delete"
  /\ vendor' = [v \in DOMAIN vendor \ trim[t].versions |-> vendor[v]]
  /\ trim' = [trim EXCEPT ![t] = [pc |-> "orphans", versions |-> {}]]
  /\ UNCHANGED <<data, counter, old, imp, faults, made>>

\* LEFT JOIN vendor ... WHERE vendor.version IS NULL
Orphans == {v \in Versions : v \notin DOMAIN vendor}

SelectOrphans(t) ==
  /\ trim[t].pc = "orphans"
  /\ LET found == {v \in Orphans : \E d \in data : d[1] = v} IN
     trim' = [trim EXCEPT ![t] = IF found = {} THEN NoTrim
                                 ELSE [pc |-> "purge", versions |-> found]]
  /\ UNCHANGED <<vendor, data, counter, old, imp, faults, made>>

\* DELETE ... LIMIT, until no row was affected
PurgeSome(t) ==
  /\ trim[t].pc = "purge"
  /\ LET rows == {d \in data : d[1] \in trim[t].versions} IN
     /\ rows # {}
     /\ \E gone \in SUBSET rows :
          /\ Cardinality(gone) = Smaller(DeleteLimit, Cardinality(rows))
          /\ data' = data \ gone
  /\ UNCHANGED <<vendor, counter, old, imp, trim, faults, made>>

\* Faulty variant: the loop may end with rows left.
PurgeDoneEarly(t) ==
  /\ trim[t].pc = "purge"
  /\ trim' = [trim EXCEPT ![t] = NoTrim]
  /\ UNCHANGED <<vendor, data, counter, old, imp, faults, made>>

PurgeDone(t) ==
  /\ trim[t].pc = "purge"
  /\ \A d \in data : d[1] \notin trim[t].versions
  /\ trim' = [trim EXCEPT ![t] = NoTrim]
  /\ UNCHANGED <<vendor, data, counter, old, imp, faults, made>>

TrimFails(t) ==
  /\ trim[t].pc # "idle" /\ Fault
  /\ trim' = [trim EXCEPT ![t] = NoTrim]
  /\ UNCHANGED <<vendor, data, counter, old, imp, made>>

-----------------------------------------------------------------------------
Import(m) == \/ LoadFile(m) \/ Replace(m) \/ ReplaceFails(m) \/ Enable(m) \/ ImportFails(m)
Purge(t) == DeleteVendors(t) \/ SelectOrphans(t) \/ PurgeSome(t) \/ PurgeDone(t)
Next ==
  \/ \E m \in Importers : NewVersion(m) \/ Import(m)
  \/ \E t \in Trimmers : SelectVersions(t) \/ Purge(t) \/ TrimFails(t)
  \/ Age
Spec == Init /\ [][Next]_vars

\* every trim that was begun goes on, and trims are begun again and again
Fairness == \A t \in Trimmers : WF_vars(SelectVersions(t) \/ Purge(t))
FairSpec == Spec /\ Fairness

-----------------------------------------------------------------------------
\* The tables hold rows of versions that were made; positions stay in the files.
TypeOK ==
  /\ counter \in 0 .. MaxVersion /\ faults \in 0 .. MaxFaults
  /\ DOMAIN vendor \subseteq 1 .. counter
  /\ \A v \in DOMAIN vendor : vendor[v] \in [provider : Providers, ready : BOOLEAN]
  /\ data \subseteq (1 .. counter) \X Cves /\ old \subseteq Versions
  /\ Len(made) = counter
  /\ \A m \in Importers : LET r == imp[m] IN
       /\ r.pc \in {"idle", "load", "insert", "enable"}
       /\ r.pc = "insert" => /\ r.start < Len(File(r)) /\ r.size \in 1 .. BatchLen(r)
                             /\ r.from <= r.idx /\ r.idx < BatchLen(r)
  /\ \A t \in Trimmers : /\ trim[t].pc \in {"idle", "delete", "orphans", "purge"}
                         /\ trim[t].versions \subseteq 1 .. counter

(* Who exports a version that is ready gets all of its dataset: no statement
   of an import is missing, and no trimmer has begun to purge it.            *)
Stored(v) == {c \in Cves : <<v, c>> \in data}
ReadyIsComplete ==
  \A v \in DOMAIN vendor : vendor[v].ready => Stored(v) = CvesOf(made[v].files)

(* A retry in smaller pieces never inserts again what an earlier statement of
   the batch has inserted (the datasets here name no CVE twice).             *)
NothingTwice ==
  \A m \in Importers : imp[m].pc = "insert" => Slice(imp[m]) \cap data = {}

(* In every state positions stay within their files, ready versions are complete, and
   the statement to come inserts nothing that is there.                      *)
Inv == TypeOK /\ ReadyIsComplete /\ NothingTwice

\* What is exported for a provider.
View == [p \in Providers |->
          IF Ready(p) = {} THEN [version |-> 0, cves |-> {}]
          ELSE LET v == CHOOSE v \in Latest(p) : TRUE IN
               [version |-> v, cves |-> Stored(v)]]
Store == INSTANCE VendorStore WITH view <- View, Complete <- {CvesOf(d) : d \in Datasets}

(* Importers, trimmers without --all, faults and abandoned imports together
   keep the promise of VendorStore, as long as imports end within a day.     *)
KeepsPromise == Store!VSpec

(* "By default keeps only the latest version of data for each provider."     *)
TrimKeepsLatest ==
  [][\A t \in Trimmers : trim[t].pc = "delete" /\ trim'[t].pc = "orphans" =>
       \A p \in Providers : Latest(p) \subseteq DOMAIN vendor']_vars

(* An import that returns its version without an error has made it ready.    *)
SuccessIsReady ==
  [][\A m \in Importers : imp[m].pc = "enable" /\ imp'[m].pc = "idle" /\ faults' = faults =>
       imp[m].version \in DOMAIN vendor' /\ vendor'[imp[m].version].ready]_vars

(* Rows without a vendor never stay: those a trimmer left behind when it failed
   and those of abandoned imports alike are deleted by a later trim.         *)
OrphansArePurged == []<>(\A v \in Orphans : Stored(v) = {})
=============================================================================
