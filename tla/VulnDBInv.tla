------------------------------ MODULE VulnDBInv ------------------------------
(* The inductive invariant behind VulnDB's TrimKeepsLatest, and what it needs:
   imports end within a day, and nobody asks for the latest to be deleted.   *)
EXTENDS VulnDB

ImportsEndInADay == SlowImports = FALSE
TrimsAreDefault == TrimLatest \subseteq {FALSE}

Made == 1 .. counter

\* The versions some trimmer is about to delete.
Condemned == UNION {trim[t].versions : t \in {t \in Trimmers : trim[t].pc = "delete"}}

\* The tables name versions that were made.  Of an importer's record only the
\* fields are told, and the version.
Fields == {"pc", "version", "files", "file", "start", "size", "from", "idx"}
IsImport(r) == r = [x \in Fields |-> r[x]]
Rows ==
  /\ counter \in Nat
  /\ DOMAIN vendor \subseteq Made
  /\ \A v \in DOMAIN vendor : vendor[v] \in [provider : Providers, ready : BOOLEAN]
  /\ vendor = [v \in DOMAIN vendor |-> vendor[v]]
  /\ old \subseteq Made
  /\ imp = [m \in Importers |-> imp[m]]
  /\ \A m \in Importers : IsImport(imp[m]) /\ imp[m].version \in 0 .. counter
  /\ trim \in [Trimmers -> [pc : {"idle", "delete", "orphans", "purge"},
                            versions : SUBSET Nat]]
  /\ Condemned \subseteq Made

\* A version is made by one importer, and neither ready nor stale while it is.
Making ==
  \A m \in Importers : imp[m].version # 0 =>
    /\ imp[m].version \notin old
    /\ imp[m].version \in DOMAIN vendor => ~vendor[imp[m].version].ready
    /\ \A n \in Importers : imp[n].version = imp[m].version => n = m

\* A stale failure stays what it is; what is older than a ready version that no
\* trimmer is about to delete never becomes the latest.
Abandoned(v) == v \in old /\ ~vendor[v].ready
Superseded(v) ==
  \E w \in DOMAIN vendor \ Condemned :
    /\ w > v /\ vendor[w].provider = vendor[v].provider /\ vendor[w].ready
CondemnedForGood == \A v \in Condemned \cap DOMAIN vendor : Abandoned(v) \/ Superseded(v)

HasLatest == \A p \in Providers : Ready(p) # {} => Latest(p) # {}

(* What a trimmer has selected can be deleted at any later time, whatever the
   importers and the other trimmers do before: it is a stale failure, or older
   than a ready version that nobody is about to delete.  With the typing of the
   tables, and one importer per version, this is inductive.                  *)
TrimInv == Rows /\ Making /\ CondemnedForGood /\ HasLatest

-----------------------------------------------------------------------------
\* What an import has been through: of the file it is at, the records before those its
\* next statement inserts.
Positions(files) == UNION {{<<j, k>> : k \in 1 .. Len(files[j])} : j \in 1 .. Len(files)}
Through(r, p) ==
  \/ r.pc = "enable" \/ p[1] < r.file
  \/ r.pc = "insert" /\ p[1] = r.file /\ p[2] <= r.start + r.idx

\* An import is at a position of its files; a retry begins behind what was inserted.
ImportAt(r) ==
  /\ IsImport(r) /\ r.pc \in {"load", "insert", "enable"}
  /\ r.version \in Made /\ r.files = made[r.version].files
  /\ r.file \in 1 .. Len(r.files)
  /\ r.pc = "insert" => /\ r.start \in Nat /\ r.start < Len(File(r))
                        /\ r.idx \in Nat /\ r.idx < BatchLen(r) /\ r.from = r.idx
                        /\ r.size \in 1 .. BatchLen(r)

\* The tables and the history name versions that were made.
StoreRows ==
  /\ counter \in 0 .. MaxVersion /\ faults \in 0 .. MaxFaults
  /\ made \in Seq([provider : Providers, files : Datasets]) /\ Len(made) = counter
  /\ DOMAIN vendor \subseteq Made /\ vendor = [v \in DOMAIN vendor |-> vendor[v]]
  /\ \A v \in DOMAIN vendor : vendor[v] \in [provider : Providers, ready : BOOLEAN]
  /\ data \subseteq Made \X Cves /\ old \subseteq Made
  /\ trim \in [Trimmers -> [pc : {"idle", "delete", "orphans", "purge"},
                            versions : SUBSET Made]]

\* A version is not ready while it is made, and made by one importer.
Imports ==
  /\ imp = [m \in Importers |-> imp[m]]
  /\ \A m \in Importers : imp[m] = Idle \/ ImportAt(imp[m])
  /\ \A m \in Importers : imp[m] # Idle =>
       /\ imp[m].version \in DOMAIN vendor => ~vendor[imp[m].version].ready
       /\ \A n \in Importers : imp[n].version = imp[m].version => n = m

\* Of a version that is made the table has what its import has been through: nothing
\* else, and, as long as its row is there, nothing less.
AsFarAsThrough ==
  \A m \in Importers : imp[m] # Idle =>
    LET r == imp[m] IN
    /\ r.version \in DOMAIN vendor =>
         \A p \in Positions(r.files) : Through(r, p) => <<r.version, r.files[p[1]][p[2]]>> \in data
    /\ \A d \in data : d[1] = r.version =>
         \E p \in Positions(r.files) : Through(r, p) /\ d[2] = r.files[p[1]][p[2]]

\* What is purged has no row, and will never have one again.
PurgesOrphans == \A t \in Trimmers : trim[t].pc = "purge" => trim[t].versions \cap DOMAIN vendor = {}

(* An import has inserted what it has been through, and no trimmer purges the data of a
   version with a row, so a version is complete when it becomes ready and stays so as
   long as it is there.                                                      *)
StoreInv == StoreRows /\ Imports /\ AsFarAsThrough /\ PurgesOrphans /\ ReadyIsComplete

\* No dataset names a CVE twice: then a statement that inserts one again is a mistake.
NoCveTwice ==
  \A d \in Datasets : \A p, q \in Positions(d) : d[p[1]][p[2]] = d[q[1]][q[2]] => p = q
=============================================================================
