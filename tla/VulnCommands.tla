---------------------------- MODULE VulnCommands ----------------------------
(***************************************************************************)
(* The commands of vulndb that write overrides and snoozes (customcmd.go,   *)
(* editcmd.go, snoozecmd.go), each one statement on the tables, among       *)
(* versions of vendors' data that come, get ready and go.  How importers    *)
(* and trimmers write those is VulnDB's subject; here their statements may  *)
(* come at any time.                                                        *)
(***************************************************************************)
EXTENDS VulnExport

CONSTANTS Vendors,      \* names of providers
          CveIds, Texts,
          Collectors,
          LastVersion   \* bound: versions made

ASSUME CommandsAssumption == LastVersion \in Nat

VARIABLES db,       \* the tables
          newest    \* AUTO_INCREMENT of vendor

commandVars == <<db, newest>>

CommandsInit ==
  /\ db = [vendor |-> {}, vendorData |-> {}, custom |-> {}, snoozes |-> {}]
  /\ newest = 0

-----------------------------------------------------------------------------
\* The vendors' data: an import's new version, one of its records, its end
AddVersion(p) ==
  /\ newest < LastVersion /\ newest' = newest + 1
  /\ db' = [db EXCEPT !.vendor = @ \cup {[version |-> newest + 1, provider |-> p, ready |-> FALSE]}]
AddRecord(v, c, text) ==
  /\ \A w \in db.vendor : w.version = v => ~w.ready
  /\ db' = [db EXCEPT !.vendorData = {d \in @ : ~(d.version = v /\ d.cve = c)}
                                        \cup {[version |-> v, cve |-> c, json |-> text]}]
  /\ UNCHANGED newest
SetReady(v) ==
  /\ db' = [db EXCEPT !.vendor = {IF w.version = v THEN [w EXCEPT !.ready = TRUE] ELSE w : w \in @}]
  /\ UNCHANGED newest
\* a trim's statements: on vendor, and on the records that have no version
DropVersion(v) ==
  /\ db' = [db EXCEPT !.vendor = {w \in @ : w.version # v}]
  /\ UNCHANGED newest
DropRecord(d) ==
  /\ \A w \in db.vendor : w.version # d.version
  /\ db' = [db EXCEPT !.vendorData = @ \ {d}]
  /\ UNCHANGED newest

\* Overrides of a file, which may be one that an edit exported at an earlier time
ImportOverrides(p, text) ==
  /\ db' = ImportCustom(db, {Row(p, c, text[c]) : c \in DOMAIN text})
  /\ UNCHANGED newest
\* an edit that nobody interferes with
EditExported(p, cves, text) == db' = Edit(db, db, p, cves, text) /\ UNCHANGED newest
DeleteOverrides(p, cves) == db' = DeleteCustom(db, p, cves) /\ UNCHANGED newest
Snooze(k, p, cves) == db' = CreateSnoozes(db, k, p, cves) /\ UNCHANGED newest
Unsnooze(k, p, cves) == db' = DeleteSnoozes(db, k, p, cves) /\ UNCHANGED newest

Issued == 1 .. newest
Some == SUBSET CveIds \ {{}}
CommandsNext ==
  \/ \E p \in Vendors : AddVersion(p)
  \/ \E v \in Issued, c \in CveIds, text \in Texts : AddRecord(v, c, text)
  \/ \E v \in Issued : SetReady(v) \/ DropVersion(v)
  \/ \E d \in db.vendorData : DropRecord(d)
  \/ \E p \in Vendors, cves \in Some : \E text \in [cves -> Texts] :
        ImportOverrides(p, text) \/ EditExported(p, cves, text)
  \/ \E p \in Vendors, cves \in SUBSET CveIds : DeleteOverrides(p, cves)
  \/ \E k \in Collectors, p \in Vendors, cves \in Some : Snooze(k, p, cves)
  \/ \E k \in Collectors, p \in Vendors, cves \in SUBSET CveIds : Unsnooze(k, p, cves)
CommandsSpec == CommandsInit /\ [][CommandsNext]_commandVars

-----------------------------------------------------------------------------
\* The tables and their primary keys (schema.sql)
TablesOK ==
  /\ newest \in Nat
  /\ db \in [vendor : SUBSET [version : Nat, provider : Vendors, ready : BOOLEAN],
             vendorData : SUBSET [version : Nat, cve : CveIds, json : Texts],
             custom : SUBSET [provider : Vendors, cve : CveIds, json : Texts],
             snoozes : SUBSET [collector : Collectors, provider : Vendors, cve : CveIds]]
  /\ IsFiniteSet(db.vendorData)
  /\ \A v \in db.vendor : v.version <= newest
  /\ \A v, w \in db.vendor : v.version = w.version => v = w
  /\ \A d, e \in db.vendorData : d.version = e.version /\ d.cve = e.cve => d = e
  /\ \A c, o \in db.custom : c.cve = o.cve => c = o
  /\ \A s, o \in db.snoozes : s.provider = o.provider /\ s.cve = o.cve => s = o

\* Whatever commands, imports and trims came before: filters only choose among the rows
\* of an export, an overridden CVE is exported once, an edit takes effect and takes no
\* override away from others, deleting its overrides undoes it, deletions stay within
\* their provider, and the summary counts what is exported and what overrides hide.
ExportSound ==
  /\ TablesOK
  /\ \A providers \in SUBSET Vendors, cves \in SUBSET CveIds : FiltersSelect(db, providers, cves)
  /\ OverriddenOnce(db)
  /\ \A p \in Vendors, cves \in Some : \A text \in [cves -> Texts] :
       EditTakesEffect(db, p, cves, text) /\ DeleteUndoes(db, p, cves, text)
  /\ \A k \in Collectors, p \in Vendors, cves \in SUBSET CveIds : DeletesOwnOnly(db, k, p, cves)
  /\ SummaryCounts(db)
=============================================================================
