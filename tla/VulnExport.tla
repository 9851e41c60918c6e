----------------------------- MODULE VulnExport -----------------------------
(* vulndb: overrides, snoozes and what is exported.  A database is a record of the
   sets of rows of its tables; a statement is one of its operators, as MySQL carries
   out a statement atomically.  An empty filter lets everything through.      *)
EXTENDS Integers, FiniteSets

Passes(x, filter) == filter = {} \/ x \in filter

\* latestVendorVersion: of each provider, among the versions that are ready
LatestVendorVersions(db) ==
  {v \in db.vendor : /\ v.ready
                     /\ \A w \in db.vendor :
                          w.ready /\ w.provider = v.provider => w.version <= v.version}
SelectLatestVersion(db, providers) ==
  {v.version : v \in {x \in LatestVendorVersions(db) : Passes(x.provider, providers)}}

\* a row of an export
Row(provider, cve, json) == [provider |-> provider, cve |-> cve, json |-> json]
ProviderOf(db, version) == (CHOOSE v \in db.vendor : v.version = version).provider
\* the row joins one of custom_data, which is to be NULL
Hidden(db, d) == \E c \in db.custom : c.cve = d.cve
SelectVendorData(db, providers, cves) ==
  {Row(ProviderOf(db, d.version), d.cve, d.json) :
     d \in {x \in db.vendorData : /\ x.version \in SelectLatestVersion(db, providers)
                                  /\ ~Hidden(db, x)
                                  /\ Passes(x.cve, cves)}}
\* Faulty variant: the overrides of all providers.
OverridesOfAll(db, providers, cves) == {c \in db.custom : Passes(c.cve, cves)}
SelectOverrides(db, providers, cves) ==
  {c \in db.custom : Passes(c.provider, providers) /\ Passes(c.cve, cves)}
\* DataExporter.CSV and JSON: UNION ALL
Export(db, providers, cves) ==
  SelectVendorData(db, providers, cves) \cup SelectOverrides(db, providers, cves)

-----------------------------------------------------------------------------
\* CustomDataImporter: REPLACE, and the key of custom_data is the CVE alone
ImportCustom(db, rows) ==
  [db EXCEPT !.custom = {c \in @ : \A r \in rows : r.cve # c.cve} \cup rows]
\* what exporters and deleters select by: a provider, and CVEs unless none is given
Selected(row, provider, cves) == row.provider = provider /\ Passes(row.cve, cves)
CustomExport(db, provider, cves) == {c \in db.custom : Selected(c, provider, cves)}
DeleteCustom(db, provider, cves) ==
  [db EXCEPT !.custom = {c \in @ : ~Selected(c, provider, cves)}]
\* The command edit: what is exported for a provider is changed and, if it was at all,
\* imported as its overrides, into a database that others may have written to.
Edit(db, later, provider, cves, change) ==
  LET exported == Export(db, {provider}, cves)
      edited == {Row(provider, r.cve, IF r.cve \in DOMAIN change THEN change[r.cve] ELSE r.json) :
                   r \in exported}
  IN  IF edited = exported THEN later ELSE ImportCustom(later, edited)

\* SnoozeCreator: REPLACE, and the key of snooze is provider and CVE
CreateSnoozes(db, collector, provider, cves) ==
  [db EXCEPT !.snoozes =
     {s \in @ : ~(s.provider = provider /\ s.cve \in cves)}
       \cup {[collector |-> collector, provider |-> provider, cve |-> id] : id \in cves}]
\* SnoozeDeleter compares the collector with the provider it is given.
DeleteSnoozes(db, collector, provider, cves) ==
  [db EXCEPT !.snoozes = {s \in @ : ~(s.collector = provider /\ Selected(s, provider, cves))}]

Current == 0     \* what stands for a version where there is none
\* the summary's rows: snoozes and overrides of each provider, data of each version
Count(kind, provider, version, rows) ==
  [kind |-> kind, provider |-> provider, version |-> version, cves |-> Cardinality(rows)]
Summary(db) ==
  {Count("snooze", s.provider, Current, {x \in db.snoozes : x.provider = s.provider}) :
     s \in db.snoozes}
  \cup {Count("custom_data", c.provider, Current, {x \in db.custom : x.provider = c.provider}) :
     c \in db.custom}
  \cup {Count("vendor_data", v.provider, v.version, {x \in db.vendorData : x.version = v.version}) :
     v \in {w \in db.vendor : w.ready /\ \E d \in db.vendorData : d.version = w.version}}

-----------------------------------------------------------------------------
(* A filtered export is the export of everything, filtered: which rows overrides hide
   does not depend on whose rows are asked for.                               *)
FiltersSelect(db, providers, cves) ==
  Export(db, providers, cves)
    = {r \in Export(db, {}, {}) : Passes(r.provider, providers) /\ Passes(r.cve, cves)}
(* An overridden CVE is exported once; any other once for each provider that has it. *)
OverriddenOnce(db) ==
  \A r, s \in Export(db, {}, {}) :
    r # s /\ r.cve = s.cve => r.provider # s.provider /\ \A c \in db.custom : c.cve # r.cve
(* An edit that nobody else interferes with is what is exported from then on, and takes
   no override away from another provider.                                    *)
EditTakesEffect(db, provider, cves, change) ==
  LET after == Edit(db, db, provider, cves, change)
      mine == {r \in Export(db, {provider}, cves) : r.cve \in DOMAIN change}
  IN  /\ \A r \in mine : /\ Row(provider, r.cve, change[r.cve]) \in Export(after, {}, {})
                         /\ after # db => \A x \in Export(after, {}, {}) :
                                           x.cve = r.cve => x.json = change[r.cve]
      /\ \A c \in db.custom : c.provider # provider => c \in after.custom
(* Deleting the overrides an edit has made gives back the export from before, if the
   provider had none.                                                         *)
DeleteUndoes(db, provider, cves, change) ==
  (\A c \in db.custom : c.provider # provider) =>
    Export(DeleteCustom(Edit(db, db, provider, cves, change), provider, cves), {}, {})
      = Export(db, {}, {})
(* A deletion of overrides or snoozes for one provider leaves those of all others. *)
DeletesOwnOnly(db, collector, provider, cves) ==
  /\ \A c \in db.custom : c.provider # provider => c \in DeleteCustom(db, provider, cves).custom
  /\ \A s \in db.snoozes :
       s.provider # provider => s \in DeleteSnoozes(db, collector, provider, cves).snoozes
(* What the summary counts of a provider's latest data is what an export has of it,
   and the rows that overrides hide.  (What it counts of overrides is not compared.) *)
SummaryCounts(db) ==
  \A v \in LatestVendorVersions(db) :
    LET shown == SelectVendorData(db, {v.provider}, {})
        hidden == {d \in db.vendorData : d.version = v.version /\ Hidden(db, d)}
        counted == {s \in Summary(db) : s.kind = "vendor_data" /\ s.version = v.version}
    IN  IF shown = {} /\ hidden = {} THEN counted = {}
        ELSE counted = {[kind |-> "vendor_data", provider |-> v.provider, version |-> v.version,
                         cves |-> Cardinality(shown) + Cardinality(hidden)]}
=============================================================================
