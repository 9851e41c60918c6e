------------------------------ MODULE Matching ------------------------------
(***************************************************************************)
(* From configurations to answers: vulnerabilities enter a dictionary,      *)
(* those that overrides name are overridden, the dictionary is indexed or   *)
(* not, and lists of names are matched against it (cmd/cpe2cve/cpe2cve.go,  *)
(* cvefeed/dictionary.go, cvefeed/cvecache.go).  How feeds are read is      *)
(* LoadFeed's subject, and what is kept of the answers that of CveCache.    *)
(***************************************************************************)
EXTENDS Lookup

CONSTANTS VulnIds,
          Characters,      \* of the attributes' values
          RangeBounds,     \* versions that bound a range
          Configurations,  \* of vulnerabilities and overrides
          Names            \* that may be asked

\* the CPEs and nodes of a configuration; a node has a lower number than its children
CpeMatch == [name : [Attributes -> Seq(Characters)], usable : BOOLEAN,
             startIncluding : RangeBounds, startExcluding : RangeBounds,
             endIncluding : RangeBounds, endExcluding : RangeBounds]
IsConfiguration(tree) ==
  /\ Len(tree) \in Nat \ {0} /\ DOMAIN tree = 1 .. Len(tree)
  /\ \A n \in 1 .. Len(tree) :
       /\ tree[n].negate \in BOOLEAN
       /\ \A cpe \in tree[n].cpes : cpe \in CpeMatch
       /\ tree[n].children \subseteq n + 1 .. Len(tree)

ASSUME MatchingAssumption ==
  /\ {Product, Version} \subseteq Attributes
  /\ \A tree \in Configurations : IsConfiguration(tree)
  /\ \A a \in Names : a \in [Attributes -> Seq(Characters)]

VARIABLES progress,        \* of Main
          known,           \* the dictionary
          amendments,      \* the dictionary of the overrides
          indexed, idx,    \* whether Cache.Idx was made, and it
          requireVersion,  \* of the cache
          asked, answer    \* the last list of names, and what it has found

matchVars == <<progress, known, amendments, indexed, idx, requireVersion, asked, answer>>

MatchInit ==
  /\ progress = "feeds" /\ known = <<>> /\ amendments = <<>>
  /\ indexed = FALSE /\ idx = <<>> /\ requireVersion = FALSE
  /\ asked = {} /\ answer = <<>>

\* LoadFeed: a vulnerability of a feed; the last of an identifier stays
Put(dict, id, x) == [i \in DOMAIN dict \cup {id} |-> IF i = id THEN x ELSE dict[i]]
Load(id, tree) ==
  /\ progress = "feeds"
  /\ known' = Put(known, id, Vulnerability(tree, NoOverride))
  /\ UNCHANGED <<progress, amendments, indexed, idx, requireVersion, asked, answer>>
\* without any CVE the command ends
FeedsRead ==
  /\ progress = "feeds" /\ DOMAIN known # {}
  /\ progress' = "overrides"
  /\ UNCHANGED <<known, amendments, indexed, idx, requireVersion, asked, answer>>
LoadOverride(id, tree) ==
  /\ progress = "overrides"
  /\ amendments' = Put(amendments, id, tree)
  /\ UNCHANGED <<progress, known, indexed, idx, requireVersion, asked, answer>>

\* Dictionary.Override
Amended(dict, overrides) ==
  [id \in DOMAIN dict |-> IF id \in DOMAIN overrides
                          THEN Vulnerability(dict[id].own, overrides[id]) ELSE dict[id]]
\* overrides, the caches and their indices, before the first record is read
Serve(requires, indexes) ==
  /\ progress = "overrides"
  /\ progress' = "serve"
  /\ known' = Amended(known, amendments)
  /\ requireVersion' = requires /\ indexed' = indexes
  /\ idx' = IF indexes THEN NewIndex(Amended(known, amendments)) ELSE <<>>
  /\ UNCHANGED <<amendments, asked, answer>>

\* Cache.match
Get(names) ==
  /\ progress = "serve"
  /\ asked' = names
  /\ answer' = MatchDict(known, IF indexed THEN FromIndex(known, idx, names) ELSE DOMAIN known,
                         names, requireVersion)
  /\ UNCHANGED <<progress, known, amendments, indexed, idx, requireVersion>>

MatchNext ==
  \/ \E id \in VulnIds, tree \in Configurations : Load(id, tree) \/ LoadOverride(id, tree)
  \/ FeedsRead
  \/ \E requires, indexes \in BOOLEAN : Serve(requires, indexes)
  \/ \E names \in SUBSET Names : Get(names)
MatchSpec == MatchInit /\ [][MatchNext]_matchVars

-----------------------------------------------------------------------------
MatchTypeOK ==
  /\ progress \in {"feeds", "overrides", "serve"}
  /\ \A id \in DOMAIN known : /\ known[id].own \in Configurations
                             /\ known[id].override \in Configurations \cup {NoOverride}
  /\ \A id \in DOMAIN amendments : amendments[id] \in Configurations
  /\ indexed \in BOOLEAN /\ requireVersion \in BOOLEAN /\ asked \subseteq Names

\* no backslash at the end of a product that quotes nothing: only a value that is a
\* single backslash has one
EndsWhole(name) ==
  LET p == name[Product] IN
  p # ANY /\ p[Len(p)] = Backslash => Quoted(p, Len(p))

\* Looked up through the index or not, names find in every vulnerability that has no
\* negation what they find in it itself: wildcards and ANY on either side, overrides and
\* names the index has never seen included.
AnswerIsWhole ==
  (\A a \in asked : EndsWhole(a)) =>
    \A id \in DOMAIN known :
      LET found == MatchOne(known[id], asked, requireVersion) IN
      ~HasNegation(known[id].own) =>
        /\ id \in DOMAIN answer <=> found # {}
        /\ id \in DOMAIN answer => answer[id] = found

\* What is answered was asked, the vulnerability's own configuration finds it, and the
\* override that was loaded for it does not.
AnswersStand ==
  \A id \in DOMAIN answer :
    /\ id \in DOMAIN known /\ answer[id] # {}
    /\ answer[id] \subseteq asked \cap MatchVuln(known[id].own, asked, requireVersion)
    /\ id \in DOMAIN amendments /\ ~HasAnd(amendments[id]) /\ ~HasNegation(amendments[id]) =>
         answer[id] \cap MatchVuln(amendments[id], asked, requireVersion) = {}

\* A request finds in every vulnerability what its configuration's formula says, whether
\* the dictionary is indexed or not; to require a version never finds more, a CPE that
\* cannot be parsed never hides a name, and an override hides what it matches itself and
\* only that (cvefeed, cvefeed/nvd).
MatchersSound ==
  /\ MatchTypeOK /\ AnswerIsWhole /\ AnswersStand
  /\ \A id \in DOMAIN known :
       LET own == known[id].own
           override == known[id].override
       IN  /\ FindsByFormula(own, asked, requireVersion)
           /\ RequiringNarrows(own, asked)
           /\ LeftOutWidens(own, asked, requireVersion)
           /\ override # NoOverride => OverrideHides(own, override, asked, requireVersion)
=============================================================================
