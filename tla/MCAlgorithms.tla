---------------------------- MODULE MCAlgorithms ----------------------------
(* What runs in one goroutine: computations, each on its own set of inputs, and three
   machines, the eviction heap, the commands on vulndb's tables and the requests made of
   a dictionary.  A behaviour picks an algorithm and an input for it, or a machine that
   then takes its steps, and the invariants say what comes of it.             *)
EXTENDS EvictionHeap, VulnCommands, Matching

VARIABLE input

vars == <<input, heapVars, commandVars, matchVars>>

Idle == input.alg = "none"
\* one computation, of the input given; the clock is read by the heap alone
Pick(x) == now = 0 /\ input' = x /\ UNCHANGED <<heapVars, commandVars, matchVars>>

V2 == INSTANCE Cvss2
V3 == INSTANCE Cvss3
Bind == INSTANCE WfnBinding
Feed == INSTANCE FeedDiff
Pkg == INSTANCE FixedPackages WITH Attributes <- {"part", "version"}

Out == INSTANCE OutputRow

UpTo(n, S) == UNION {[1 .. k -> S] : k \in 0 .. n}

-----------------------------------------------------------------------------
\* CVSS: every base vector, and some of them with every kind of other metric
Vector(metrics, defined) == [m \in metrics |-> IF m \in DOMAIN defined THEN defined[m] ELSE 0]
Base2 == [V2!BaseMetrics -> 1 .. 3]
Some2 == [AV : {1, 3}, AC : {2}, Au : {3}, C : 1 .. 3, I : 1 .. 3, A : {1, 3}]
Other2 == [{"E", "ME", "CDP"} -> {0, 1, 2}]
Lossy2 == [AV : {1, 3}, AC : {2}, Au : {3}, C : {3}, I : {3}, A : {1, 3}]
Other2More == [{"RL", "MRL", "TD", "CR", "IR"} -> {0, 1, 3}]
Vectors2 ==
  {Vector(V2!Metrics, b) : b \in Base2}
    \cup {Vector(V2!Metrics, x @@ b) : b \in Some2, x \in Other2}
    \cup {Vector(V2!Metrics, x @@ b) : b \in Lossy2, x \in Other2More}

Base3 == [AV : 1 .. 4, AC : 1 .. 2, PR : 1 .. 3, UI : {1}, S : 1 .. 2,
          C : 1 .. 3, I : 1 .. 3, A : 1 .. 3]
Some3 == [AV : {1, 4}, AC : {1}, PR : {2}, UI : {1, 2}, S : 1 .. 2, C : {1, 3}, I : {1, 3}, A : {3}]
Other3 == [{"CR", "MC", "MS", "MPR", "ME"} -> {0, 1, 2}]
Lossy3 == [AV : {1}, AC : {1}, PR : {2}, UI : {2}, S : 1 .. 2, C : {1}, I : {1, 3}, A : {1, 3}]
Other3More == [{"E", "RL", "RC", "ME", "MRC"} -> {0, 1, 3}]
Vectors3 ==
  {Vector(V3!Metrics, b) : b \in Base3}
    \cup {Vector(V3!Metrics, x @@ b) : b \in Some3, x \in Other3}
    \cup {Vector(V3!Metrics, x @@ b) : b \in Lossy3, x \in Other3More}
Absorbed2 == [{"AV", "E", "TD"} -> {0, 1, 2}]
Absorbed3 == [{"AV", "E", "MAV", "MC"} -> {0, 1, 2}]

Cvss2Score == Idle /\ \E v \in Vectors2 : Pick([alg |-> "cvss2", v |-> v])
Cvss3Score == Idle /\ \E v \in Vectors3 : Pick([alg |-> "cvss3", v |-> v])
Cvss2Absorb ==
  Idle /\ \E x, y \in Absorbed2 :
    Pick([alg |-> "absorb2", v |-> Vector(V2!Metrics, x), other |-> Vector(V2!Metrics, y)])
Cvss3Absorb ==
  Idle /\ \E x, y \in Absorbed3 :
    Pick([alg |-> "absorb3", v |-> Vector(V3!Metrics, x), other |-> Vector(V3!Metrics, y)])

\* Properties
(* Raising one CVSS 2 metric never lowers the base score (cvss2/score.go). *)
Cvss2Monotone == input.alg = "cvss2" => V2!Monotone(input.v)
(* CVSS 2 scores stay within 0 and 10 and time never raises them. *)
Cvss2InRange == input.alg = "cvss2" => V2!InRange(input.v)
(* Environmental metrics that say nothing leave the CVSS 2 temporal score as it is. *)
Cvss2Defaults == input.alg = "cvss2" => V2!DefaultsToTemporal(input.v)
(* Raising one CVSS 3 metric never lowers the base score (cvss3/score.go). *)
Cvss3Monotone == input.alg = "cvss3" => V3!Monotone(input.v)
(* CVSS 3 scores stay within 0 and 10 in both versions and time never raises them. *)
Cvss3InRange == input.alg = "cvss3" => V3!InRange(input.v)
(* Modified metrics that repeat the base leave the CVSS 3.0 temporal score as it is. *)
Cvss3Defaults == input.alg = "cvss3" => V3!DefaultsToTemporal(input.v)
(* A vector of either version is read back from its text (vector.go). *)
VectorReadsBack ==
  /\ input.alg = "cvss2" => V2!ReadsBack(input.v)
  /\ input.alg = "cvss3" => V3!ReadsBack(input.v)
(* Absorb takes over what the other vector defines, and nothing else. *)
AbsorbsDefined ==
  /\ input.alg = "absorb2" => V2!AbsorbsDefined(input.v, input.other)
  /\ input.alg = "absorb3" => V3!AbsorbsDefined(input.v, input.other)
(* CVSS: scores are in range and monotone, defaults change nothing, and vectors are read
   back and absorbed as defined (cvss2, cvss3). *)
ScoresSound ==
  /\ Cvss2Monotone /\ Cvss2InRange /\ Cvss2Defaults
  /\ Cvss3Monotone /\ Cvss3InRange /\ Cvss3Defaults
  /\ VectorReadsBack /\ AbsorbsDefined

-----------------------------------------------------------------------------
\* Versions: points, digits, a letter and a tilde, by their codes
VersionTexts == UpTo(3, {46, 48, 49, 50}) \cup UpTo(2, {46, 48, 49, 57, 97, 98, 126})
Short == UpTo(2, {46, 48, 49, 97, 126})
ComparePair == Idle /\ \E u, v \in VersionTexts : Pick([alg |-> "pair", u |-> u, v |-> v])
CompareThree == Idle /\ \E u, v, w \in Short : Pick([alg |-> "three", u |-> u, v |-> v, w |-> w])

(* Both version orders put dotted numbers in the order of their numbers. *)
DotsByNumbers == input.alg = "pair" => DottedByNumbers(input.u, input.v)
(* Which of two versions is newer does not depend on which is named first. *)
VersionsAntisymmetric == input.alg = "pair" => Antisymmetric(input.u, input.v)
(* What is no older than a version no older than a third is no older than that one. *)
VersionsTransitive == input.alg = "three" => Transitive(input.u, input.v, input.w)

-----------------------------------------------------------------------------
NameOf(product, version) == [product |-> product, version |-> version]
\* Names: patterns of up to three characters, and names of two attributes
WellFormed(s) == s # <<>> /\ s[Len(s)] = "\\" => Quoted(s, Len(s))
Strings == {s \in UpTo(3, {"a", "*", "?", "\\"}) : WellFormed(s)}
AttrValues == {<<>>, <<"-">>, <<"a">>, <<"a", "*">>, <<"?", "*">>, <<"a", "b">>}
MatchPattern == Idle /\ \E s, t \in Strings : Pick([alg |-> "pattern", s |-> s, t |-> t])
MatchNames ==
  Idle /\ \E src, tgt \in [Attributes -> AttrValues] :
    Pick([alg |-> "names", src |-> src, tgt |-> tgt])

(* matchStr's backtracking finds a way to lay a pattern over a target if there is one. *)
PatternsCover == input.alg = "pattern" => MatchesPattern(input.s, input.t)
(* The fast matchAttr agrees with CompareAttr in every attribute of two names. *)
MatchingCompares == input.alg = "names" => MatchIsComparison(input.src, input.tgt)
(* Names without wildcards compared the other way round give the mirrored relation. *)
ComparisonsTurn == input.alg = "names" => ComparisonTurns(input.src, input.tgt)

\* values with every quoted character a binding treats in its own way
Bare(c) == Bind!Bare(c)
Quote(c) == Bind!Quote(c)
BoundValues == {
  <<>>, <<Bare("-")>>, <<Bare("a")>>, <<Quote("-"), Bare("a")>>, <<Bare("a"), Quote(".")>>,
  <<Bare("a"), Bare("?"), Bare("?")>>, <<Bare("?"), Bare("?"), Bare("a")>>,
  <<Bare("*"), Quote("~"), Bare("*")>>, <<Bare("a"), Quote(":"), Bare("1")>>, <<Quote("?")>>}
BindName ==
  Idle /\ \E f \in [{"part", "edition", "other", "language"} -> BoundValues] :
    Pick([alg |-> "bind", name |-> f @@ Bind!AnyName])
WriteWfn ==
  Idle /\ \E in \in UpTo(4, {"a", "*", "?", "\\", ":", "-"}) \ {<<>>} :
            Pick([alg |-> "wfnize", in |-> in])

(* A name written as a formatted string is read back (wfn/fsb.go). *)
FmtStringReadsBack == input.alg = "bind" => Bind!FmtStringReadsBack(input.name)
(* A name written as a URI is read back, its edition packed or not (wfn/uri.go). *)
UriReadsBack == input.alg = "bind" => Bind!UriReadsBack(input.name)
(* What WFNize makes of a string survives both bindings. *)
WfnizedIsBound == input.alg = "wfnize" => Bind!WfnizedIsBound(input.in)

\* lists of up to two names with quoted separators and backslashes in their values
Keyed == [product : {<<>>, <<"\\", "^">>, <<"\\", "\\">>},
          version : {<<>>, <<"\\", "#">>, <<"\\", "\\">>}]
KeyLists == Idle /\ \E u, v \in UpTo(2, Keyed) : Pick([alg |-> "key", names |-> u, others |-> v])
(* The cache's key tells every list of names from every other (cvefeed/cvecache.go). *)
KeysTellNames == input.alg = "key" => KeyTellsNames(input.names, input.others)
(* Names: patterns match what they say, comparisons agree with each other, what is bound is
   read back as the same name, and lists of names have keys of their own (wfn, cvefeed). *)
NamesSound ==
  /\ PatternsCover /\ MatchingCompares /\ ComparisonsTurn
  /\ FmtStringReadsBack /\ UriReadsBack /\ WfnizedIsBound /\ KeysTellNames

-----------------------------------------------------------------------------
\* Version ranges, and the version of a name
VersionBounds == {<<>>, <<49>>, <<49, 46, 50>>, <<49, 48>>}
Between(a, b, c, d) ==
  [name |-> NameOf(<<"a">>, <<>>), usable |-> TRUE, startIncluding |-> a, startExcluding |-> b,
   endIncluding |-> c, endExcluding |-> d]
NameVersions == {<<"1">>, <<"1", "\\", ".", "1">>, <<"1", "\\", ".", "2">>, <<"2">>, <<"1", "0">>,
                 <<"1", "\\", ".", "1", "0">>, <<"-">>, <<>>}
MatchRange ==
  Idle /\ \E a, b, c, d \in VersionBounds, v \in NameVersions :
    Pick([alg |-> "range", cpe |-> Between(a, b, c, d), attr |-> NameOf(<<"a">>, v)])

(* A version range holds the dotted versions between its bounds as numbers. *)
RangesByNumbers == input.alg = "range" => RangeByNumbers(input.cpe, input.attr)
(* Versions: two orders that are orders, and ranges that agree with them
   (smartvercmp.go, rpm/compare.go, match_cpe.go). *)
VersionsOrdered ==
  DotsByNumbers /\ VersionsAntisymmetric /\ VersionsTransitive /\ RangesByNumbers

-----------------------------------------------------------------------------
\* Dictionaries of up to two CVEs, compared
Vuln == [description : {"x", "y"}, cvss2 : {0, 1}, cvss3 : {0, 1}]
Dictionaries == UNION {[S -> Vuln] : S \in SUBSET {"cve1", "cve2"}}
CompareFeeds == Idle /\ \E a, b \in Dictionaries : Pick([alg |-> "diff", a |-> a, b |-> b])
(* The numbers of a feed comparison account for every CVE of both feeds. *)
DiffAccounts == input.alg = "diff" => Feed!DiffAccounts(input.a, input.b)
(* An entry's output has a chunk for each kind of difference, but for a score alone. *)
OutputsEveryKind == input.alg = "diff" => Feed!OutputsEveryKind(input.a, input.b)
(* A comparison accounts for every CVE and outputs every kind of difference (diff.go). *)
DiffSound == DiffAccounts /\ OutputsEveryKind

-----------------------------------------------------------------------------
\* Packages: names with a hyphen, a point and a capital; labels with epoch and tilde
PkgNames == {<<97>>, <<97, 45, 98>>, <<97, 46, 98>>, <<65>>}
Epochs == {<<>>, <<48>>, <<49>>}
Parts == {<<49>>, <<49, 46, 49>>, <<49, 126, 49>>}
Labels == Epochs \X Parts \X {<<49>>, <<49, 46, 101>>}
Archs == {<<120>>}
ParsePackage == Idle /\ \E n \in PkgNames, l \in Epochs \X Parts \X Parts, a \in Archs :
  Pick([alg |-> "parse", name |-> n, label |-> l, arch |-> a])

Distro(version) == [part |-> <<"o">>, version |-> version]
Entry(cpe, version, package) ==
  [cpe |-> cpe, distro |-> Distro(version), package |-> package]
EntryPackages == {<<>>, <<98>>, <<97, 45, 49, 45, 49>>, <<97, 45, 49, 46, 49, 45, 49, 46, 101>>,
                  <<97, 45, 49, 58, 49, 45, 49, 46, 101>>, <<65, 45, 49, 45, 49, 46, 101>>}
DistroCpes == {"none", "unparsable", "parsed"}
Releases == {Entry(cpe, v, p) : cpe \in DistroCpes, v \in {<<>>, <<"7">>}, p \in EntryPackages}
States ==
  {[cpe |-> e.cpe, distro |-> e.distro, package |-> e.package, state |-> s] :
     e \in {Entry(cpe, v, p) :
              cpe \in DistroCpes \ {"none"}, v \in {<<"7">>, <<"8">>}, p \in {<<>>, <<97>>, <<98>>}},
     s \in {"", "not affected", "affected"}}
Cves == {[releases |-> r, states |-> s] :
           r \in {{}} \cup {{x} : x \in Releases}, s \in {{}} \cup {{x} : x \in States}}
Text(l) == Pkg!Format(<<97>>, l, <<120>>)
CheckFixed ==
  Idle /\ \E c \in Cves, l \in Labels, m \in Labels :
    /\ l[1] # m[1] \/ l[2] # m[2]
    /\ c.states = {} \/ c.releases = {}
    /\ Pkg!HasChecker([id \in {"cve1"} |-> c])
    /\ Pick([alg |-> "fixed", cve |-> c, pkg |-> Pkg!Parse(Text(l)), newer |-> Pkg!Parse(Text(m)),
                 distro |-> Distro(<<"7">>)])
ListFixed ==
  Idle /\ \E c \in Cves, n \in {<<97>>, <<98>>},
            l \in {<<<<>>, <<49>>, <<49>>>>, <<<<49>>, <<49, 46, 49>>, <<49, 46, 101>>>>} :
    Pick([alg |-> "list", feed |-> [id \in {"cve1"} |-> c],
              text |-> Pkg!Format(n, l, <<120>>), distro |-> Distro(<<"7">>)])

(* The parts a package's file name is made of are found again by rpm.Parse. *)
ParsesBack == input.alg = "parse" => Pkg!ParsesBack(input.name, input.label, input.arch)
(* What a release fixes stays fixed in every newer version of the package. *)
FixedStaysFixed ==
  input.alg = "fixed" => Pkg!FixedStaysFixed(input.cve, input.pkg, input.newer, input.distro)
(* The CVEs listed as fixed for a package are those whose filter drops it. *)
ListsWhatIsFiltered ==
  input.alg = "list" => Pkg!ListsWhatIsFiltered(input.feed, input.text, input.distro)
(* Packages: file names are parsed back, fixed stays fixed, and what is listed as fixed is
   what the filter drops (rpm, providers/redhat). *)
PackagesSound == ParsesBack /\ FixedStaysFixed /\ ListsWhatIsFiltered

-----------------------------------------------------------------------------
\* Rows of up to three fields, with three values at positions of which one is not used
RowArgs == [{1, 2, 3} -> -1 .. 3]
FieldValue(k) == <<"u", "v", "w">>[k]
WriteRow ==
  Idle /\ \E n \in 0 .. 3, pos \in RowArgs, ranges \in SUBSET {<<1, 1>>, <<2, 3>>} :
    Pick([alg |-> "row", fields |-> SubSeq(<<"x", "y", "z">>, 1, n), ranges |-> ranges,
          args |-> [k \in 1 .. 3 |-> [at |-> pos[k], value |-> FieldValue(k)]]])
(* A row has every value at its position and the record's other fields in order. *)
EveryValueAtItsPosition ==
  input.alg = "row" => Out!EveryValueAtItsPosition(input.ranges, input.fields, input.args)

-----------------------------------------------------------------------------
\* The eviction heap
UseHeap == Idle /\ input' = [alg |-> "heap"] /\ UNCHANGED <<heapVars, commandVars, matchVars>>
HeapWorks == input.alg = "heap" /\ HeapNext /\ UNCHANGED <<input, commandVars, matchVars>>

-----------------------------------------------------------------------------
\* The commands on vulndb's tables
CONSTANTS p1, p2, text1, text2,
          MaxRows   \* bound: rows in the tables of records, overrides and snoozes
FewRows ==
  Cardinality(db.vendorData) + Cardinality(db.custom) + Cardinality(db.snoozes) <= MaxRows
UseTables == Idle /\ Pick([alg |-> "tables"])
TablesChange ==
  input.alg = "tables" /\ CommandsNext /\ FewRows' /\ UNCHANGED <<input, heapVars, matchVars>>

-----------------------------------------------------------------------------
\* Requests made of a dictionary
\* CPEs of two products, one with a wildcard in its name, one with a range of versions
\* and one that cannot be parsed; a quoted asterisk and the backslash it begins with
AllAttributes == {"product", "version"}
AllCharacters == {"a", "b", "1", ".", "*", "\\"}
AllBounds == {<<>>, <<49, 46, 50>>}
Cpe(product, version, endExcluding, usable) ==
  [name |-> [product |-> product, version |-> version], usable |-> usable,
   startIncluding |-> <<>>, startExcluding |-> <<>>, endIncluding |-> <<>>,
   endExcluding |-> endExcluding]
Ranged == Cpe(<<"a">>, <<>>, <<49, 46, 50>>, TRUE)
Cpes == {Cpe(<<"a">>, <<>>, <<>>, TRUE), Ranged,
         Cpe(<<"a", "*">>, <<"1">>, <<>>, TRUE), Cpe(<<>>, <<"1">>, <<>>, TRUE),
         Cpe(<<"b">>, <<>>, <<>>, FALSE)}
Starred == Cpe(<<"\\", "*">>, <<"1">>, <<>>, TRUE)
AllNames == {NameOf(<<"a">>, <<"1", "\\", ".", "1">>),
             NameOf(<<>>, <<"1">>), NameOf(<<"\\">>, <<"1">>)}

Node(operator, negate, cpes, children) ==
  [operator |-> operator, negate |-> negate, cpes |-> cpes, children |-> children]
Operators == {"OR", "AND"}
\* a node of one or two CPEs
Leaf(op, cpes) == <<Node("OR", FALSE, {}, {2}), Node(op, FALSE, cpes, {})>>
Flat == {Leaf("OR", {cpe}) : cpe \in Cpes \cup {Starred}}
          \cup {Leaf(op, {cpe, Ranged}) : op \in Operators, cpe \in Cpes \ {Ranged}}
\* two nodes below one that combines them, any of which, or none, is negated
Deep == {<<Node("OR", FALSE, {}, {2}), Node(op[2], negated = 2, {}, {3, 4}),
           Node("OR", negated = 3, {cpe[3]}, {}), Node(op[4], FALSE, {cpe[4], Ranged}, {})>> :
           op \in [{2, 4} -> Operators], cpe \in [3 .. 4 -> Cpes], negated \in 1 .. 3}
AllConfigurations == Flat \cup Deep


CONSTANTS c1, c2,
          MaxNodes  \* bound: nodes of the configurations that are loaded
Size(trees) == MapThenSumSet(LAMBDA id : Len(trees[id]), DOMAIN trees)
FewNodes == Size([id \in DOMAIN known |-> known[id].own]) + Size(amendments) <= MaxNodes
UseDictionary == Idle /\ Pick([alg |-> "requests"])
DictionaryServes ==
  input.alg = "requests" /\ MatchNext /\ FewNodes' /\ UNCHANGED <<input, heapVars, commandVars>>

Symmetry == Permutations(Vendors) \cup Permutations(CveIds) \cup Permutations(Texts)

-----------------------------------------------------------------------------
Init == input = [alg |-> "none"] /\ HeapInit /\ CommandsInit /\ MatchInit
Next ==
  \/ Cvss2Score \/ Cvss3Score \/ Cvss2Absorb \/ Cvss3Absorb
  \/ ComparePair \/ CompareThree
  \/ MatchPattern \/ MatchNames \/ BindName \/ WriteWfn \/ KeyLists \/ MatchRange
  \/ CompareFeeds \/ ParsePackage \/ CheckFixed \/ ListFixed \/ WriteRow
  \/ UseHeap \/ HeapWorks
  \/ UseTables \/ TablesChange
  \/ UseDictionary \/ DictionaryServes
Spec == Init /\ [][Next]_vars
=============================================================================
