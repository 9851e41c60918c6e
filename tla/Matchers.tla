------------------------------ MODULE Matchers ------------------------------
(* cvefeed/nvd/match_*.go, wfn/matcher.go and overrides: which names of an inventory
   a vulnerability's configuration matches.  A configuration is a tree: nodes are
   numbered, a child above its parent, and node 1 is the root of them all; a CPE of
   a node is a record of its name and its version bounds, <<>> where there is none.
   A name that cannot be parsed is not usable.                                *)
EXTENDS Wfn, Versions, TLC

\* the characters' codes, which the order of versions goes by
Ascii == "-" :> 45 @@ "." :> 46 @@ "0" :> 48 @@ "1" :> 49 @@ "2" :> 50 @@ "9" :> 57
           @@ "_" :> 95 @@ "a" :> 97 @@ "b" :> 98 @@ "\\" :> 92 @@ "*" :> 42 @@ "?" :> 63
\* wfn.StripSlashes, and the codes
StripSlashes(v) ==
  LET kept == {n \in DOMAIN v :
                 ~(v[n] = Backslash /\ n < Len(v) /\ v[n + 1] \in {".", "_", "-"})} IN
  [k \in 1 .. Cardinality(kept) |-> Ascii[v[SetToSortSeq(kept, <)[k]]]]

\* the outcomes of smartVerCmp(ver, bound) with which a bound is kept
Allowed ==
  [startIncluding |-> {0, 1}, startExcluding |-> {1},
   endIncluding |-> {-1, 0}, endExcluding |-> {-1}]
Bounds == DOMAIN Allowed
HasVersionRanges(cpe) == \E b \in Bounds : cpe[b] # <<>>
\* the version is within every bound the CPE has
Within(ver, cpe) == \A b \in Bounds : cpe[b] # <<>> => SmartVerCmp(ver, cpe[b]) \in Allowed[b]

\* cpeMatch.match
CpeMatches(cpe, attr, requireVersion) ==
  /\ requireVersion => HasVersionRanges(cpe) \/ cpe.name[Version] # ANY
  /\ MatchWithoutVersion(cpe.name, attr)
  /\ IF cpe.name[Version] = ANY /\ ~HasVersionRanges(cpe) THEN ~requireVersion
     ELSE \/ cpe.name[Version] # ANY /\ MatchOnlyVersion(cpe.name, attr)
          \/ attr[Version] = ANY
          \/ HasVersionRanges(cpe) /\ Within(StripSlashes(attr[Version]), cpe)

-----------------------------------------------------------------------------
\* multiMatcher.Match, of what its matchers find, and notMatcher.Match around it
Combine(parts, node, attrs) ==
  LET none == node.operator = "AND" /\ {} \in parts IN
  {a \in attrs : (~none /\ \E S \in parts : a \in S) # node.negate}

\* Faulty variant: one CPE that cannot be parsed makes its node unusable.
UsableEntirely(tree) ==
  LET usable[n \in DOMAIN tree] ==
        /\ \A cpe \in tree[n].cpes : cpe.usable
        /\ tree[n].cpes # {} \/ \E c \in tree[n].children : usable[c]
  IN  {n \in DOMAIN tree : usable[n]}
\* nodeMatcher: CPEs and children that cannot be used are left out, and a node
\* without any that can be cannot be used itself.
UsableNodes(tree) ==
  LET usable[n \in DOMAIN tree] ==
        \/ \E cpe \in tree[n].cpes : cpe.usable
        \/ \E c \in tree[n].children : usable[c]
  IN  {n \in DOMAIN tree : usable[n]}
CpesOf(tree) == UNION {tree[n].cpes : n \in DOMAIN tree}
\* The names each node finds, of the CPEs and children that are considered; what
\* cannot be used finds nothing.
Found(tree, attrs, requireVersion, considered, nodes) ==
  LET finds(cpe) == {a \in attrs : cpe.usable /\ CpeMatches(cpe, a, requireVersion)}
      found[n \in DOMAIN tree] ==
        Combine({finds(cpe) : cpe \in tree[n].cpes \cap considered}
                  \cup {found[c] : c \in tree[n].children \cap nodes},
                tree[n], attrs)
  IN  found
\* ToVuln: any of the configuration's nodes, the children of the root
FoundBelowRoot(found, tree, nodes) == UNION {found[n] : n \in tree[1].children \cap nodes}
MatchVuln(tree, attrs, requireVersion) ==
  LET usable == {cpe \in CpesOf(tree) : cpe.usable}
      below(nodes) ==
        FoundBelowRoot(Found(tree, attrs, requireVersion, usable, nodes), tree, nodes)
  IN  below(UsableNodes(tree))
\* what it would be if what cannot be used were to match nothing instead
MatchStrictly(tree, attrs, requireVersion) ==
  FoundBelowRoot(Found(tree, attrs, requireVersion, CpesOf(tree), DOMAIN tree), tree, DOMAIN tree)

\* overriden.Match: of what the original finds, what the override does not find there
Overridden(tree, override, attrs, requireVersion) ==
  LET hide(found) == found \ MatchVuln(override, found, requireVersion) IN
  hide(MatchVuln(tree, attrs, requireVersion))

-----------------------------------------------------------------------------
HasNegation(tree) == \E n \in DOMAIN tree : tree[n].negate
HasAnd(tree) == \E n \in DOMAIN tree : tree[n].operator = "AND"

(* A configuration without negation finds a name just when the formula it stands
   for holds of the inventory, and then only names one of its CPEs matches.  (A
   negated node is no "not": it finds something unless it matches every name.)  *)
FindsByFormula(tree, attrs, requireVersion) ==
  LET usable == UsableNodes(tree)
      hits(cpe) == \E a \in attrs : CpeMatches(cpe, a, requireVersion)
      holds[n \in DOMAIN tree] ==
        LET cpes == {x \in tree[n].cpes : x.usable}
            nodes == tree[n].children \cap usable
        IN  IF tree[n].operator = "AND"
            THEN (\A cpe \in cpes : hits(cpe)) /\ (\A c \in nodes : holds[c])
            ELSE (\E cpe \in cpes : hits(cpe)) \/ (\E c \in nodes : holds[c])
      explained(found) ==
        /\ found # {} <=> \E n \in tree[1].children \cap usable : holds[n]
        /\ \A a \in found : \E n \in DOMAIN tree : \E cpe \in tree[n].cpes :
             cpe.usable /\ CpeMatches(cpe, a, requireVersion)
  IN  ~HasNegation(tree) => explained(MatchVuln(tree, attrs, requireVersion))

(* To ask for a version only narrows what a configuration without negation finds. *)
RequiringNarrows(tree, attrs) ==
  ~HasNegation(tree) => MatchVuln(tree, attrs, TRUE) \subseteq MatchVuln(tree, attrs, FALSE)

(* A CPE that cannot be parsed is left out without a word: where nothing is negated
   that never hides a name, and where there is no AND either it changes nothing.  *)
LeftOutWidens(tree, attrs, requireVersion) ==
  LET widens(strict, found) == strict \subseteq found /\ (~HasAnd(tree) => strict = found) IN
  ~HasNegation(tree) => widens(MatchStrictly(tree, attrs, requireVersion),
                               MatchVuln(tree, attrs, requireVersion))

(* "CVE will be matched if it matches the original config of d and does not match
   the config of d2" (dictionary.go): so for every name, as long as the override has
   no AND, whose other half the original may not have found, and no negation.    *)
OverrideHides(tree, override, attrs, requireVersion) ==
  ~HasAnd(override) /\ ~HasNegation(override) =>
    Overridden(tree, override, attrs, requireVersion)
      = MatchVuln(tree, attrs, requireVersion) \ MatchVuln(override, attrs, requireVersion)

(* A version range holds the dotted versions that lie between its bounds as numbers,
   though the name has its points quoted and the bounds have not.              *)
RangeByNumbers(cpe, attr) ==
  LET ver == StripSlashes(attr[Version])
      number(b) == Numbers(cpe[b])
      above(b) == cpe[b] = <<>> \/ Lexical(Numbers(ver), number(b)) > 0
      equals(b) == cpe[b] # <<>> /\ Numbers(ver) = number(b)
      below(b) == cpe[b] = <<>> \/ Lexical(Numbers(ver), number(b)) < 0
  IN  (/\ HasVersionRanges(cpe) /\ cpe.name[Version] = ANY /\ IsCanonical(ver)
       /\ \A b \in Bounds : cpe[b] = <<>> \/ IsCanonical(cpe[b]))
        => (CpeMatches(cpe, attr, TRUE) <=>
              /\ MatchWithoutVersion(cpe.name, attr)
              /\ above("startIncluding") \/ equals("startIncluding")
              /\ above("startExcluding") /\ below("endExcluding")
              /\ below("endIncluding") \/ equals("endIncluding"))
=============================================================================
