--------------------------------- MODULE Wfn ---------------------------------
(* wfn/matching.go and wfn/matcher.go: comparison of well-formed CPE names.  A
   name gives each attribute a string, here the sequence of its characters, in
   which a backslash quotes the next one and an unquoted * or ? is a wildcard. *)
EXTENDS Integers, Sequences, FiniteSetsExt

CONSTANT Attributes   \* part, vendor, product, version, ...
Version == "version"

ANY == <<>>
NA == <<"-">>
Backslash == "\\"

\* whether the n-th character is quoted: an odd number of backslashes before it
Quoted(s, n) ==
  \E m \in 1 .. n : /\ \A k \in m .. n - 1 : s[k] = Backslash
                    /\ (m = 1 \/ s[m - 1] # Backslash)
                    /\ (n - m) % 2 = 1
Wildcards(s) == {n \in DOMAIN s : s[n] \in {"*", "?"} /\ ~Quoted(s, n)}
HasWildcard(s) == Wildcards(s) # {}

\* what is left of a pattern when the target is used up
RestMatches(s, i) == \A k \in i .. Len(s) : s[k] = "*"
\* matchStr, whether it is not Disjoint: m[i] are the places j of the target from which
\* on s matches from i on.  What the code calls escaped is to be quoted: a backslash
\* turns it round, any other character ends it (see QuotedByOne in Cpe2Cve_proofs).
Matches(s, t) ==
  LET m[i \in 1 .. Len(s) + 1] ==
        LET rest == m[i + 1] IN
        {j \in 1 .. Len(t) + 1 :
           IF j > Len(t) THEN RestMatches(s, i)
           ELSE IF i > Len(s) THEN FALSE
           ELSE IF s[i] = "*" /\ ~Quoted(s, i)
             THEN i = Len(s) \/ \E k \in j .. Len(t) : k \in rest
           ELSE (s[i] = t[j] \/ (s[i] = "?" /\ ~Quoted(s, i))) /\ j + 1 \in rest}
  IN  1 \in m[1]
MatchStr(s, t) == IF ~Matches(s, t) THEN "disjoint"
                  ELSE IF s = t /\ ~HasWildcard(s) THEN "equal" ELSE "superset"

\* CompareAttr; "error" where the target has wildcards
CompareAttr(s, t) ==
  IF s \notin {ANY, NA} /\ HasWildcard(t) THEN "error"
  ELSE IF s = t THEN "equal"
  ELSE IF s = ANY THEN "superset"
  ELSE IF t = ANY THEN "subset"
  ELSE IF NA \in {s, t} THEN "disjoint"
  ELSE MatchStr(s, t)

\* matchAttr
MatchAttr(s, t) ==
  \/ ANY \in {s, t} \/ s = t
  \/ NA \notin {s, t} /\ ~HasWildcard(t) /\ Matches(s, t)

-----------------------------------------------------------------------------
\* Compare: an error in one attribute is an error of the whole
Compare(src, tgt) == [a \in Attributes |-> CompareAttr(src[a], tgt[a])]
Comparable(src, tgt) == \A a \in Attributes : Compare(src, tgt)[a] # "error"
IsDisjoint(c) == \E a \in Attributes : c[a] = "disjoint"
IsEqual(c)    == \A a \in Attributes : c[a] = "equal"
IsSubset(c)   == \A a \in Attributes : c[a] \in {"equal", "subset"}
IsSuperset(c) == \A a \in Attributes : c[a] \in {"equal", "superset"}
\* Comparison.Relation: a subset is looked for before equality
Relation(c) == CASE IsSubset(c) -> "subset"
                 [] IsEqual(c) /\ ~IsSubset(c) -> "equal"
                 [] IsSuperset(c) /\ ~IsSubset(c) -> "superset"
                 [] OTHER -> "disjoint"

\* Match, for names that are there
Match(src, tgt) == \A a \in Attributes : MatchAttr(src[a], tgt[a])
MatchOnlyVersion(src, tgt) == MatchAttr(src[Version], tgt[Version])
MatchWithoutVersion(src, tgt) ==
  \A a \in Attributes \ {Version} : MatchAttr(src[a], tgt[a])

-----------------------------------------------------------------------------
(* matchAttr is CompareAttr made faster ("crude but fast(-er) version"): two names
   match just when they compare without an error and in no attribute are
   disjoint, or are the same there.                                          *)
MatchIsComparison(src, tgt) ==
  Match(src, tgt) <=>
    \A a \in Attributes :
      src[a] = tgt[a] \/ CompareAttr(src[a], tgt[a]) \notin {"error", "disjoint"}

\* t can be laid over s: every asterisk takes some number of characters
Covers(s, t) ==
  LET stars == {n \in Wildcards(s) : s[n] = "*"} IN
  \E len \in [stars -> 0 .. Len(t)] :
    LET at(n) == n + MapThenSumSet(LAMBDA k : len[k] - 1, {k \in stars : k < n}) IN
    /\ at(Len(s) + 1) = Len(t) + 1
    /\ \A n \in DOMAIN s : n \in Wildcards(s) \/ s[n] = t[at(n)]

(* The backtracking of matchStr finds a way to lay the target over the pattern
   whenever there is one, and never another one: every character of the target,
   a backslash included, is taken by one of the pattern, or by an asterisk.  Only
   a quoted asterisk at the end of a pattern is taken for a wildcard once the
   target is used up.                                                         *)
MatchesPattern(s, t) ==
  (\A n \in DOMAIN s : s[n] = "*" => ~Quoted(s, n)) => (Matches(s, t) <=> Covers(s, t))

(* Compared the other way round, the relation of two names is turned round: for
   names without wildcards the order of the arguments decides nothing else, and
   matching does not depend on it.                                            *)
Mirror == [equal |-> "equal", subset |-> "superset", superset |-> "subset", disjoint |-> "disjoint"]
ComparisonTurns(src, tgt) ==
  (\A a \in Attributes : ~HasWildcard(src[a]) /\ ~HasWildcard(tgt[a])) =>
    /\ \A a \in Attributes : Compare(tgt, src)[a] = Mirror[Compare(src, tgt)[a]]
    /\ Match(src, tgt) = Match(tgt, src)
    /\ Match(src, tgt) <=> ~IsDisjoint(Compare(src, tgt))
=============================================================================
