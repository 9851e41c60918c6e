------------------------------- MODULE Lookup -------------------------------
(* cvefeed/cvecache.go: what Cache.Get computes for a list of names, from the whole
   dictionary or from an index of it by product, and the key it is cached under.  A
   dictionary maps an identifier to a vulnerability's own configuration and that of
   its override (overriden), <<>> if it has none.                             *)
EXTENDS Matchers, Bags

Product == "product"

NoOverride == <<>>
Vulnerability(own, override) == [own |-> own, override |-> override]
\* Config: a vulnerability is filed for the CPEs of its override, too
Config(vuln) == CpesOf(vuln.own) \cup CpesOf(vuln.override)
MatchOne(vuln, attrs, requireVersion) ==
  IF vuln.override = NoOverride THEN MatchVuln(vuln.own, attrs, requireVersion)
  ELSE Overridden(vuln.own, vuln.override, attrs, requireVersion)

\* Faulty variant: a product with wildcards is filed like any other.
FiledAsIs(cpe) == cpe.name[Product]
FiledUnder(cpe) == IF HasWildcard(cpe.name[Product]) THEN ANY ELSE cpe.name[Product]
\* NewIndex: product -> identifiers; a CPE that could not be parsed is filed nowhere
NewIndex(dict) ==
  LET filed(id) == {FiledUnder(cpe) : cpe \in {x \in Config(dict[id]) : x.usable}} IN
  [product \in UNION {filed(id) : id \in DOMAIN dict} |->
     {id \in DOMAIN dict : product \in filed(id)}]
\* dictFromIndex: the identifiers to match
FromIndex(dict, idx, attrs) ==
  IF \E a \in attrs : a[Product] = ANY THEN DOMAIN dict
  ELSE UNION {idx[p] : p \in ({a[Product] : a \in attrs} \cup {ANY}) \cap DOMAIN idx}
\* matchDict: the names each identifier that matches has found
MatchDict(dict, ids, attrs, requireVersion) ==
  LET found == [id \in ids |-> MatchOne(dict[id], attrs, requireVersion)] IN
  [id \in {i \in ids : found[i] # {}} |-> found[id]]

-----------------------------------------------------------------------------
\* the attributes of a name, each but the first behind a "^"
PartOf(name) ==
  LET attr == SetToSeq(Attributes) IN
  FlattenSeq([k \in DOMAIN attr |-> (IF k = 1 THEN <<>> ELSE <<"^">>) \o name[attr[k]]])
Code(c) == (Ascii @@ "^" :> 94 @@ "#" :> 35)[c]
\* the order of sort.Strings
Before(s, t) ==
  \E n \in 0 .. Len(s) :
    /\ n <= Len(t) /\ \A k \in 1 .. n : s[k] = t[k]
    /\ IF n = Len(s) THEN n < Len(t) ELSE n < Len(t) /\ Code(s[n + 1]) < Code(t[n + 1])
\* cacheKey of a list of names
CacheKey(names) ==
  LET parts == SortSeq([k \in DOMAIN names |-> PartOf(names[k])], Before) IN
  FlattenSeq([k \in DOMAIN parts |-> (IF k = 1 THEN <<>> ELSE <<"#">>) \o parts[k]])

-----------------------------------------------------------------------------
(* Two lists have the same key just when they are the same names, each as often: that
   quoted separators occur in values makes no two lists look alike.           *)
KeyTellsNames(names, others) ==
  LET bag(s) == [x \in Range(s) |-> Cardinality({k \in DOMAIN s : s[k] = x})] IN
  CacheKey(names) = CacheKey(others) <=> bag(names) = bag(others)
=============================================================================
