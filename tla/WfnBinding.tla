----------------------------- MODULE WfnBinding -----------------------------
(* wfn/uri.go, wfn/fsb.go and WFNize: CPE names written and read as URIs and as
   formatted strings.  A value is a sequence of <<character, quoted>>; the text of
   a URI is one of <<character, percent-encoded>>, "01" and "02" encoded standing
   for the wildcards.  Letters are lower case.                                *)
EXTENDS Integers, Sequences, SequencesExt

Bare(c) == <<c, FALSE>>
Quote(c) == <<c, TRUE>>    \* after a backslash, in a URI percent-encoded
ANY == <<>>
NA == <<Bare("-")>>
Wildcard == {Bare("*"), Bare("?")}

Alnum == {"a", "b", "1", "_"}        \* characters that are never quoted
PassUnquoted == {".", "-"}           \* those a URI does not encode
UriOrder == <<"part", "vendor", "product", "version", "update", "edition", "language">>
EditionOrder == <<"edition", "sw_edition", "target_sw", "target_hw", "other">>
FsbOrder == SubSeq(UriOrder, 1, 7) \o SubSeq(EditionOrder, 2, 5)
AnyName == [a \in ToSet(FsbOrder) |-> ANY]

Join(parts, separator) ==
  FoldLeft(LAMBDA text, part : text \o <<Bare(separator)>> \o part, Head(parts), Tail(parts))
\* the first place from i on that is the separator, or the end of the text
Till(s, i, separator) ==
  CHOOSE k \in i .. Len(s) + 1 :
    /\ \A j \in i .. k - 1 : s[j] # Bare(separator)
    /\ k <= Len(s) => s[k] = Bare(separator)

-----------------------------------------------------------------------------
\* bindValueURI: unquoted characters that should be quoted are left out
BindValueURI(v) ==
  IF v = NA THEN v
  ELSE LET kept == SelectSeq(v, LAMBDA t : t[2] \/ t[1] \in Alnum \/ t \in Wildcard) IN
       [k \in DOMAIN kept |->
          CASE kept[k] = Bare("?") -> Quote("01")
            [] kept[k] = Bare("*") -> Quote("02")
            [] OTHER -> <<kept[k][1], kept[k][1] \notin Alnum \cup PassUnquoted>>]

\* pack: the five parts of an edition, or the first one if the others say nothing
Pack(parts) ==
  IF \A i \in 2 .. 5 : parts[i] = <<>> THEN parts[1]
  ELSE <<Bare("~")>> \o Join(parts, "~")

BindToURI(name) ==
  LET edition == [i \in 1 .. 5 |-> BindValueURI(name[EditionOrder[i]])]
      part(a) == IF a # "edition" THEN BindValueURI(name[a])
                 ELSE IF \A i \in 1 .. 5 : edition[i] = NA THEN NA ELSE Pack(edition)
      parts == [i \in 1 .. 7 |-> part(UriOrder[i])]
      used == {i \in 1 .. 7 : parts[i] # <<>>}
  IN  IF used = {} THEN <<>>
      ELSE Join(SubSeq(parts, 1, CHOOSE i \in used : \A j \in used : j <= i), ":")

\* unbindValueURIAtTill: the value, where the code stops, whether it is legal.  A
\* wildcard must stand at an end or in a row of its kind at one.
UnbindValueURI(s, at, till) ==
  LET end == Till(s, at, till)
      wild(k) == s[k] \in {Quote("01"), Quote("02")}
      embedded(k) == \E j \in at .. k - 1 : ~wild(j)
      legal(k) ==
        \/ k = at \/ k = Len(s) \/ k + 1 = end
        \/ ~embedded(k) /\ s[k - 1] = s[k]
        \/ embedded(k) /\ k + 1 < Len(s) /\ s[k + 1] = s[k]
      read(t) == CASE t = Quote("01") -> Bare("?")
                   [] t = Quote("02") -> Bare("*")
                   [] OTHER -> <<t[1], t[2] \/ t[1] \in PassUnquoted \cup {"~"}>>
  IN  IF at > Len(s) \/ end = at THEN [value |-> ANY, next |-> at, ok |-> TRUE]
      ELSE IF s[at] = Bare("-") THEN [value |-> NA, next |-> at + 1, ok |-> TRUE]
      ELSE [value |-> [k \in 1 .. end - at |-> read(s[at + k - 1])], next |-> end,
            ok |-> \A k \in at .. end - 1 : wild(k) => legal(k)]

\* one attribute is read, and what ended it is skipped
ReadURI(s, state, a, till) ==
  LET u == UnbindValueURI(s, state.i, till) IN
  IF state.i > Len(s) \/ ~state.ok THEN state
  ELSE [i |-> u.next + 1, ok |-> u.ok, name |-> [state.name EXCEPT ![a] = u.value]]

\* Faulty variant: of a packed edition only the first part is read.
ReadEditionFirst(s, state) ==
  IF s[state.i] # Bare("~") THEN ReadURI(s, state, "edition", ":")
  ELSE ReadURI(s, [state EXCEPT !.i = @ + 1], "edition", ":")
\* The sixth part.  The loop over a packed edition has already skipped what ended
\* it when the outer one skips another character.  (An error in it sticks here; the
\* code forgets it when another of the five parts can be read.)
ReadEdition(s, state) ==
  IF s[state.i] # Bare("~") THEN ReadURI(s, state, "edition", ":")
  ELSE LET till(a) == IF a = "other" THEN ":" ELSE "~"
           packed == FoldLeft(LAMBDA st, a : ReadURI(s, st, a, till(a)),
                              [state EXCEPT !.i = @ + 1], EditionOrder)
       IN  [packed EXCEPT !.i = @ + 1]

UnbindURI(s) ==
  FoldLeft(LAMBDA state, a :
             IF state.i > Len(s) \/ ~state.ok THEN state
             ELSE IF a = "edition" THEN ReadEdition(s, state) ELSE ReadURI(s, state, a, ":"),
           [i |-> 1, ok |-> TRUE, name |-> AnyName], UriOrder)

-----------------------------------------------------------------------------
\* StripSlashes: points, hyphens and underscores lose their backslash
StripSlashes(v) == [k \in DOMAIN v |-> IF v[k][1] \in {".", "_", "-"} THEN Bare(v[k][1]) ELSE v[k]]

BindValueFS(v) == CASE v = ANY -> <<Bare("*")>> [] v = NA -> v [] OTHER -> StripSlashes(v)
BindToFmtString(name) == Join([i \in 1 .. 11 |-> BindValueFS(name[FsbOrder[i]])], ":")

\* addSlashesAt: quotes what needs it, up to the next colon; an asterisk must stand
\* at an end, a question mark at an end or next to another one
AddSlashesAt(s, at) ==
  LET end == Till(s, at, ":")
      legal(k) == \/ k = at \/ k + 1 = end
                  \/ s[k] = Bare("?") /\ Bare("?") \in {s[k - 1], s[k + 1]}
      read(t) == <<t[1], t[2] \/ t[1] \notin Alnum \cup {"*", "?"}>>
  IN  [value |-> [k \in 1 .. end - at |-> read(s[at + k - 1])], next |-> end,
       ok |-> \A k \in at .. end - 1 : s[k] \in Wildcard => legal(k)]

\* unbindValueFSAt: a single character is taken as it is, and so is the backslash
\* of a quoted colon, which then counts as the end of the value
UnbindValueFS(s, at) ==
  IF Till(s, at, ":") = at THEN [value |-> ANY, next |-> at, ok |-> FALSE]
  ELSE IF s[at] = Quote(":") THEN [value |-> <<Bare("\\")>>, next |-> at, ok |-> TRUE]
  ELSE IF Till(s, at, ":") = at + 1 /\ ~s[at][2]
    THEN [value |-> IF s[at] = Bare("*") THEN ANY ELSE <<s[at]>>, next |-> at + 1, ok |-> TRUE]
  ELSE AddSlashesAt(s, at)

UnbindFmtString(s) ==
  FoldLeft(LAMBDA state, a :
             IF state.i > Len(s) \/ ~state.ok THEN state
             ELSE LET u == UnbindValueFS(s, state.i) IN
                  [i |-> u.next + 1, ok |-> u.ok, name |-> [state.name EXCEPT ![a] = u.value]],
           [i |-> 1, ok |-> TRUE, name |-> AnyName], FsbOrder)

\* WFNize, of a sequence of characters: backslashes go, a wildcard is one only
\* behind a backslash, and a colon ends what addSlashesAt reads.
WFNize(in) ==
  LET char(n) == IF in[n] = " " THEN "_" ELSE in[n]
      token(n) == <<char(n), in[n] \in {"*", "?"} /\ (n = 1 \/ in[n - 1] # "\\")>>
      kept == SelectSeq([n \in DOMAIN in |-> token(n)], LAMBDA t : t[1] # "\\")
  IN  AddSlashesAt(kept, 1)

-----------------------------------------------------------------------------
\* the values of a name in use
Values(name) == {name[a] : a \in DOMAIN name}
StartsWith(v, t) == v # <<>> /\ v[1] = t
NoneIn(name, v) == v \notin Values(name)

(* A name written as a formatted string is read back as it was.  Three values are
   not: a lone quoted hyphen becomes NA and a lone asterisk ANY, and a value that
   begins with a quoted colon is cut.                                          *)
FmtStringReadsBack(name) ==
  (/\ NoneIn(name, <<Quote("-")>>) /\ NoneIn(name, <<Bare("*")>>)
   /\ \A v \in Values(name) : ~StartsWith(v, Quote(":")))
    => LET u == UnbindFmtString(BindToFmtString(name)) IN u.ok /\ u.name = name

(* A name written as a URI is read back as it was, through the packing of the
   edition and the parts left out at the end.  Not so for a value that begins with
   a hyphen, which reads as NA; for a language behind a packed edition, which
   loses its first character; and for two question marks at the end of the text,
   which the reader takes to be inside the value.                              *)
UriReadsBack(name) ==
  (/\ \A v \in Values(name) : ~StartsWith(v, Quote("-"))
   /\ name["language"] = ANY \/ \A i \in 2 .. 5 : name[EditionOrder[i]] = ANY
   /\ LET text == BindToURI(name) IN
      Len(text) < 2 \/ SubSeq(text, Len(text) - 1, Len(text)) # <<Quote("01"), Quote("01")>>)
    => LET u == UnbindURI(BindToURI(name)) IN u.ok /\ u.name = name

(* What WFNize accepts is a value that both bindings carry: it makes no character
   unquoted that they would lose or take for a separator.                      *)
WfnizedIsBound(in) ==
  LET u == WFNize(in)
      name == [AnyName EXCEPT !["product"] = u.value]
  IN  u.ok => FmtStringReadsBack(name) /\ (u.value # NA => UriReadsBack(name))
=============================================================================
