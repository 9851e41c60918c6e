------------------------------ MODULE Versions ------------------------------
(* The two orders on version strings: smartVerCmp of the NVD matcher and
   LabelCompare of rpm.  A string is the sequence of its characters' codes.  *)
EXTENDS Integers, Sequences, SequencesExt

Digit == 48 .. 57
Letter == (65 .. 90) \cup (97 .. 122)
Zero == 48
Tilde == 126
Punctuation == (33 .. 126) \ (Digit \cup Letter)

\* how many characters at the start of s are of the class
Lead(s, class) ==
  CHOOSE n \in 0 .. Len(s) : /\ \A k \in 1 .. n : s[k] \in class
                             /\ n < Len(s) => s[n + 1] \notin class
Take(s, n) == SubSeq(s, 1, n)
Drop(s, n) == SubSeq(s, n + 1, Len(s))
TrimLeft(s, class) == Drop(s, Lead(s, class))

Sign(n) == IF n < 0 THEN -1 ELSE IF n > 0 THEN 1 ELSE 0
CompareLen(s, t) == Sign(Len(s) - Len(t))
\* strings.Compare
Lexical(s, t) ==
  LET differ == {k \in DOMAIN s \cap DOMAIN t : s[k] # t[k]} IN
  IF differ = {} THEN CompareLen(s, t)
  ELSE LET k == CHOOSE k \in differ : \A j \in differ : k <= j IN Sign(s[k] - t[k])

-----------------------------------------------------------------------------
\* parseVerParts: the digits a version starts with, its first part, what follows
ParseVerParts(v) ==
  LET num == Lead(v, Digit)
      end == {k \in 1 .. Len(v) : v[k] \in Punctuation}
      cut == IF end = {} THEN Len(v) + 1 ELSE CHOOSE k \in end : \A j \in end : k <= j
  IN  [num |-> num, part |-> Take(v, cut - 1), rest |-> Drop(v, cut)]

\* lpad: n zeros before s
Lpad(s, n) == [k \in 1 .. n |-> Zero] \o s

\* smartVerCmp.  What is left of both versions after k parts is compared part by
\* part; when one of them ends, the lengths of the whole versions decide.
SmartVerCmp(v1, v2) ==
  LET compare[s1 \in Seq(Nat), s2 \in Seq(Nat)] ==
        IF s1 = <<>> \/ s2 = <<>> THEN CompareLen(v1, v2)
        ELSE LET parts(p1, p2) ==
                   LET part == Lexical(Lpad(p1.part, p2.num - p1.num),
                                       Lpad(p2.part, p1.num - p2.num)) IN
                   IF part # 0 THEN part ELSE compare[p1.rest, p2.rest]
             IN  parts(ParseVerParts(s1), ParseVerParts(s2))
  IN  compare[v1, v2]

-----------------------------------------------------------------------------
Alnum == Digit \cup Letter

\* Two leading segments of one class: numbers by their lengths without zeros first.
CompareSegments(seg1, seg2, class) ==
  LET numbers(n1, n2) == IF Len(n1) # Len(n2) THEN CompareLen(n1, n2) ELSE Lexical(n1, n2) IN
  IF class = Digit THEN numbers(TrimLeft(seg1, {Zero}), TrimLeft(seg2, {Zero}))
  ELSE Lexical(seg1, seg2)

\* Faulty variant: a segment of the other class always makes the first one newer.
OverForeignNewer(class) == 1
\* a number is newer than what is no number there, letters are older
OverForeign(class) == IF class = Digit THEN 1 ELSE -1
Starts(s, class) == s # <<>> /\ s[1] \in class
\* rpm's versionCompare
VersionCompare(v1, v2) ==
  LET Skipped == Nat \ (Alnum \cup {Tilde})
      compare[a \in Seq(Nat), b \in Seq(Nat)] ==
        LET segments(s, t, lenS, lenT, class) ==
              IF lenT = 0 THEN OverForeign(class)
              ELSE LET c == CompareSegments(Take(s, lenS), Take(t, lenT), class) IN
                   IF c # 0 THEN c ELSE compare[Drop(s, lenS), Drop(t, lenT)]
            ofClass(s, t, class) == segments(s, t, Lead(s, class), Lead(t, class), class)
            trimmed(s, t) ==
              CASE Starts(s, {Tilde}) /\ Starts(t, {Tilde})  -> compare[Tail(s), Tail(t)]
                [] Starts(s, {Tilde}) /\ ~Starts(t, {Tilde}) -> -1
                [] ~Starts(s, {Tilde}) /\ Starts(t, {Tilde}) -> 1
                [] OTHER -> IF s = <<>> \/ t = <<>> THEN CompareLen(s, t)
                            ELSE ofClass(s, t, IF Starts(s, Digit) THEN Digit ELSE Letter)
        IN  trimmed(TrimLeft(a, Skipped), TrimLeft(b, Skipped))
  IN  IF v1 = v2 THEN 0 ELSE compare[v1, v2]

\* LabelCompare; a label is <<epoch, version, release>>, no epoch is epoch 0
LabelCompare(l1, l2) ==
  LET full(l) == IF l[1] = <<>> THEN <<<<Zero>>, l[2], l[3]>> ELSE l
      first(parts) == IF parts = <<>> THEN 0 ELSE parts[1]
      compared == [k \in 1 .. 3 |-> VersionCompare(full(l1)[k], full(l2)[k])]
  IN  first(SelectSeq(compared, LAMBDA c : c # 0))

-----------------------------------------------------------------------------
\* what a dotted number stands for: the sequence of its numbers
Dot == 46
IsDotted(v) == /\ v # <<>> /\ v[1] \in Digit /\ v[Len(v)] \in Digit
               /\ \A k \in 1 .. Len(v) - 1 : v[k] \in Digit \/ (v[k] = Dot /\ v[k + 1] # Dot)
\* no number of it starts with a zero
IsCanonical(v) ==
  /\ IsDotted(v)
  /\ \A k \in 1 .. Len(v) - 1 : v[k] = Zero /\ (k = 1 \/ v[k - 1] = Dot) => v[k + 1] = Dot
Numbers(v) ==
  LET dots == SetToSortSeq({0, Len(v) + 1} \cup {k \in 1 .. Len(v) : v[k] = Dot}, <) IN
  [i \in 1 .. Len(dots) - 1 |->
     FoldLeft(LAMBDA n, c : 10 * n + c - Zero, 0, SubSeq(v, dots[i] + 1, dots[i + 1] - 1))]

(* smartVerCmp puts dotted numbers in the order of their numbers, a longer version
   above one it continues, as long as no number has a leading zero: "001" and "1.5"
   are told apart by nothing.  rpm's order does so with leading zeros as well.  *)
DottedByNumbers(u, v) ==
  /\ IsCanonical(u) /\ IsCanonical(v) => SmartVerCmp(u, v) = Lexical(Numbers(u), Numbers(v))
  /\ IsDotted(u) /\ IsDotted(v) => VersionCompare(u, v) = Lexical(Numbers(u), Numbers(v))

(* Whichever version is named first, the same one is the newer, in both orders:
   the code looks at the first one's class of characters only.               *)
Antisymmetric(u, v) ==
  /\ SmartVerCmp(u, v) = -SmartVerCmp(v, u)
  /\ VersionCompare(u, v) = -VersionCompare(v, u)

(* rpm's order is transitive: what is not older than v, which is not older than
   w, is not older than w; a fix recorded for a release covers all later ones. *)
Transitive(u, v, w) ==
  VersionCompare(u, v) >= 0 /\ VersionCompare(v, w) >= 0 => VersionCompare(u, w) >= 0
=============================================================================
