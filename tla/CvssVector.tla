----------------------------- MODULE CvssVector -----------------------------
(* cvss2/vector.go and cvss3/vector.go: how a vector is read, written and
   combined.  A vector gives each metric the index of its value in the metric's
   table, 0 when it is not defined.  Its text is a sequence of <<metric, code>>, behind
   <<"CVSS", version>> in version 3; the brackets of version 2 are left out.     *)
EXTENDS Integers, Sequences, SequencesExt

CONSTANTS Headers,    \* what a text may begin with, all of one length
          Order,      \* the order in which metrics are written
          Table,      \* metric -> the sequence of its <<code, weight>>, from index 0
          TakesBlank  \* metrics whose parse also takes "" for not defined

Metrics == ToSet(Order)
NotDefined == [m \in Metrics |-> 0]
Indices(m) == 0 .. Len(Table[m]) - 1
Code(m, i) == Table[m][i + 1][1]
Weight(v, m) == Table[m][v[m] + 1][2]
Defined(v, m) == v[m] # 0

\* findIndex: the first index that has the code
FindIndex(m, code) ==
  LET found == {i \in Indices(m) : Code(m, i) = code} IN
  {i \in found : \A j \in found : i <= j}
    \cup (IF m \in TakesBlank /\ code = "" THEN {0} ELSE {})

\* Vector.String: the header, and what is defined in a fixed order
Text(header, v) ==
  LET defined == SelectSeq(Order, LAMBDA m : Defined(v, m)) IN
  header \o [k \in 1 .. Len(defined) |-> <<defined[k], Code(defined[k], v[defined[k]])>>]

HeaderLength == Len(CHOOSE h \in Headers : TRUE)
Header(text) == SubSeq(text, 1, HeaderLength)
Body(text) == SubSeq(text, HeaderLength + 1, Len(text))
\* VectorFromString: another version is an error, and so is an unknown metric or code, and
\* the single malformed part where there are none; of two for a metric the last one counts.
\* (A version 3 header without a slash behind it panics, cvss3/vector.go:94.)
Parses(text) ==
  /\ Header(text) \in Headers /\ Body(text) # <<>>
  /\ \A k \in 1 .. Len(Body(text)) :
       LET part == Body(text)[k] IN part[1] \in Metrics /\ FindIndex(part[1], part[2]) # {}
VectorFromText(text) ==
  [m \in Metrics |->
     LET parts == {k \in 1 .. Len(Body(text)) : Body(text)[k][1] = m} IN
     IF parts = {} THEN 0
     ELSE LET last == CHOOSE k \in parts : \A j \in parts : j <= k IN
          CHOOSE i \in FindIndex(m, Body(text)[last][2]) : TRUE]

\* Vector.Absorb: each defined metric goes through its code and parse; the version stays
Absorb(v, other) ==
  [m \in Metrics |->
     IF Defined(other, m)
     THEN CHOOSE i \in FindIndex(m, Code(m, other[m])) : TRUE
     ELSE v[m]]

(* What is written is read back as it was, in whatever order its parts stand, and
   without a version that is known it is not read.                           *)
ReadsBack(v) ==
  v # NotDefined =>
    \A h \in Headers :
      LET text == Text(h, v) IN
      /\ Parses(text) /\ VectorFromText(text) = v
      /\ Header(text) = h /\ VectorFromText(h \o Reverse(Body(text))) = v
      /\ h # <<>> => ~Parses(Body(text))

(* "Absorb will override only metrics in the current vector from the one given
   which are defined" (vector.go): the same as to write the other vector behind
   the first and to read them as one.                                         *)
AbsorbsDefined(v, other) ==
  v # NotDefined =>
    \A h \in Headers :
      Absorb(v, other) = VectorFromText(Text(h, v) \o Body(Text(h, other)))
=============================================================================
