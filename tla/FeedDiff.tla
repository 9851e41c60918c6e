------------------------------ MODULE FeedDiff ------------------------------
(* cvefeed/diff.go: what is different in two dictionaries.  A dictionary maps the
   identifiers it has to what a difference is looked for in.                 *)
EXTENDS Integers, Sequences, FiniteSetsExt

Kinds == <<"description", "score">>      \* chunkKind, by the position of its bit
Bits == {1, 2}

SameDescription(x, y) == x.description = y.description
\* an absent score is 0 with an empty vector, which is how it is given here
SameScore(x, y) == x.cvss2 = y.cvss2 /\ x.cvss3 = y.cvss3

\* Faulty variant: a difference of the score hides behind one of the description.
DifferenceFirst(x, y) ==
  IF ~SameDescription(x, y) THEN {1} ELSE IF ~SameScore(x, y) THEN {2} ELSE {}
\* the bits of an entry
Difference(x, y) ==
  (IF SameDescription(x, y) THEN {} ELSE {1}) \cup (IF SameScore(x, y) THEN {} ELSE {2})

Common(a, b) == DOMAIN a \cap DOMAIN b
Entries(a, b) ==
  [id \in {x \in Common(a, b) : Difference(a[x], b[x]) # {}} |-> Difference(a[id], b[id])]
\* diff.stats
Stats(a, b) ==
  [numVulnsA |-> Cardinality(DOMAIN a), numVulnsB |-> Cardinality(DOMAIN b),
   aNotB |-> DOMAIN a \ DOMAIN b, bNotA |-> DOMAIN b \ DOMAIN a, entries |-> Entries(a, b),
   bitCounts |-> [bit \in Bits |->
                    Cardinality({id \in Common(a, b) : bit \in Difference(a[id], b[id])})]]

\* genEntryDiffOutput: as many places as bits are set, written at the bits' positions
Places(bits) == Cardinality(bits)
OutOfRange(bits) == \E bit \in bits : bit > Places(bits)
EntryOutput(bits) == [k \in 1 .. Places(bits) |-> IF k \in bits THEN Kinds[k] ELSE "none"]

(* The numbers of a comparison account for both dictionaries: what only one has,
   what both have alike and the differing entries; a kind is counted once for every
   entry that has it; the other way round the same comparison results.         *)
DiffAccounts(a, b) ==
  LET s == Stats(a, b)
      r == Stats(b, a)
      alike == {id \in Common(a, b) :
                  a[id].description = b[id].description /\ SameScore(a[id], b[id])}
  IN  /\ s.numVulnsA = Cardinality(s.aNotB) + Cardinality(DOMAIN s.entries) + Cardinality(alike)
      /\ s.numVulnsB = Cardinality(s.bNotA) + Cardinality(DOMAIN s.entries) + Cardinality(alike)
      /\ \A bit \in Bits :
            s.bitCounts[bit] = Cardinality({id \in DOMAIN s.entries : bit \in s.entries[id]})
      /\ r.entries = s.entries /\ r.aNotB = s.bNotA /\ r.bitCounts = s.bitCounts

(* An entry's output has a chunk for every kind it differs in, unless it differs in
   its score alone, which is written behind the end of the only place.         *)
OutputsEveryKind(a, b) ==
  \A id \in DOMAIN Stats(a, b).entries :
    LET bits == Stats(a, b).entries[id] IN
    IF a[id].description = b[id].description THEN OutOfRange(bits)
    ELSE /\ ~OutOfRange(bits)
         /\ Len(EntryOutput(bits)) = Cardinality(bits)
         /\ SameScore(a[id], b[id])
               <=> \A k \in DOMAIN EntryOutput(bits) : EntryOutput(bits)[k] # "score"
=============================================================================
