------------------------------ MODULE OutputRow ------------------------------
(* cmd/cpe2cve/fieldstoskip.go: the row that is written for a match, a record's
   fields without the erased ones and with a value at each position asked for.
   Positions start with 0; those below are not asked for.                     *)
EXTENDS Integers, Sequences, SequencesExt, TLC

Empty == ""

\* what atoii makes of "from-to": an interval, or its two ends if it descends
Atoii(from, to) == {from} \cup (from + 1 .. to - 1) \cup {to}
\* fieldsToSkip.Set of ranges that start with 1
Set(ranges) == {n - 1 : n \in UNION {Atoii(r[1], r[2]) : r \in ranges}}

SkipFields(skip, fields) ==
  LET Kept(n) == n - 1 \notin skip IN
  [k \in 1 .. Cardinality({n \in DOMAIN fields : Kept(n)}) |->
     fields[SetToSortSeq({n \in DOMAIN fields : Kept(n)}, <)[k]]]

\* the positions asked for, in the order of the arguments
Asked(args) == SelectSeq([k \in DOMAIN args |-> args[k].at], LAMBDA at : at >= 0)
\* Faulty variant: in that order.
KeysAsGiven(args) == Asked(args)
SortedKeys(args) == SortSeq(Asked(args), <)
\* of several values for a position the last one counts
Fields(args) ==
  LET last(at) == CHOOSE k \in DOMAIN args :
                    args[k].at = at /\ \A n \in DOMAIN args : n > k => args[n].at # at
  IN  [at \in {args[k].at : k \in DOMAIN args} |-> args[last(at)].value]

\* A position behind the end is moved there, before its value is looked up.
InsertField(to, key, fields) ==
  LET at == IF key > Len(to) THEN Len(to) ELSE key IN
  InsertAt(to, at + 1, IF at \in DOMAIN fields THEN fields[at] ELSE Empty)
AppendAt(skip, to, args) ==
  LET insert(row, key) == InsertField(row, key, Fields(args)) IN
  FoldLeft(insert, SkipFields(skip, to), SortedKeys(args))

-----------------------------------------------------------------------------
(* When no position is asked for twice, and none lies behind the end of the row, each
   value is found at its position and the other fields are the record's without the
   erased ones, in their order.                                               *)
EveryValueAtItsPosition(ranges, fields, args) ==
  LET kept == {n \in DOMAIN fields : \A r \in ranges : ~(r[1] <= n /\ n <= r[2])}
      row == AppendAt(Set(ranges), fields, args)
      asked == {k \in DOMAIN args : args[k].at >= 0}
      places == {args[k].at + 1 : k \in asked}
      size == Cardinality(kept) + Cardinality(asked)
      others == SetToSortSeq((1 .. size) \ places, <)
  IN  (\A k, n \in asked : k # n => args[k].at # args[n].at) /\ places \subseteq 1 .. size =>
        /\ Len(row) = size
        /\ \A k \in asked : row[args[k].at + 1] = args[k].value
        /\ [k \in DOMAIN others |-> row[others[k]]]
             = [k \in 1 .. Cardinality(kept) |-> fields[SetToSortSeq(kept, <)[k]]]
=============================================================================
