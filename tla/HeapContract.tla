---------------------------- MODULE HeapContract ----------------------------
(***************************************************************************)
(* What the cache relies on in container/heap over evictionHeap             *)
(* (cvefeed/evictionqueue.go): Push, Pop and Fix leave the items they       *)
(* should in some heap order, which is all the package documents.           *)
(* Positions are 1-based: the children of position i are 2i and 2i+1.       *)
(***************************************************************************)
EXTENDS Naturals, Sequences

Less(q, i, j) == q[i].access < q[j].access

HeapOrdered(q) == \A i \in 2..Len(q) : ~ Less(q, i, i \div 2)

\* Every arrangement in heap order of the items of a sequence.
Arrangements(items) ==
  LET positions == 1..Len(items)
      injective(p) == \A i, j \in positions : p[i] = p[j] => i = j
      onto(p) == \A j \in positions : \E i \in positions : p[i] = j
      orders == {p \in [positions -> positions] : injective(p) /\ onto(p)}
  IN  {q \in {[i \in positions |-> items[p[i]]] : p \in orders} : HeapOrdered(q)}

\* push: an item with the latest access time is a leaf and stays where it is.
Pushed(q, key, now) == Append(q, [key |-> key, access |-> now])

\* pop: the root leaves, the rest is rearranged.
Popped(q) == Arrangements(Tail(q))

\* touch: the item at a position is given the current time and put in its place.
Touched(q, i, now) == Arrangements([q EXCEPT ![i].access = now])
=============================================================================
