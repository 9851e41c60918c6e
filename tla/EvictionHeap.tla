---------------------------- MODULE EvictionHeap ----------------------------
(***************************************************************************)
(* cvefeed/evictionqueue.go with the algorithms of container/heap it calls: *)
(* what heap.Push, heap.Pop and heap.Fix do to the items, a comparison and  *)
(* a swap at a time, with the index field that Swap and Push maintain.      *)
(*                                                                          *)
(* The cache calls them under its lock, one after another.  The clock is    *)
(* read when an item is pushed or touched and may stand still or be set     *)
(* back in between: what depends on its not being set back says so.         *)
(***************************************************************************)
EXTENDS HeapContract

CONSTANTS HeapKeys,   \* keys that are pushed
          ClockValues \* what the clock may show

ASSUME TimesAssumption == ClockValues \subseteq Nat

VARIABLES heap,     \* evictionQueue.q
          now,      \* time.Now
          call,     \* the call of push, pop or touch that is under way
          before,   \* the items when it was made
          phase,    \* the loop it is in: heap.up, heap.down, or none
          at,       \* where the item is that the loop moves
          count     \* the items that heap.down looks at

heapVars == <<heap, now, call, before, phase, at, count>>

NoCall == [op |-> "none"]
Call(op, key, item) == [op |-> op, key |-> key, item |-> item]
Items(h) == [i \in DOMAIN h |-> [key |-> h[i].key, access |-> h[i].access]]
Accesses(q) == {q[i].access : i \in DOMAIN q}

\* Faulty variant: the indices stay with the positions' old items.
SwapNoIndex(h, i, j) == [h EXCEPT ![i] = h[j], ![j] = h[i]]

\* evictionHeap.Swap keeps every item's index its position.
Swap(h, i, j) ==
  [k \in DOMAIN h |-> IF k = j THEN [h[i] EXCEPT !.index = j]
                      ELSE IF k = i THEN [h[j] EXCEPT !.index = i] ELSE h[k]]

HeapInit ==
  /\ heap = <<>> /\ now \in ClockValues
  /\ call = NoCall /\ before = <<>> /\ phase = "idle" /\ at = 0 /\ count = 0

\* Nobody reads the clock while a call is under way.
Tick ==
  /\ phase = "idle" /\ now' \in ClockValues
  /\ UNCHANGED <<heap, call, before, phase, at, count>>

-----------------------------------------------------------------------------
Begin(op, key, item, loop, n) ==
  /\ phase = "idle"
  /\ call' = Call(op, key, item) /\ before' = Items(heap)
  /\ phase' = loop /\ at' = item /\ count' = n
  /\ UNCHANGED now
Return ==
  /\ call' = NoCall /\ before' = <<>> /\ phase' = "idle" /\ at' = 0 /\ count' = 0
  /\ UNCHANGED now

\* push: heap.Push puts the item behind the others
CallPush(key) ==
  LET n == Len(heap) + 1 IN
  /\ \A i \in DOMAIN heap : heap[i].key # key
  /\ heap' = Append(heap, [key |-> key, index |-> n, access |-> now])
  /\ Begin("push", key, n, "up", n)

\* Faulty variant: the root stays, and the last item is cut off in its place.
CallPopLast ==
  /\ heap # <<>>
  /\ heap' = heap
  /\ Begin("pop", heap[1].key, 1, "down", Len(heap) - 1)
\* pop: heap.Pop has the root and the last item change places
CallPop ==
  /\ heap # <<>>
  /\ heap' = Swap(heap, 1, Len(heap))
  /\ Begin("pop", heap[1].key, 1, "down", Len(heap) - 1)

\* touch: heap.Fix of the item at a position, which has been given the time
CallTouch(i) ==
  /\ heap' = [heap EXCEPT ![i].access = now]
  /\ Begin("touch", heap[i].key, i, "down", Len(heap))

\* heap.up: the item rises while it is less than its parent
Rises == at \div 2 # 0 /\ Less(heap, at, at \div 2)
Rise ==
  /\ phase = "up" /\ Rises
  /\ heap' = Swap(heap, at \div 2, at) /\ at' = at \div 2
  /\ UNCHANGED <<now, call, before, phase, count>>
UpEnds == phase = "up" /\ ~Rises /\ Return /\ UNCHANGED heap

\* heap.down: it sinks while the lesser of its children is less
Child ==
  LET left == 2 * at IN
  IF left + 1 <= count /\ Less(heap, left + 1, left) THEN left + 1 ELSE left
Sinks == 2 * at <= count /\ Less(heap, Child, at)
Sink ==
  /\ phase = "down" /\ Sinks
  /\ heap' = Swap(heap, at, Child) /\ at' = Child
  /\ UNCHANGED <<now, call, before, phase, count>>
\* evictionHeap.Pop takes the last item away
DownEndsPop ==
  /\ phase = "down" /\ ~Sinks /\ call.op = "pop"
  /\ heap' = SubSeq(heap, 1, Len(heap) - 1) /\ Return
\* heap.Fix goes up when down has not moved the item
DownEndsFix ==
  /\ phase = "down" /\ ~Sinks /\ call.op = "touch"
  /\ IF at # call.item THEN Return
     ELSE phase' = "up" /\ UNCHANGED <<now, call, before, at, count>>
  /\ UNCHANGED heap

HeapNext ==
  \/ Tick
  \/ \E key \in HeapKeys : CallPush(key)
  \/ CallPop
  \/ \E i \in DOMAIN heap : CallTouch(i)
  \/ Rise \/ UpEnds
  \/ Sink \/ DownEndsPop \/ DownEndsFix
HeapSpec == HeapInit /\ [][HeapNext]_heapVars

-----------------------------------------------------------------------------
HeapItem == [key : HeapKeys, index : Nat, access : ClockValues]
HeapTypeOK ==
  /\ heap \in Seq(HeapItem) /\ now \in ClockValues
  /\ phase \in {"idle", "up", "down"}
  /\ before \in Seq([key : HeapKeys, access : ClockValues])
  /\ IF phase = "idle" THEN call = NoCall
     ELSE /\ call \in [op : {"push", "pop", "touch"}, key : HeapKeys, item : 1 .. Len(heap)]
          /\ at \in 1 .. Len(heap) /\ count \in 0 .. Len(heap)

\* "the index of item on the heap" (evictionqueue.go:24): what push and touch
\* return is where the item is, even after the swaps of later calls.
IndexOfItem == \A i \in DOMAIN heap : heap[i].index = i

\* No key is on the heap twice: two records would be one for the cache.
KeysDiffer == \A i, j \in DOMAIN heap : heap[i].key = heap[j].key => i = j

\* Between two calls the least recently used item is at the root, whatever was
\* pushed, popped and touched before.
OldestFirst == phase = "idle" => \A i \in DOMAIN heap : heap[1].access <= heap[i].access

\* The heap's items have their types, know their positions, are there once, and the
\* oldest is on top, whatever the calls before (evictionqueue.go).
HeapSound == HeapTypeOK /\ IndexOfItem /\ KeysDiffer /\ OldestFirst

\* Every call does what the cache's model takes container/heap to do: no item is lost
\* or doubled, the rest is in heap order, pop takes the root, and a push goes last
\* unless the clock was set back.
MeetsContract ==
  [][phase # "idle" /\ phase' = "idle" =>
       CASE call.op = "push" ->
              LET pushed == Pushed(before, call.key, now) IN
              /\ Items(heap') \in Arrangements(pushed)
              /\ (\A t \in Accesses(before) : t <= now) => Items(heap') = pushed
         [] call.op = "pop" -> Head(before).key = call.key /\ Items(heap') \in Popped(before)
         [] call.op = "touch" -> Items(heap') \in Touched(before, call.item, now)]_heapVars
-----------------------------------------------------------------------------
(* The inductive invariant behind these properties: while a call is under way the
   items are those it was made for, in some order, and only the moving item may be
   out of place.                                                              *)

\* What a call makes of the items it found, but for their order.
Target ==
  CASE call.op = "push" -> Pushed(before, call.key, now)
    [] call.op = "pop" -> Tail(before)
    [] OTHER -> [before EXCEPT ![call.item].access = now]

Permutes(p, n) ==
  /\ p \in [1 .. n -> 1 .. n]
  /\ \A i, j \in 1 .. n : p[i] = p[j] => i = j
  /\ \A j \in 1 .. n : \E i \in 1 .. n : p[i] = j
\* The first n items are those of q.
Arranges(p, h, q, n) ==
  Permutes(p, n) /\ \A i \in 1 .. n : Items(h)[i] = q[p[i]]
Arranged(h, q, n) == Len(q) = n /\ \E p \in [1 .. n -> 1 .. n] : Arranges(p, h, q, n)

\* The first n items are in order, but the item at j may be less than its parent.
OrderUp(h, j, n) ==
  \A k \in 2 .. n :
    /\ k # j => ~Less(h, k, k \div 2)
    /\ k \div 2 = j /\ j \div 2 # 0 => ~Less(h, k, j \div 2)
\* But the item at i may be more than its children, and, where Fix began, less than
\* its parent.
OrderDown(h, i, n, first) ==
  \A k \in 2 .. n :
    /\ k \div 2 # i /\ ~(k = i /\ i = first) => ~Less(h, k, k \div 2)
    /\ k \div 2 = i /\ i \div 2 # 0 => ~Less(h, k, i \div 2)

InCall ==
  /\ Arranged(heap, Target, count)
  /\ call.op = "push" => /\ phase = "up" /\ count = Len(heap)
                         /\ (\A t \in Accesses(before) : t <= now) =>
                              at = Len(heap) /\ Items(heap) = Target
  /\ call.op = "pop" => /\ phase = "down" /\ count = Len(heap) - 1 /\ call.item = 1
                        /\ before # <<>> /\ Head(before).key = call.key
  /\ call.op = "touch" => count = Len(heap) /\ call.item \in DOMAIN before
  /\ phase = "up" => OrderUp(heap, at, count)
  /\ phase = "down" => OrderDown(heap, at, count, call.item)

HeapInv ==
  /\ HeapTypeOK /\ IndexOfItem /\ KeysDiffer
  /\ IF phase = "idle" THEN HeapOrdered(heap) ELSE InCall
=============================================================================
