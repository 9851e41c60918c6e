-------------------------- MODULE CveCache_proofs --------------------------
(***************************************************************************)
(* What holds of the cache for every set of calls, keys, weights and        *)
(* limits, when every request has a usable CPE name (EmptyKey is no key):   *)
(* then evict never pops the "" of an empty queue and finds a record; and,  *)
(* below, of the heap it keeps its queue in, for every sequence of calls.   *)
(***************************************************************************)
EXTENDS CveCacheInv, EvictionHeap, FiniteSetTheorems, WellFoundedInduction, TLAPS

-----------------------------------------------------------------------------
(* The heap's contract.                                                     *)

KeysOf(q) == {q[i].key : i \in DOMAIN q}
Distinct(q) == \A i, j \in DOMAIN q : q[i].key = q[j].key => i = j

\* An arrangement of a sequence of items holds the same keys, each as often.
LEMMA ArrangementKeepsItems ==
  ASSUME NEW items \in Seq(Item), NEW q \in Arrangements(items)
  PROVE  /\ q \in Seq(Item)
         /\ Len(q) = Len(items)
         /\ KeysOf(q) = KeysOf(items)
         /\ Distinct(items) => Distinct(q)
<1> DEFINE positions == 1..Len(items)
<1>1. PICK p \in [positions -> positions] :
        /\ \A i, j \in positions : p[i] = p[j] => i = j
        /\ \A j \in positions : \E i \in positions : p[i] = j
        /\ q = [i \in positions |-> items[p[i]]]
  BY DEF Arrangements
<1>2. Len(items) \in Nat /\ DOMAIN items = positions /\ \A i \in positions : items[i] \in Item
  OBVIOUS
<1>3. q \in [positions -> Item] /\ DOMAIN q = positions
  BY <1>1, <1>2
<1>4. q \in Seq(Item) /\ Len(q) = Len(items)
  BY <1>2, <1>3
<1>5. KeysOf(q) = KeysOf(items)
  <2>1. \A i \in positions : q[i].key \in KeysOf(items)
    BY <1>1, <1>2 DEF KeysOf
  <2>2. \A j \in positions : items[j].key \in KeysOf(q)
    BY <1>1, <1>2, <1>3, SMTT(30) DEF KeysOf
  <2>3. QED BY <2>1, <2>2, <1>2, <1>3 DEF KeysOf
<1>6. Distinct(items) => Distinct(q)
  <2>1. SUFFICES ASSUME Distinct(items), NEW i \in positions, NEW j \in positions,
                        q[i].key = q[j].key
                 PROVE  i = j
    BY <1>3 DEF Distinct
  <2>2. p[i] \in positions /\ p[j] \in positions /\ items[p[i]].key = items[p[j]].key
    BY <1>1, <2>1
  <2>3. p[i] = p[j]
    BY <1>2, <2>1, <2>2 DEF Distinct
  <2>4. QED BY <1>1, <2>3
<1>7. QED BY <1>4, <1>5, <1>6

\* touch keeps the keys of the queue.
LEMMA TouchKeepsKeys ==
  ASSUME NEW q \in Seq(Item), NEW i \in 1..Len(q), NEW time \in Nat,
         NEW r \in Touched(q, i, time)
  PROVE  /\ r \in Seq(Item) /\ Len(r) = Len(q) /\ KeysOf(r) = KeysOf(q)
         /\ Distinct(q) => Distinct(r)
<1> DEFINE items == [q EXCEPT ![i].access = time]
<1>1. /\ items \in Seq(Item) /\ Len(items) = Len(q) /\ DOMAIN items = DOMAIN q
      /\ \A j \in DOMAIN q : items[j].key = q[j].key
  <2>1. /\ DOMAIN q = 1..Len(q) /\ Len(q) \in Nat /\ DOMAIN items = 1..Len(q)
        /\ \A j \in 1..Len(q) : q[j] \in Item
    OBVIOUS
  <2>2. \A j \in 1..Len(q) :
          items[j] = IF j = i THEN [q[j] EXCEPT !.access = time] ELSE q[j]
    OBVIOUS
  <2>3. \A j \in 1..Len(q) : items[j] \in Item /\ items[j].key = q[j].key
    BY <2>1, <2>2 DEF Item
  <2>4. items \in Seq(Item)
    BY <2>1, <2>3
  <2>5. QED BY <2>1, <2>3, <2>4
<1>2. KeysOf(items) = KeysOf(q) /\ (Distinct(q) => Distinct(items))
  BY <1>1 DEF KeysOf, Distinct
<1>3. r \in Arrangements(items)
  BY DEF Touched
<1>. HIDE DEF items
<1>4. QED BY <1>1, <1>2, <1>3, ArrangementKeepsItems

\* pop takes the key at the root and no other.
LEMMA PopRemovesRoot ==
  ASSUME NEW q \in Seq(Item), q # <<>>, Distinct(q), NEW r \in Popped(q)
  PROVE  /\ r \in Seq(Item) /\ Distinct(r) /\ Len(r) = Len(q) - 1
         /\ KeysOf(r) = KeysOf(q) \ {Head(q).key}
         /\ Head(q).key \in KeysOf(q)
<1>1. /\ Tail(q) \in Seq(Item) /\ Len(Tail(q)) = Len(q) - 1 /\ Len(q) \in Nat \ {0}
      /\ DOMAIN q = 1..Len(q) /\ DOMAIN Tail(q) = 1..(Len(q) - 1)
      /\ \A i \in 1..(Len(q) - 1) : Tail(q)[i] = q[i + 1]
      /\ Head(q) = q[1]
  OBVIOUS
<1>2. Distinct(Tail(q))
  BY <1>1 DEF Distinct
<1>3. KeysOf(Tail(q)) = KeysOf(q) \ {q[1].key}
  <2>1. \A i \in 1..(Len(q) - 1) : Tail(q)[i].key \in KeysOf(q) \ {q[1].key}
    BY <1>1 DEF KeysOf, Distinct
  <2>2. \A j \in DOMAIN q : j # 1 => j - 1 \in 1..(Len(q) - 1) /\ Tail(q)[j - 1] = q[j]
    BY <1>1
  <2>3. \A j \in DOMAIN q : q[j].key # q[1].key => q[j].key \in KeysOf(Tail(q))
    BY <1>1, <2>2 DEF KeysOf
  <2>4. QED BY <1>1, <2>1, <2>3 DEF KeysOf
<1>4. r \in Arrangements(Tail(q))
  BY DEF Popped
<1>5. q[1].key \in KeysOf(q)
  BY <1>1 DEF KeysOf
<1>6. QED BY <1>1, <1>2, <1>3, <1>4, <1>5, ArrangementKeepsItems

\* push adds its key.
LEMMA PushAddsKey ==
  ASSUME NEW q \in Seq(Item), NEW key \in Keys, NEW time \in Nat,
         NEW r, r = Pushed(q, key, time)
  PROVE  /\ r \in Seq(Item) /\ Len(r) = Len(q) + 1
         /\ KeysOf(r) = KeysOf(q) \cup {key}
         /\ Distinct(q) /\ key \notin KeysOf(q) => Distinct(r)
<1> DEFINE item == [key |-> key, access |-> time]
<1>1. /\ item \in Item /\ r \in Seq(Item) /\ Len(r) = Len(q) + 1 /\ Len(q) \in Nat
      /\ DOMAIN q = 1..Len(q) /\ DOMAIN r = 1..(Len(q) + 1)
      /\ r[Len(q) + 1] = item /\ item.key = key
      /\ \A i \in 1..Len(q) : r[i] = q[i]
  BY DEF Item, Pushed
<1>. HIDE DEF item
<1>2. KeysOf(r) = KeysOf(q) \cup {key}
  BY <1>1 DEF KeysOf
<1>3. Distinct(q) /\ key \notin KeysOf(q) => Distinct(r)
  BY <1>1 DEF KeysOf, Distinct
<1>4. QED BY <1>1, <1>2, <1>3
-----------------------------------------------------------------------------
(* Sums over finite sets of what MapThenSumSet maps them to.                *)

\* Induction over the subsets of a finite set: a family of them has a smallest member.
LEMMA SmallestSubset ==
  ASSUME NEW S, IsFiniteSet(S), NEW F, F \subseteq SUBSET S, F # {}
  PROVE  \E s \in F : \A t \in F : t \subseteq s => t = s
<1>1. F \subseteq FiniteSubsetsOf(S)
  BY FS_FiniteSubsetsOfFinite
<1>2. PICK s \in F : \A t \in F : <<t, s>> \notin StrictSubsetOrdering(S)
  BY <1>1, FS_StrictSubsetOrderingWellFounded, WFMin
<1> QED BY <1>2 DEF StrictSubsetOrdering

\* The sum of w[k] over the members k of a set.
Sum(w, S) == MapThenSumSet(LAMBDA k : w[k], S)

\* A sum over the subsets of a set: additive, so that the order of the terms is no matter.
IsSumOver(w, S, f) ==
  /\ f \in [SUBSET S -> Nat] /\ f[{}] = 0
  /\ \A s \in SUBSET S : \A x \in S \ s : f[s \cup {x}] = f[s] + w[x]

\* Every finite set has its sums.
LEMMA SumsExist ==
  ASSUME NEW K, NEW w \in [K -> Nat], NEW S \in SUBSET K, IsFiniteSet(S)
  PROVE  \E f : IsSumOver(w, S, f)
<1> DEFINE F == {s \in SUBSET S : ~\E f : IsSumOver(w, s, f)}
<1> SUFFICES ASSUME S \in F PROVE FALSE
  OBVIOUS
<1>1. PICK s \in F : \A t \in F : t \subseteq s => t = s
  <2> HIDE DEF F
  <2>1. F \subseteq SUBSET S /\ F # {}
    BY DEF F
  <2> QED BY <2>1, SmallestSubset
<1>2. s # {}
  <2> DEFINE g == [t \in SUBSET {} |-> 0]
  <2>1. IsSumOver(w, {}, g)
    BY DEF IsSumOver
  <2> QED BY <2>1
<1>3. PICK x \in s : TRUE
  BY <1>2
<1> DEFINE r == s \ {x}
<1>4. r \notin F /\ r \in SUBSET S
  BY <1>1
<1>5. PICK f : IsSumOver(w, r, f)
  BY <1>4
<1> DEFINE g == [t \in SUBSET s |-> IF x \in t THEN f[t \ {x}] + w[x] ELSE f[t]]
<1>6. IsSumOver(w, s, g)
  <2>1. \A t \in SUBSET s : t \ {x} \in SUBSET r /\ (x \notin t => t \in SUBSET r)
    OBVIOUS
  <2>2. w[x] \in Nat /\ {} \in SUBSET r /\ f \in [SUBSET r -> Nat] /\ f[{}] = 0
    BY <1>5 DEF IsSumOver
  <2>3. g \in [SUBSET s -> Nat]
    BY <2>1, <2>2
  <2>4. g[{}] = 0
    BY <2>2
  <2>5. ASSUME NEW t \in SUBSET s, NEW y \in s \ t PROVE g[t \cup {y}] = g[t] + w[y]
    <3>0. w[y] \in Nat
      OBVIOUS
    <3>1. CASE y = x
      <4>1. (t \cup {y}) \ {x} = t /\ t \cup {y} \in SUBSET s
        BY <2>5, <3>1
      <4> QED BY <2>5, <3>1, <4>1
    <3>2. CASE y # x /\ x \in t
      <4>1. /\ (t \cup {y}) \ {x} = (t \ {x}) \cup {y} /\ t \cup {y} \in SUBSET s
            /\ y \in r \ (t \ {x}) /\ t \ {x} \in SUBSET r
        BY <2>5, <3>2
      <4>2. f[(t \ {x}) \cup {y}] = f[t \ {x}] + w[y]
        BY <1>5, <4>1 DEF IsSumOver
      <4>3. f[t \ {x}] \in Nat
        BY <2>2, <4>1
      <4>4. g[t \cup {y}] = f[(t \ {x}) \cup {y}] + w[x] /\ g[t] = f[t \ {x}] + w[x]
        BY <3>2, <4>1
      <4> HIDE DEF g
      <4> QED BY <2>2, <3>0, <4>2, <4>3, <4>4
    <3>3. CASE y # x /\ x \notin t
      <4>1. t \cup {y} \in SUBSET s /\ x \notin t \cup {y} /\ t \in SUBSET r /\ y \in r \ t
        BY <2>5, <3>3
      <4>2. f[t \cup {y}] = f[t] + w[y]
        BY <1>5, <4>1 DEF IsSumOver
      <4> QED BY <3>3, <4>1, <4>2
    <3> QED BY <3>1, <3>2, <3>3
  <2> QED BY <2>3, <2>4, <2>5 DEF IsSumOver
<1> QED BY <1>6

\* The recursion of MapThenFoldSet, in the order in which CHOOSE takes the elements.
Recurs(w, S, g) ==
  g = [s \in SUBSET S |-> IF s = {} THEN 0 ELSE LET x == CHOOSE y \in s : TRUE IN w[x] + g[s \ {x}]]

\* Additive sums take one member away at a time, whichever is chosen.
LEMMA SumRecurs ==
  ASSUME NEW S, NEW w, \A x \in S : w[x] \in Nat, NEW f, IsSumOver(w, S, f)
  PROVE  Recurs(w, S, f)
<1> DEFINE g == [s \in SUBSET S |-> IF s = {} THEN 0
                                    ELSE LET x == CHOOSE y \in s : TRUE IN w[x] + f[s \ {x}]]
<1>1. ASSUME NEW s \in SUBSET S PROVE f[s] = g[s]
  <2>1. CASE s = {}
    BY <2>1 DEF IsSumOver
  <2>2. CASE s # {}
    <3> DEFINE x == CHOOSE y \in s : TRUE
    <3>1. x \in s
      BY <2>2
    <3> HIDE DEF x
    <3>2. s \ {x} \in SUBSET S /\ x \in S \ (s \ {x}) /\ (s \ {x}) \cup {x} = s
      BY <3>1
    <3>3. f[s] = f[s \ {x}] + w[x]
      BY <3>2 DEF IsSumOver
    <3>4. g[s] = w[x] + f[s \ {x}]
      BY <2>2 DEF x
    <3>5. f[s \ {x}] \in Nat /\ w[x] \in Nat
      BY <3>2 DEF IsSumOver
    <3> HIDE DEF g
    <3> QED BY <3>3, <3>4, <3>5
  <2> QED BY <2>1, <2>2
<1>2. f = [s \in SUBSET S |-> f[s]]
  BY DEF IsSumOver
<1> HIDE DEF g
<1>3. g = [s \in SUBSET S |-> g[s]]
  BY DEF g
<1>4. f = g
  BY <1>1, <1>2, <1>3
<1> QED BY <1>4 DEF Recurs, g

\* There is one such function.
LEMMA RecursOnce ==
  ASSUME NEW w, NEW S, IsFiniteSet(S), NEW f, NEW g, Recurs(w, S, f), Recurs(w, S, g)
  PROVE  f[S] = g[S]
<1> DEFINE F == {s \in SUBSET S : f[s] # g[s]}
<1> SUFFICES ASSUME S \in F PROVE FALSE
  OBVIOUS
<1>1. PICK s \in F : \A t \in F : t \subseteq s => t = s
  <2> HIDE DEF F
  <2>1. F \subseteq SUBSET S /\ F # {}
    BY DEF F
  <2> QED BY <2>1, SmallestSubset
<1> DEFINE x == CHOOSE y \in s : TRUE
<1>2. /\ f[s] = IF s = {} THEN 0 ELSE w[x] + f[s \ {x}]
      /\ g[s] = IF s = {} THEN 0 ELSE w[x] + g[s \ {x}]
  BY DEF Recurs
<1>3. s # {} /\ f[s \ {x}] # g[s \ {x}]
  <2> HIDE DEF x
  <2> QED BY <1>2
<1>4. x \in s
  BY <1>3
<1> HIDE DEF x
<1>5. s \ {x} \in F /\ s \ {x} # s
  BY <1>3, <1>4
<1> QED BY <1>1, <1>5

\* The library computes the sum of a set as an additive one.
LEMMA SumIs ==
  ASSUME NEW S, IsFiniteSet(S), NEW w, \A x \in S : w[x] \in Nat,
         NEW f, IsSumOver(w, S, f)
  PROVE  Sum(w, S) = f[S]
<1> DEFINE g == CHOOSE g : Recurs(w, S, g)
<1>1. Sum(w, S) = g[S]
  BY DEF Sum, MapThenSumSet, MapThenFoldSet, Recurs
<1>2. Recurs(w, S, f)
  BY SumRecurs
<1>3. Recurs(w, S, g)
  BY <1>2
<1> HIDE DEF g
<1> QED BY <1>1, <1>2, <1>3, RecursOnce

\* What a sum is, without a recursion: of nothing 0, and one term more for one element more.
LEMMA SumAdds ==
  ASSUME NEW K, NEW w \in [K -> Nat], NEW S \in SUBSET K, IsFiniteSet(S)
  PROVE  /\ Sum(w, S) \in Nat
         /\ S = {} => Sum(w, S) = 0
         /\ \A x \in K \ S : Sum(w, S \cup {x}) = Sum(w, S) + w[x]
<1>1. PICK f : IsSumOver(w, S, f)
  BY SumsExist
<1>2. Sum(w, S) = f[S]
  BY <1>1, SumIs
<1>3. f[S] \in Nat /\ (S = {} => f[S] = 0)
  BY <1>1 DEF IsSumOver
<1>4. ASSUME NEW x \in K \ S
      PROVE  Sum(w, S \cup {x}) = f[S] + w[x]
  <2>1. IsFiniteSet(S \cup {x}) /\ S \cup {x} \in SUBSET K
    BY FS_AddElement
  <2>2. PICK g : IsSumOver(w, S \cup {x}, g)
    BY <2>1, SumsExist
  <2>3. Sum(w, S \cup {x}) = g[S \cup {x}]
    BY <2>1, <2>2, SumIs
  <2>4. g[S \cup {x}] = g[S] + w[x]
    BY <2>2 DEF IsSumOver
  <2> DEFINE h == [s \in SUBSET S |-> g[s]]
  <2>5. IsSumOver(w, S, h)
    BY <2>2 DEF IsSumOver
  <2>6. Sum(w, S) = h[S]
    BY <2>5, SumIs
  <2> QED BY <1>2, <2>3, <2>4, <2>6
<1> QED BY <1>2, <1>3, <1>4
-----------------------------------------------------------------------------
(* The invariant is inductive.                                              *)

\* The empty cache.
LEMMA InitIInv == ASSUME RequestsHaveNames PROVE Init => IInv
<1> SUFFICES ASSUME Init PROVE IInv
  OBVIOUS
<1> USE ConstAssumption DEF Init
<1>1. TypeOK
  BY DEF TypeOK, Locations, Failures
<1>2. Roles /\ Locking /\ WithinLimit
  BY DEF Roles, Locking, WithinLimit
<1>3. InFlight = {} /\ Stored = {} /\ QueuedKeys = {}
  BY DEF InFlight, Stored, QueuedKeys
<1>4. Ownership /\ Indexed
  BY <1>3 DEF Ownership, Indexed
<1>5. QueueIsData
  BY <1>3 DEF QueueIsData
<1>6. QED BY <1>1, <1>2, <1>4, <1>5 DEF IInv

\* Every step keeps the invariant.
LEMMA NextIInv ==
  ASSUME RequestsHaveNames PROVE IInv /\ [Next]_vars => IInv'
<1> SUFFICES ASSUME IInv, [Next]_vars PROVE IInv'
  OBVIOUS
<1> USE ConstAssumption DEF IInv, RequestsHaveNames
<1>1. ASSUME NEW c \in Calls, NEW k \in Keys, failure = "none", LookupUncached(c, k)
     PROVE  IInv'
  <2>1. TypeOK'
    BY <1>1 DEF LookupUncached, Goto, TypeOK, Locations, Failures
  <2>2. Roles'
    BY <1>1 DEF LookupUncached, Goto, TypeOK, Roles, Ownership, InFlight, Stored
  <2>3. Ownership'
    BY <1>1 DEF LookupUncached, Goto, TypeOK, Roles, Ownership, InFlight, Stored
  <2>4. QueueIsData'
    BY <1>1 DEF LookupUncached, Goto, TypeOK, Roles, Ownership, QueueIsData, InFlight, Stored,
           QueuedKeys
  <2>5. Locking'
    BY <1>1 DEF LookupUncached, Goto, TypeOK, Locking
  <2>6. WithinLimit'
    BY <1>1 DEF LookupUncached, Goto, TypeOK, WithinLimit, Locking, EvictBytes
  <2>7. Indexed'
    BY <1>1 DEF LookupUncached, Goto, TypeOK, Roles, Indexed, Locking, Stored, WithinLimit,
           EvictBytes
  <2>8. QED BY <2>1, <2>2, <2>3, <2>4, <2>5, <2>6, <2>7
<1>2. ASSUME NEW c \in Calls, NEW k \in Keys, failure = "none", LookupHit(c, k)
     PROVE  IInv'
  <2>1. TypeOK'
    BY <1>2 DEF LookupHit, Goto, TypeOK, Locations, Failures
  <2>2. Roles'
    BY <1>2 DEF LookupHit, Goto, TypeOK, Roles, Ownership, InFlight, Stored
  <2>3. Ownership'
    BY <1>2 DEF LookupHit, Goto, TypeOK, Roles, Ownership, InFlight, Stored
  <2>4. QueueIsData'
    BY <1>2 DEF LookupHit, Goto, TypeOK, Roles, Ownership, QueueIsData, InFlight, Stored, QueuedKeys
  <2>5. Locking'
    BY <1>2 DEF LookupHit, Goto, TypeOK, Locking
  <2>6. WithinLimit'
    BY <1>2 DEF LookupHit, Goto, TypeOK, WithinLimit, Locking, EvictBytes
  <2>7. Indexed'
    BY <1>2 DEF LookupHit, Goto, TypeOK, Roles, Indexed, Locking, Stored, WithinLimit, EvictBytes
  <2>8. QED BY <2>1, <2>2, <2>3, <2>4, <2>5, <2>6, <2>7
<1>3. ASSUME NEW c \in Calls, NEW k \in Keys, failure = "none", LookupMiss(c, k)
     PROVE  IInv'
  <2>1. TypeOK'
    BY <1>3 DEF LookupMiss, StartComputing, Goto, TypeOK, Locations, Failures
  <2>2. Roles'
    BY <1>3 DEF LookupMiss, StartComputing, Goto, TypeOK, Roles, Ownership, InFlight, Stored
  <2>3. Ownership'
    BY <1>3 DEF LookupMiss, StartComputing, Goto, TypeOK, Roles, Ownership, InFlight, Stored
  <2>4. QueueIsData'
    BY <1>3 DEF LookupMiss, StartComputing, Goto, TypeOK, Roles, Ownership, QueueIsData,
           InFlight, Stored, QueuedKeys
  <2>5. Locking'
    BY <1>3 DEF LookupMiss, StartComputing, Goto, TypeOK, Locking
  <2>6. WithinLimit'
    BY <1>3 DEF LookupMiss, StartComputing, Goto, TypeOK, WithinLimit, Locking, EvictBytes
  <2>7. Indexed'
    BY <1>3 DEF LookupMiss, StartComputing, Goto, TypeOK, Roles, Indexed, Locking, Stored,
           WithinLimit, EvictBytes
  <2>8. QED BY <2>1, <2>2, <2>3, <2>4, <2>5, <2>6, <2>7
<1>4. ASSUME NEW c \in Calls, failure = "none", MatchUncached(c)
     PROVE  IInv'
  <2>1. TypeOK'
    BY <1>4 DEF MatchUncached, Goto, TypeOK, Locations, Failures
  <2>2. Roles'
    BY <1>4 DEF MatchUncached, Goto, TypeOK, Roles, Ownership, InFlight, Stored
  <2>3. Ownership'
    BY <1>4 DEF MatchUncached, Goto, TypeOK, Roles, Ownership, InFlight, Stored
  <2>4. QueueIsData'
    BY <1>4 DEF MatchUncached, Goto, TypeOK, Roles, Ownership, QueueIsData, InFlight, Stored,
           QueuedKeys
  <2>5. Locking'
    BY <1>4 DEF MatchUncached, Goto, TypeOK, Locking
  <2>6. WithinLimit'
    BY <1>4 DEF MatchUncached, Goto, TypeOK, WithinLimit, Locking, EvictBytes
  <2>7. Indexed'
    BY <1>4 DEF MatchUncached, Goto, TypeOK, Roles, Indexed, Locking, Stored, WithinLimit,
           EvictBytes
  <2>8. QED BY <2>1, <2>2, <2>3, <2>4, <2>5, <2>6, <2>7
<1>5. ASSUME NEW c \in Calls, failure = "none", Compute(c)
     PROVE  IInv'
  <2>1. TypeOK'
    BY <1>5 DEF Compute, Goto, TypeOK, Roles, Locations, Failures
  <2>2. Roles'
    BY <1>5 DEF Compute, Goto, TypeOK, Roles, Ownership, InFlight, Stored
  <2>3. Ownership'
    BY <1>5 DEF Compute, Goto, TypeOK, Roles, Ownership, InFlight, Stored
  <2>4. QueueIsData'
    BY <1>5 DEF Compute, Goto, TypeOK, Roles, Ownership, QueueIsData, InFlight, Stored, QueuedKeys
  <2>5. Locking'
    BY <1>5 DEF Compute, Goto, TypeOK, Locking
  <2>6. WithinLimit'
    BY <1>5 DEF Compute, Goto, TypeOK, WithinLimit, Locking, EvictBytes
  <2>7. Indexed'
    BY <1>5 DEF Compute, Goto, TypeOK, Roles, Indexed, Locking, Stored, WithinLimit, EvictBytes
  <2>8. QED BY <2>1, <2>2, <2>3, <2>4, <2>5, <2>6, <2>7
<1>6. ASSUME NEW c \in Calls, failure = "none", Store(c)
     PROVE  IInv'
  <2>1. TypeOK'
    BY <1>6 DEF Store, Charge, Goto, TypeOK, Locations, Failures
  <2>2. Roles'
    BY <1>6 DEF Store, Charge, Goto, TypeOK, Roles, Ownership, InFlight, Stored
  <2>3. Ownership'
    BY <1>6 DEF Store, Charge, Goto, TypeOK, Roles, Ownership, InFlight, Stored
  <2>4. QueueIsData'
    BY <1>6 DEF Store, Charge, Goto, TypeOK, Roles, Ownership, QueueIsData, InFlight, Stored,
           QueuedKeys
  <2>5. Locking'
    BY <1>6 DEF Store, Charge, Goto, TypeOK, Locking
  <2>6. WithinLimit'
    BY <1>6 DEF Store, Charge, Goto, TypeOK, WithinLimit, Locking, EvictBytes
  <2>7. Indexed'
    BY <1>6 DEF Store, Charge, Goto, TypeOK, Roles, Indexed, Locking, Stored, WithinLimit,
           EvictBytes
  <2>8. QED BY <2>1, <2>2, <2>3, <2>4, <2>5, <2>6, <2>7
<1>7. ASSUME NEW c \in Calls, failure = "none", EvictPanic(c)
     PROVE  IInv'
  <2>1. TypeOK'
    BY <1>7 DEF EvictPanic, Goto, TypeOK, Locations, Failures
  <2>2. Roles'
    BY <1>7 DEF EvictPanic, Goto, TypeOK, Roles, Ownership, InFlight, Stored
  <2>3. Ownership'
    BY <1>7 DEF EvictPanic, Goto, TypeOK, Roles, Ownership, InFlight, Stored
  <2>4. QueueIsData'
    BY <1>7 DEF EvictPanic, Goto, TypeOK, Roles, Ownership, QueueIsData, InFlight, Stored,
           QueuedKeys
  <2>5. Locking'
    BY <1>7 DEF EvictPanic, Goto, TypeOK, Locking
  <2>6. WithinLimit'
    BY <1>7 DEF EvictPanic, Goto, TypeOK, WithinLimit, Locking, EvictBytes
  <2>7. Indexed'
    BY <1>7 DEF EvictPanic, Goto, TypeOK, Roles, Indexed, Locking, Stored, WithinLimit, EvictBytes
  <2>8. QED BY <2>1, <2>2, <2>3, <2>4, <2>5, <2>6, <2>7
<1>8. ASSUME NEW c \in Calls, failure = "none", EvictDone(c)
     PROVE  IInv'
  <2>1. TypeOK'
    BY <1>8 DEF EvictDone, Goto, TypeOK, Locations, Failures
  <2>2. Roles'
    BY <1>8 DEF EvictDone, Goto, TypeOK, Roles, Ownership, InFlight, Stored
  <2>3. Ownership'
    BY <1>8 DEF EvictDone, Goto, TypeOK, Roles, Ownership, InFlight, Stored
  <2>4. QueueIsData'
    BY <1>8 DEF EvictDone, Goto, TypeOK, Roles, Ownership, QueueIsData, InFlight, Stored, QueuedKeys
  <2>5. Locking'
    BY <1>8 DEF EvictDone, Goto, TypeOK, Locking
  <2>6. WithinLimit'
    BY <1>8 DEF EvictDone, Goto, TypeOK, WithinLimit, Locking, EvictBytes
  <2>7. Indexed'
    BY <1>8 DEF EvictDone, Goto, TypeOK, Roles, Indexed, Locking, Stored, WithinLimit, EvictBytes
  <2>8. QED BY <2>1, <2>2, <2>3, <2>4, <2>5, <2>6, <2>7
<1>9. ASSUME NEW c \in Calls, failure = "none", CloseReady(c)
     PROVE  IInv'
  <2>1. TypeOK'
    BY <1>9 DEF CloseReady, Goto, TypeOK, Locations, Failures
  <2>2. Roles'
    BY <1>9 DEF CloseReady, Goto, TypeOK, Roles, Ownership, InFlight, Stored
  <2>3. Ownership'
    BY <1>9 DEF CloseReady, Goto, TypeOK, Roles, Ownership, InFlight, Stored
  <2>4. QueueIsData'
    BY <1>9 DEF CloseReady, Goto, TypeOK, Roles, Ownership, QueueIsData, InFlight, Stored,
           QueuedKeys
  <2>5. Locking'
    BY <1>9 DEF CloseReady, Goto, TypeOK, Locking
  <2>6. WithinLimit'
    BY <1>9 DEF CloseReady, Goto, TypeOK, WithinLimit, Locking, EvictBytes
  <2>7. Indexed'
    BY <1>9 DEF CloseReady, Goto, TypeOK, Roles, Indexed, Locking, Stored, WithinLimit, EvictBytes
  <2>8. QED BY <2>1, <2>2, <2>3, <2>4, <2>5, <2>6, <2>7
<1>10. ASSUME NEW c \in Calls, failure = "none", TouchPanic(c)
     PROVE  IInv'
  <2>1. TypeOK'
    BY <1>10 DEF TouchPanic, Goto, TypeOK, Locations, Failures
  <2>2. Roles'
    BY <1>10 DEF TouchPanic, Goto, TypeOK, Roles, Ownership, InFlight, Stored
  <2>3. Ownership'
    BY <1>10 DEF TouchPanic, Goto, TypeOK, Roles, Ownership, InFlight, Stored
  <2>4. QueueIsData'
    BY <1>10 DEF TouchPanic, Goto, TypeOK, Roles, Ownership, QueueIsData, InFlight, Stored,
           QueuedKeys
  <2>5. Locking'
    BY <1>10 DEF TouchPanic, Goto, TypeOK, Locking
  <2>6. WithinLimit'
    BY <1>10 DEF TouchPanic, Goto, TypeOK, WithinLimit, Locking, EvictBytes
  <2>7. Indexed'
    BY <1>10 DEF TouchPanic, TypeOK, Roles, Ownership, Indexed, Stored
  <2>8. QED BY <2>1, <2>2, <2>3, <2>4, <2>5, <2>6, <2>7
<1>11. ASSUME NEW c \in Calls, EvictOne(c)
      PROVE  IInv'
  <2> USE <1>11 DEF EvictOne, EvictRound, Without
  <2>1. /\ QueuedKeys = KeysOf(queue) /\ QueuedKeys' = KeysOf(queue')
        /\ Distinct(queue)
    BY DEF QueuedKeys, KeysOf, QueueIsData, Distinct
  <2>2. /\ queue # <<>>
        /\ queue' \in Popped(queue) /\ Victim = Head(queue).key
    BY DEF Victim
  <2>3. /\ queue' \in Seq(Item) /\ Distinct(queue') /\ Len(queue') = Len(queue) - 1
        /\ KeysOf(queue') = KeysOf(queue) \ {Victim} /\ Victim \in KeysOf(queue)
    BY <2>1, <2>2, PopRemovesRoot DEF TypeOK
  <2>4. data[Victim] \in Stored
    BY <2>1, <2>3 DEF QueueIsData
  <2>5. TypeOK'
    BY <2>3, <2>4 DEF TypeOK, Stored
  <2>6. Roles' /\ Locking' /\ InFlight' = InFlight /\ Stored' = Stored
    BY DEF Roles, Locking, InFlight, Stored
  <2>7. Ownership'
    <3>1. \A d \in InFlight : req[d] # Victim
      BY <2>4 DEF Ownership, InFlight, Stored
    <3>2. QED BY <2>6, <3>1, SMTT(30) DEF TypeOK, Roles, Ownership, InFlight, Stored
  <2>8. QueueIsData'
    <3>1. {k \in Keys : data'[k] \in Stored'} = {k \in Keys : data[k] \in Stored} \ {Victim}
      BY <2>6 DEF TypeOK, Stored
    <3>2. QED BY <2>1, <2>3, <3>1 DEF QueueIsData, Distinct
  <2>9. WithinLimit'
    BY DEF WithinLimit
  <2>10. Indexed'
    BY <2>6 DEF Indexed
  <2>11. QED BY <2>5, <2>6, <2>7, <2>8, <2>9, <2>10
<1>12. ASSUME NEW c \in Calls, failure = "none", PushEntry(c)
      PROVE  IInv'
  <2> USE <1>12 DEF PushEntry, Goto
  <2>1. /\ QueuedKeys = KeysOf(queue) /\ QueuedKeys' = KeysOf(queue')
        /\ Distinct(queue)
    BY DEF QueuedKeys, KeysOf, QueueIsData, Distinct
  <2>2. held[c] = c /\ req[c] \in Keys /\ data[req[c]] = c /\ c \in InFlight
    BY DEF TypeOK, Roles, Ownership, InFlight
  <2>3. InFlight' = InFlight \ {c} /\ Stored' = Stored \cup {c} /\ c \notin Stored
    BY <2>2 DEF InFlight, Stored, TypeOK
  <2>4. req[c] \notin KeysOf(queue)
    BY <2>1, <2>2, <2>3 DEF QueueIsData
  <2>5. /\ queue' \in Seq(Item) /\ Len(queue') = Len(queue) + 1 /\ Len(queue) \in Nat
        /\ KeysOf(queue') = KeysOf(queue) \cup {req[c]} /\ Distinct(queue')
    <3>1. queue \in Seq(Item) /\ clock \in Nat /\ queue' = Pushed(queue, req[c], clock)
      BY DEF TypeOK
    <3>2. Len(queue) \in Nat
      BY <3>1
    <3>. HIDE <1>12
    <3>3. QED BY <2>1, <2>2, <2>4, <3>1, <3>2, PushAddsKey
  <2>6. TypeOK'
    BY <2>5 DEF TypeOK, Locations
  <2>7. Roles'
    BY <2>2 DEF TypeOK, Roles
  <2>8. Ownership'
    BY <2>2, <2>3 DEF TypeOK, Ownership, Stored, InFlight
  <2>9. QueueIsData'
    <3>1. {k \in Keys : data'[k] \in Stored'} = {k \in Keys : data[k] \in Stored} \cup {req[c]}
      BY <2>2, <2>3 DEF Ownership, InFlight
    <3>2. QED BY <2>1, <2>5, <3>1 DEF QueueIsData, Distinct
  <2>10. Locking' /\ WithinLimit'
    BY DEF TypeOK, Locking, WithinLimit
  <2>11. Indexed'
    BY <2>3, <2>5 DEF TypeOK, Indexed, Stored
  <2>12. QED BY <2>6, <2>7, <2>8, <2>9, <2>10, <2>11
<1>13. ASSUME NEW c \in Calls, failure = "none", Touch(c)
      PROVE  IInv'
  <2> USE <1>13 DEF Touch, Goto
  <2> DEFINE e == held[c]
             i == eindex[e]
  <2>1. /\ QueuedKeys = KeysOf(queue) /\ QueuedKeys' = KeysOf(queue')
        /\ Distinct(queue)
    BY DEF QueuedKeys, KeysOf, QueueIsData, Distinct
  <2>2. e \in Stored /\ pc[e] = "done" /\ held[e] = e /\ e # c
    BY DEF Ownership, Stored
  <2>3. i \in 1..Len(queue) /\ queue' \in Touched(queue, i, clock)
    BY <2>2 DEF TypeOK, Indexed, Stored
  <2>4. /\ queue' \in Seq(Item) /\ Len(queue') = Len(queue) /\ Len(queue) \in Nat
        /\ KeysOf(queue') = KeysOf(queue) /\ Distinct(queue')
    BY <2>1, <2>3, TouchKeepsKeys DEF TypeOK
  <2>5. /\ eindex'[e] \in DOMAIN queue'
        /\ \A d \in Calls : d # e => eindex'[d] = eindex[d]
        /\ eindex' = [eindex EXCEPT ![e] = eindex'[e]]
    <3>1. queue[i].key \in KeysOf(queue')
      <4>1. i \in DOMAIN queue
        BY <2>3 DEF TypeOK
      <4>2. queue[i].key \in KeysOf(queue)
        BY <4>1 DEF KeysOf
      <4>3. QED BY <2>4, <4>2
    <3>2. PositionIn(queue', queue[i].key) \in DOMAIN queue'
      BY <3>1 DEF PositionIn, KeysOf
    <3>3. eindex' = [eindex EXCEPT ![e] = PositionIn(queue', queue[i].key)]
      OBVIOUS
    <3>4. eindex'[e] = PositionIn(queue', queue[i].key)
      BY <2>2, <3>3 DEF TypeOK, Stored
    <3>5. QED BY <2>2, <3>2, <3>3, <3>4 DEF TypeOK, Stored
  <2>6. eindex'[e] \in 1..Len(queue')
    BY <2>4, <2>5
  <2>7. InFlight' = InFlight /\ Stored' = Stored
    BY <2>2 DEF TypeOK, Roles, InFlight, Stored, Ownership
  <2>8. TypeOK'
    BY <2>2, <2>4, <2>5, <2>6 DEF TypeOK, Locations, Stored
  <2>9. Roles' /\ Locking'
    BY <2>2 DEF TypeOK, Roles, Locking
  <2>10. Ownership'
    BY <2>7 DEF TypeOK, Ownership, Stored
  <2>11. QueueIsData'
    BY <2>1, <2>4, <2>7 DEF QueueIsData, Distinct
  <2>12. WithinLimit'
    BY DEF TypeOK, WithinLimit
  <2>13. Indexed'
    <3>1. \A d \in Stored : eindex'[d] >= 1
      BY <2>2, <2>5, <2>6 DEF TypeOK, Indexed, Stored
    <3>2. ASSUME MaxSize = 0
          PROVE  /\ failure' = "none"
                 /\ \A d \in Calls : pc'[d] # "evict"
                 /\ \A d \in Stored : eindex'[d] <= Len(queue')
      BY <3>2, <2>2, <2>4, <2>5, <2>6 DEF TypeOK, Indexed, Stored
    <3>3. QED BY <2>7, <3>1, <3>2 DEF Indexed
  <2>14. QED BY <2>8, <2>9, <2>10, <2>11, <2>12, <2>13
<1>14. CASE UNCHANGED vars
  BY <1>14 DEF vars, TypeOK, Roles, Ownership, QueueIsData, Locking, WithinLimit, Indexed,
               InFlight, Stored, QueuedKeys
<1>15. QED
  BY <1>1, <1>2, <1>3, <1>4, <1>5, <1>6, <1>7, <1>8, <1>9, <1>10, <1>11, <1>12, <1>13,
     <1>14 DEF Next, CallStep, Stopped

-----------------------------------------------------------------------------
(* The theorems.                                                            *)

\* The variables of every reachable state have their types.
THEOREM TypeCorrect == ASSUME RequestsHaveNames PROVE Spec => []TypeOK
<1>1. Init => IInv
  BY InitIInv
<1>2. IInv /\ [Next]_vars => IInv'
  BY NextIInv
<1>3. IInv => TypeOK
  BY DEF IInv
<1>4. QED BY <1>1, <1>2, <1>3, PTL DEF Spec

\* No key is computed by two goroutines at the same time.
THEOREM ComputedOnce == ASSUME RequestsHaveNames PROVE Spec => []SingleFlight
<1>1. Init => IInv
  BY InitIInv
<1>2. IInv /\ [Next]_vars => IInv'
  BY NextIInv
<1>3. IInv => SingleFlight
  BY DEF IInv, Ownership, SingleFlight
<1>4. QED BY <1>1, <1>2, <1>3, PTL DEF Spec

\* The eviction queue and the map hold the same finished records.
THEOREM QueueMatchesMap == ASSUME RequestsHaveNames PROVE Spec => []QueueIsData
<1>1. Init => IInv
  BY InitIInv
<1>2. IInv /\ [Next]_vars => IInv'
  BY NextIInv
<1>3. IInv => QueueIsData
  BY DEF IInv
<1>4. QED BY <1>1, <1>2, <1>3, PTL DEF Spec

\* A limited cache is within its limit whenever its lock is free.
THEOREM StaysWithinLimit == ASSUME RequestsHaveNames PROVE Spec => []Bounded
<1>1. Init => IInv
  BY InitIInv
<1>2. IInv /\ [Next]_vars => IInv'
  BY NextIInv
<1>3. IInv => Bounded
  BY ConstAssumption DEF IInv, TypeOK, Locking, WithinLimit, Bounded
<1>4. QED BY <1>1, <1>2, <1>3, PTL DEF Spec

\* An unlimited cache never panics.
THEOREM UnlimitedIsSafe == ASSUME RequestsHaveNames PROVE Spec => []UnlimitedNeverFails
<1>1. Init => IInv
  BY InitIInv
<1>2. IInv /\ [Next]_vars => IInv'
  BY NextIInv
<1>3. IInv => UnlimitedNeverFails
  BY DEF IInv, Indexed, UnlimitedNeverFails
<1>4. QED BY <1>1, <1>2, <1>3, PTL DEF Spec
-----------------------------------------------------------------------------
(* The size.                                                                *)

\* What the results for some keys weigh together.
TotalWeight(S) == Sum(Weight, S)

\* Beside the size itself: an entry's size is its result's weight from when it is stored.
Weighed ==
  \A c \in Calls :
    pc[c] \in {"store", "evict", "push"} \/ c \in Stored => esize[c] = Weight[req[c]]
\* Accounting, with the sum as an operator of its own.
Accounted ==
  /\ size = TotalWeight(QueuedKeys) + (IF mu = None THEN 0 ELSE Weight[req[mu]])
  /\ failure = "evict" => Weight[req[mu]] + EvictBytes > MaxSize
SizeInv == IsFiniteSet(QueuedKeys) /\ Weighed /\ Accounted

\* The weights of a set of keys add up.
LEMMA WeightsAdd ==
  ASSUME NEW S \in SUBSET Keys, IsFiniteSet(S)
  PROVE  /\ TotalWeight(S) \in Nat /\ (S = {} => TotalWeight(S) = 0)
         /\ \A k \in Keys \ S : TotalWeight(S \cup {k}) = TotalWeight(S) + Weight[k]
<1>1. Weight \in [Keys -> Nat]
  BY ConstAssumption
<1> QED BY <1>1, SumAdds DEF TotalWeight

\* Entries keep their calls' keys and sizes but where they are given them.
LEMMA StaysWeighed ==
  ASSUME IInv, Weighed, failure = "none", NEW c \in Calls,
         \/ \E k \in Keys : LookupUncached(c, k) \/ LookupHit(c, k) \/ LookupMiss(c, k)
         \/ CallStep(c)
  PROVE  Weighed'
<1> USE ConstAssumption DEF IInv
<1>1. /\ pc \in [Calls -> Locations] /\ req \in [Calls -> Keys \cup {None}]
      /\ held \in [Calls -> Calls \cup {None}] /\ esize \in [Calls -> Nat]
  BY DEF TypeOK
<1> SUFFICES ASSUME NEW d \in Calls,
                    pc'[d] \in {"store", "evict", "push"} \/ d \in Stored'
             PROVE  esize'[d] = Weight[req'[d]]
  BY DEF Weighed
<1>2. \A e \in Calls : e # c => pc'[e] = pc[e] /\ req'[e] = req[e] /\ held'[e] = held[e]
                                 /\ esize'[e] = esize[e]
  BY <1>1 DEF LookupUncached, LookupHit, LookupMiss, StartComputing, CallStep, MatchUncached,
              Compute, Store, Charge, EvictOne, EvictRound, EvictPanic, EvictDone, PushEntry,
              CloseReady, Touch, TouchPanic, Goto
<1>3. CASE d # c
  BY <1>2, <1>3 DEF Weighed, Stored
<1>4. CASE d = c
  <2>1. CASE Compute(c)
    BY <1>1, <1>4, <2>1 DEF Compute, Goto
  <2>2. CASE Store(c) \/ EvictOne(c) \/ EvictPanic(c) \/ EvictDone(c) \/ PushEntry(c) \/ CloseReady(c)
    <3>1. esize' = esize /\ req' = req /\ held' = held
      BY <2>2 DEF Store, Charge, EvictOne, EvictRound, EvictPanic, EvictDone, PushEntry, CloseReady
    <3>2. pc[c] \in {"store", "evict", "push"} \/ (pc[c] = "close" /\ held[c] = c)
      BY <2>2 DEF Store, Charge, EvictOne, EvictRound, EvictPanic, EvictDone, PushEntry, CloseReady,
                  Roles
    <3> QED BY <1>4, <3>1, <3>2 DEF Weighed, Stored
  <2>3. CASE \E k \in Keys : LookupUncached(c, k) \/ LookupHit(c, k) \/ LookupMiss(c, k)
    <3>1. pc'[c] \in {"nocache", "wait", "compute"}
      BY <1>1, <2>3 DEF LookupUncached, LookupHit, LookupMiss, StartComputing, Goto
    <3> QED BY <1>4, <3>1 DEF Stored
  <2>4. CASE MatchUncached(c) \/ TouchPanic(c) \/ Touch(c)
    <3>1. held' = held /\ pc'[c] \in {"done", "wait"} /\ pc[c] \in {"nocache", "wait"}
      BY <1>1, <2>4 DEF MatchUncached, TouchPanic, Touch, Goto
    <3>2. pc[c] = "wait" => held[c] \in ready
      BY <2>4 DEF MatchUncached, TouchPanic, Touch
    <3>3. held[c] # c
      BY <3>1, <3>2 DEF Roles, Ownership
    <3> QED BY <1>4, <3>1, <3>3 DEF Stored
  <2> QED BY <2>1, <2>2, <2>3, <2>4 DEF CallStep
<1> QED BY <1>3, <1>4

\* Every step keeps the size what the queued entries weigh.
LEMMA NextSizeInv ==
  ASSUME RequestsHaveNames, IInv, SizeInv, [Next]_vars
  PROVE  SizeInv'
<1> USE ConstAssumption DEF RequestsHaveNames
<1> DEFINE Held == IF mu = None THEN 0 ELSE Weight[req[mu]]
           Step == \E c \in Calls :
                     \/ \E k \in Keys : LookupUncached(c, k) \/ LookupHit(c, k) \/ LookupMiss(c, k)
                     \/ CallStep(c)
<1>1. /\ size = TotalWeight(QueuedKeys) + Held /\ IsFiniteSet(QueuedKeys) /\ Weighed
      /\ failure = "evict" => Weight[req[mu]] + EvictBytes > MaxSize
  BY DEF SizeInv, Accounted
<1>2. /\ QueuedKeys = KeysOf(queue) /\ Distinct(queue) /\ queue \in Seq(Item)
      /\ QueuedKeys = {k \in Keys : data[k] \in Stored} /\ clock \in Nat
      /\ req \in [Calls -> Keys \cup {None}] /\ mu \in Calls \cup {None} /\ size \in Int
      /\ esize \in [Calls -> Nat] /\ QueuedKeys \in SUBSET Keys
  BY DEF IInv, TypeOK, QueueIsData, QueuedKeys, KeysOf, Distinct
<1>3. /\ TotalWeight(QueuedKeys) \in Nat /\ (QueuedKeys = {} => TotalWeight(QueuedKeys) = 0)
      /\ \A k \in Keys \ QueuedKeys :
           TotalWeight(QueuedKeys \cup {k}) = TotalWeight(QueuedKeys) + Weight[k]
  BY <1>1, <1>2, WeightsAdd
<1>4. \A c \in Calls : mu = c => pc[c] \in {"evict", "push"} /\ req[c] \in Keys
  BY <1>2 DEF IInv, Locking, Roles
<1>5. CASE UNCHANGED vars
  BY <1>1, <1>5 DEF vars, SizeInv, Weighed, Accounted, QueuedKeys, Stored, EvictBytes
<1>6. ASSUME failure = "none", NEW c \in Calls,
             \/ \E k \in Keys : LookupUncached(c, k) \/ LookupHit(c, k) \/ LookupMiss(c, k)
             \/ CallStep(c)
      PROVE  SizeInv'
  <2>1. Weighed'
    BY <1>1, <1>6, StaysWeighed
  <2> SUFFICES /\ IsFiniteSet(QueuedKeys')
               /\ size' = TotalWeight(QueuedKeys') + (IF mu' = None THEN 0 ELSE Weight[req'[mu']])
               /\ failure' = "evict" => Weight[req'[mu']] + EvictBytes' > MaxSize'
    BY <2>1 DEF SizeInv, Accounted
  <2>2. ASSUME UNCHANGED <<size, queue, mu>>, failure' # "evict", pc[c] \notin {"evict", "push"} \/ req' = req,
               \A d \in Calls : d # c => req'[d] = req[d]
        PROVE  /\ IsFiniteSet(QueuedKeys')
               /\ size' = TotalWeight(QueuedKeys') + (IF mu' = None THEN 0 ELSE Weight[req'[mu']])
    <3>1. mu = None \/ req'[mu] = req[mu]
      BY <1>2, <1>4, <2>2
    <3>2. QueuedKeys' = QueuedKeys
      BY <2>2 DEF QueuedKeys
    <3> QED BY <1>1, <2>2, <3>1, <3>2
  <2>3. CASE \/ \E k \in Keys : LookupUncached(c, k) \/ LookupHit(c, k) \/ LookupMiss(c, k)
             \/ MatchUncached(c) \/ Compute(c) \/ EvictDone(c) \/ CloseReady(c) \/ TouchPanic(c)
    <3>1. /\ UNCHANGED <<size, queue, mu>> /\ failure' # "evict"
          /\ pc[c] \notin {"evict", "push"} \/ req' = req
      BY <1>6, <2>3 DEF LookupUncached, LookupHit, LookupMiss, StartComputing, MatchUncached, Compute,
                 EvictDone, CloseReady, TouchPanic
    <3>2. \A d \in Calls : d # c => req'[d] = req[d]
      BY <1>2, <2>3 DEF LookupUncached, LookupHit, LookupMiss, StartComputing, MatchUncached, Compute,
                 EvictDone, CloseReady, TouchPanic
    <3> QED BY <2>2, <3>1, <3>2
  <2>4. CASE Store(c)
    <3>1. /\ size' = size + esize[c] /\ mu' = c /\ mu = None /\ esize[c] = Weight[req[c]]
          /\ UNCHANGED <<queue, req, failure>>
      BY <1>1, <2>4 DEF Store, Charge, Weighed
    <3>2. QueuedKeys' = QueuedKeys /\ c # None
      BY <3>1 DEF QueuedKeys
    <3>3. esize[c] \in Nat
      BY <1>2
    <3> QED BY <1>1, <1>3, <1>6, <3>1, <3>2, <3>3
  <2>5. CASE EvictOne(c)
    <3> DEFINE v == Victim
    <3>1. /\ mu = c /\ UNCHANGED <<mu, req, failure>> /\ v \in Keys /\ data[v] # None
          /\ size' = size - esize[data[v]]
          /\ IF queue = <<>> THEN queue' = queue ELSE queue' \in Popped(queue)
      BY <2>5 DEF EvictOne, EvictRound
    <3>2. queue # <<>> /\ v = Head(queue).key
      BY <3>1 DEF Victim
    <3>3. v \in QueuedKeys /\ QueuedKeys' = QueuedKeys \ {v}
      BY <1>2, <3>1, <3>2, PopRemovesRoot DEF QueuedKeys, KeysOf
    <3>4. esize[data[v]] = Weight[v]
      BY <1>1, <1>2, <3>3 DEF Weighed, IInv, Ownership, Stored
    <3>5. IsFiniteSet(QueuedKeys') /\ QueuedKeys' \in SUBSET Keys
      BY <1>1, <1>2, <3>3, FS_RemoveElement
    <3> HIDE DEF v
    <3>6. QueuedKeys' \cup {v} = QueuedKeys /\ v \in Keys \ QueuedKeys'
      BY <1>2, <3>3
    <3>7. /\ TotalWeight(QueuedKeys) = TotalWeight(QueuedKeys') + Weight[v]
          /\ TotalWeight(QueuedKeys') \in Nat
      BY <3>5, <3>6, WeightsAdd
    <3>8. Held \in Int /\ Weight[v] \in Nat /\ c # None
      BY <1>2, <1>4, <3>1
    <3>9. size' = TotalWeight(QueuedKeys') + Held /\ Held = IF mu' = None THEN 0 ELSE Weight[req'[mu']]
      BY <1>1, <3>1, <3>4, <3>7, <3>8
    <3> QED BY <1>6, <3>1, <3>5, <3>9
  <2>6. CASE EvictPanic(c)
    <3>1. /\ mu = c /\ UNCHANGED <<MaxSize, size, queue, mu, req>> /\ size + EvictBytes > MaxSize
          /\ ~(Victim \in Keys /\ data[Victim] # None)
      BY <2>6 DEF EvictPanic
    <3>2. queue = <<>>
      <4> SUFFICES ASSUME queue # <<>> PROVE FALSE
        OBVIOUS
      <4>1. 1 \in DOMAIN queue /\ Head(queue) = queue[1]
        BY <1>2
      <4>2. Victim \in QueuedKeys
        BY <4>1 DEF Victim, QueuedKeys
      <4> QED BY <1>2, <3>1, <4>2 DEF Stored
    <3>3. QueuedKeys = {} /\ QueuedKeys' = QueuedKeys
      BY <3>1, <3>2 DEF QueuedKeys
    <3>4. size = Weight[req[c]] /\ EvictBytes' = EvictBytes
      <4>1. Weight[req[c]] \in Nat /\ c # None
        BY <1>4, <3>1
      <4> QED BY <1>1, <1>3, <3>1, <3>3, <4>1 DEF EvictBytes
    <3> QED BY <1>1, <3>1, <3>3, <3>4
  <2>7. CASE PushEntry(c)
    <3>1. /\ mu = c /\ pc[c] = "push" /\ mu' = None /\ queue' = Pushed(queue, req[c], clock)
          /\ UNCHANGED <<size, req, failure>>
      BY <2>7 DEF PushEntry
    <3>2. req[c] \in Keys /\ c # None
      BY <1>4, <3>1
    <3>3. req[c] \notin QueuedKeys
      BY <1>2, <3>1, <3>2 DEF IInv, Ownership, InFlight, Stored
    <3>4. QueuedKeys' = QueuedKeys \cup {req[c]}
      <4>1. KeysOf(queue') = KeysOf(queue) \cup {req[c]}
        BY <1>2, <3>1, <3>2, PushAddsKey
      <4> QED BY <4>1 DEF QueuedKeys, KeysOf
    <3>5. IsFiniteSet(QueuedKeys')
      BY <1>1, <3>4, FS_AddElement
    <3> QED BY <1>1, <1>3, <1>6, <3>1, <3>2, <3>3, <3>4, <3>5
  <2>8. CASE Touch(c)
    <3>1. /\ UNCHANGED <<size, mu, req, failure>> /\ eindex[held[c]] <= Len(queue)
          /\ queue' \in Touched(queue, eindex[held[c]], clock) /\ held[c] \in ready
      BY <2>8 DEF Touch
    <3>2. eindex[held[c]] \in 1 .. Len(queue)
      <4>1. held[c] \in Stored /\ eindex[held[c]] \in Nat /\ eindex[held[c]] >= 1
        BY <3>1 DEF IInv, TypeOK, Ownership, Indexed, Stored
      <4>2. Len(queue) \in Nat
        BY <1>2
      <4> QED BY <3>1, <4>1, <4>2
    <3>3. QueuedKeys' = QueuedKeys
      <4>1. KeysOf(queue') = KeysOf(queue)
        BY <1>2, <3>1, <3>2, TouchKeepsKeys
      <4> QED BY <4>1 DEF QueuedKeys, KeysOf
    <3> QED BY <1>1, <1>6, <3>1, <3>3
  <2> QED BY <1>6, <2>3, <2>4, <2>5, <2>6, <2>7, <2>8 DEF CallStep
<1> QED BY <1>5, <1>6 DEF Next, Stopped

\* The size is what the queued records weigh, with the one being stored, so that evict runs
\* out of records only for a result that does not fit into an empty cache (evict).
THEOREM SizeIsWeight == ASSUME RequestsHaveNames PROVE Spec => []Accounting
<1>1. Init => IInv
  BY InitIInv
<1>2. Init => SizeInv
  <2> SUFFICES ASSUME Init PROVE SizeInv
    OBVIOUS
  <2>1. QueuedKeys = {} /\ Stored = {}
    BY DEF Init, QueuedKeys, Stored
  <2>2. IsFiniteSet({}) /\ TotalWeight({}) = 0
    BY FS_EmptySet, WeightsAdd
  <2> QED BY <2>1, <2>2 DEF Init, SizeInv, Weighed, Accounted
<1>3. IInv /\ [Next]_vars => IInv'
  BY NextIInv
<1>4. IInv /\ SizeInv /\ [Next]_vars => SizeInv'
  BY NextSizeInv
<1>5. SizeInv => Accounting
  BY DEF SizeInv, Accounted, Accounting, TotalWeight, Sum
<1>6. QED BY <1>1, <1>2, <1>3, <1>4, <1>5, PTL DEF Spec

-----------------------------------------------------------------------------
(* Refinement: a step of the cache is a step of MemoCache or changes none of *)
(* its variables.                                                            *)

\* The cache does no more than a lock-free cache of computed keys promises.
THEOREM KeepsPromise ==
  ASSUME RequestsHaveNames, CachingIsOn
  PROVE  Spec => ImplementsMemo
<1> USE ConstAssumption DEF RequestsHaveNames, CachingIsOn
<1>1. Init => Memo!MInit
  <2> SUFFICES ASSUME Init PROVE Memo!MInit
    OBVIOUS
  <2>1. InFlight = {} /\ Stored = {} /\ QueuedKeys = {}
    BY DEF Init, InFlight, Stored, QueuedKeys
  <2>2. QED BY <2>1 DEF Init, Memo!MInit
<1>2. IInv /\ IInv' /\ [Next]_vars => [Memo!MNext]_(Memo!mvars)
  <2> DEFINE answered == {c \in Calls : pc[c] = "done"}
             computing == {req[c] : c \in InFlight}
             known == {req[c] : c \in Stored}
  <2> SUFFICES ASSUME IInv, IInv', [Next]_vars PROVE [Memo!MNext]_(Memo!mvars)
    OBVIOUS
  <2> USE DEF IInv
  <2>0. \A k \in Keys : data[k] # None => k \in QueuedKeys \cup computing
    BY DEF Ownership, QueueIsData
  <2>1. ASSUME NEW c \in Calls, NEW k \in Keys, LookupHit(c, k)
        PROVE  Memo!Ask(c, k)
    <3>1. InFlight' = InFlight /\ Stored' = Stored /\ c \notin InFlight /\ c \notin Stored
      BY <2>1 DEF LookupHit, Goto, TypeOK, Roles, InFlight, Stored
    <3>2. computing' = computing /\ known' = known
      BY <2>1, <3>1 DEF LookupHit, TypeOK, InFlight, Stored
    <3>3. answered' = answered /\ QueuedKeys' = QueuedKeys /\ req[c] = None
      BY <2>1 DEF LookupHit, Goto, TypeOK, QueuedKeys, Roles
    <3>4. k \in QueuedKeys \cup computing
      BY <2>0, <2>1 DEF LookupHit
    <3>5. QED BY <2>1, <3>2, <3>3, <3>4 DEF Memo!Ask, LookupHit
  <2>2. ASSUME NEW c \in Calls, NEW k \in Keys, LookupMiss(c, k)
        PROVE  Memo!Ask(c, k)
    <3> USE <2>2 DEF LookupMiss, StartComputing, Goto
    <3>1. /\ InFlight' = InFlight \cup {c} /\ c \notin InFlight
          /\ Stored' = Stored /\ c \notin Stored
      BY DEF TypeOK, Roles, InFlight, Stored
    <3>2. computing' = computing \cup {k} /\ known' = known
      BY <3>1 DEF TypeOK, InFlight, Stored
    <3>3. answered' = answered /\ QueuedKeys' = QueuedKeys /\ req[c] = None
      BY DEF TypeOK, QueuedKeys, Roles
    <3>4. k \notin QueuedKeys
      BY DEF QueueIsData, Stored
    <3>5. QED BY <3>2, <3>3, <3>4 DEF Memo!Ask
  <2>3. ASSUME NEW c \in Calls, Compute(c) \/ Store(c) \/ EvictPanic(c) \/ EvictDone(c)
                                \/ TouchPanic(c)
        PROVE  UNCHANGED Memo!mvars
    <3>1. /\ UNCHANGED <<req, held, queue>>
          /\ \/ pc' = pc
             \/ /\ pc[c] \in {"compute", "store", "evict"}
                /\ \E l \in {"store", "evict", "push"} : pc' = [pc EXCEPT ![c] = l]
      BY <2>3 DEF Compute, Store, Charge, EvictPanic, EvictDone, TouchPanic, Goto
    <3>2. InFlight' = InFlight /\ Stored' = Stored
      <4>1. \A d \in Calls : d # c => pc'[d] = pc[d]
        BY <3>1 DEF TypeOK
      <4>2. pc'[c] = pc[c] \/ (/\ pc[c] \in {"compute", "store", "evict"}
                               /\ pc'[c] \in {"store", "evict", "push"})
        BY <3>1 DEF TypeOK
      <4> QED BY <3>1, <4>1, <4>2 DEF InFlight, Stored
    <3>3. req' = req /\ QueuedKeys' = QueuedKeys /\ answered' = answered
      <4>1. \A d \in Calls : pc'[d] = "done" <=> pc[d] = "done"
        BY <3>1 DEF TypeOK
      <4> QED BY <3>1, <4>1 DEF QueuedKeys
    <3>4. computing' = computing /\ known' = known
      BY <3>2, <3>3 DEF InFlight, Stored
    <3>5. QED BY <3>3, <3>4 DEF Memo!mvars
  <2>4. ASSUME NEW c \in Calls, EvictOne(c)
        PROVE  Memo!Drop(Victim)
    <3> USE <2>4 DEF EvictOne, EvictRound
    <3>1. InFlight' = InFlight /\ Stored' = Stored /\ c \in InFlight
      BY DEF InFlight, Stored
    <3>2. req' = req /\ answered' = answered
      OBVIOUS
    <3>3. computing' = computing /\ known' = known /\ computing # {}
      BY <3>1, <3>2
    <3>4. /\ QueuedKeys = KeysOf(queue) /\ QueuedKeys' = KeysOf(queue')
          /\ Distinct(queue)
      BY DEF QueuedKeys, KeysOf, QueueIsData, Distinct
    <3>5. queue # <<>> /\ queue' \in Popped(queue) /\ Victim = Head(queue).key
      BY DEF Victim
    <3>6. QueuedKeys' = QueuedKeys \ {Victim} /\ Victim \in QueuedKeys
      BY <3>4, <3>5, PopRemovesRoot DEF TypeOK
    <3>7. QED BY <3>2, <3>3, <3>6 DEF Memo!Drop
  <2>5. ASSUME NEW c \in Calls, PushEntry(c)
        PROVE  Memo!Finish(req[c])
    <3> USE <2>5 DEF PushEntry, Goto
    <3>1. held[c] = c /\ req[c] \in Keys /\ c \in InFlight
      BY DEF TypeOK, Roles, InFlight
    <3>2. InFlight' = InFlight \ {c} /\ Stored' = Stored \cup {c} /\ req' = req
      BY <3>1 DEF InFlight, Stored, TypeOK
    <3>3. \A d \in InFlight : req[d] = req[c] => d = c
      BY <3>1 DEF Ownership
    <3>4. computing' = computing \ {req[c]} /\ req[c] \in computing
      BY <3>1, <3>2, <3>3 DEF InFlight
    <3>5. known' = known \cup {req[c]}
      BY <3>2 DEF Stored
    <3>6. queue \in Seq(Item) /\ clock \in Nat /\ queue' = Pushed(queue, req[c], clock)
      BY DEF TypeOK
    <3>7. KeysOf(queue') = KeysOf(queue) \cup {req[c]}
      <4>. HIDE <2>5
      <4>1. QED BY <3>1, <3>6, PushAddsKey
    <3>8. QueuedKeys' = QueuedKeys \cup {req[c]}
      BY <3>7 DEF QueuedKeys, KeysOf
    <3>9. answered' = answered
      BY DEF TypeOK
    <3>10. QED BY <3>2, <3>4, <3>5, <3>8, <3>9 DEF Memo!Finish
  <2>6. ASSUME NEW c \in Calls, CloseReady(c)
        PROVE  Memo!Answer(c)
    <3> USE <2>6 DEF CloseReady, Goto
    <3>1. InFlight' = InFlight /\ Stored' = Stored /\ c \in Stored /\ req' = req
      BY DEF TypeOK, Roles, InFlight, Stored
    <3>2. computing' = computing /\ known' = known /\ req[c] \in known
      BY <3>1
    <3>3. answered' = answered \cup {c} /\ c \notin answered
      BY DEF TypeOK
    <3>4. QueuedKeys' = QueuedKeys
      BY DEF QueuedKeys
    <3>5. QED BY <3>1, <3>2, <3>3, <3>4 DEF Memo!Answer
  <2>7. ASSUME NEW c \in Calls, Touch(c)
        PROVE  Memo!Answer(c)
    <3> USE <2>7 DEF Touch, Goto
    <3> DEFINE e == held[c]
    <3>1. e \in Stored /\ pc[e] = "done" /\ req[e] = req[c] /\ e # c
      BY DEF TypeOK, Roles, Ownership, Stored
    <3>2. InFlight' = InFlight /\ Stored' = Stored /\ req' = req
      BY <3>1 DEF TypeOK, Roles, InFlight, Stored
    <3>3. computing' = computing /\ known' = known /\ req[c] \in known
      BY <3>1, <3>2
    <3>4. answered' = answered \cup {c} /\ c \notin answered
      BY DEF TypeOK
    <3>5. eindex[e] \in 1..Len(queue) /\ queue' \in Touched(queue, eindex[e], clock)
      BY <3>1 DEF TypeOK, Indexed, Stored
    <3>6. KeysOf(queue') = KeysOf(queue)
      BY <3>5, TouchKeepsKeys DEF TypeOK
    <3>7. QueuedKeys' = QueuedKeys
      BY <3>6 DEF QueuedKeys, KeysOf
    <3>8. QED BY <3>2, <3>3, <3>4, <3>7 DEF Memo!Answer
  <2>8. ASSUME NEW c \in Calls
        PROVE  /\ ~ MatchUncached(c)
               /\ \A k \in Keys : ~ LookupUncached(c, k)
    <3>1. MaxSize \in Int /\ MaxSize >= 0
      BY DEF TypeOK
    <3>2. pc[c] # "nocache"
      BY <3>1 DEF Roles
    <3>3. QED BY <3>1, <3>2 DEF MatchUncached, LookupUncached
  <2>9. CASE UNCHANGED vars
    <3>1. InFlight' = InFlight /\ Stored' = Stored /\ QueuedKeys' = QueuedKeys /\ req' = req
      BY <2>9 DEF vars, InFlight, Stored, QueuedKeys
    <3>2. answered' = answered /\ computing' = computing /\ known' = known
      BY <2>9, <3>1 DEF vars
    <3>3. QED BY <3>1, <3>2 DEF Memo!mvars
  <2>10. QED
    <3>1. ASSUME NEW c \in Calls, EvictOne(c) PROVE Victim \in Keys
      BY <3>1 DEF EvictOne, EvictRound
    <3>2. ASSUME NEW c \in Calls, PushEntry(c) PROVE req[c] \in Keys
      BY <3>2 DEF PushEntry, TypeOK, Roles
    <3>3. ASSUME NEW c \in Calls, NEW k \in Keys, LookupHit(c, k) \/ LookupMiss(c, k)
          PROVE  Memo!MNext
      <4>1. Memo!Ask(c, k)
        BY <3>3, <2>1, <2>2
      <4>2. QED BY <4>1 DEF Memo!MNext
    <3>4. ASSUME NEW c \in Calls, EvictOne(c) PROVE Memo!MNext
      <4>1. \E k \in Keys : Memo!Drop(k)
        <5>1. Memo!Drop(Victim) /\ Victim \in Keys
          BY <3>1, <3>4, <2>4
        <5>2. QED BY <5>1
      <4>2. QED BY <4>1 DEF Memo!MNext
    <3>5. ASSUME NEW c \in Calls, PushEntry(c) PROVE Memo!MNext
      <4>1. \E k \in Keys : Memo!Finish(k)
        <5>1. PICK k \in Keys : k = req[c]
          BY <3>2, <3>5
        <5>2. Memo!Finish(k)
          BY <3>5, <5>1, <2>5 DEF Memo!Finish
        <5>3. QED BY <5>2
      <4>2. QED BY <4>1 DEF Memo!MNext
    <3>6. ASSUME NEW c \in Calls, CloseReady(c) \/ Touch(c) PROVE Memo!MNext
      BY <3>6, <2>6, <2>7 DEF Memo!MNext
    <3>7. QED
      BY <2>3, <2>8, <2>9, <3>3, <3>4, <3>5, <3>6 DEF Next, CallStep, Stopped
<1>3. QED
  BY <1>1, <1>2, InitIInv, NextIInv, PTL DEF Spec, ImplementsMemo, Memo!MSpec

-----------------------------------------------------------------------------
(* The heap.                                                                *)

Entry == [key : HeapKeys, access : ClockValues]

\* Where the item at position k is when those at i and j have changed places.
Across(i, j, k) == IF k = j THEN i ELSE IF k = i THEN j ELSE k

\* What the contract sees of a heap: keys and access times, at the same positions.
LEMMA ItemsOfHeap ==
  ASSUME NEW h \in Seq(HeapItem)
  PROVE  /\ Items(h) \in Seq(Entry) /\ Len(Items(h)) = Len(h) /\ DOMAIN Items(h) = 1 .. Len(h)
         /\ \A i \in 1 .. Len(h) :
              /\ Items(h)[i] = [key |-> h[i].key, access |-> h[i].access]
              /\ h[i] \in HeapItem /\ h[i].access \in Nat /\ h[i].access \in ClockValues
<1>1. Len(h) \in Nat /\ DOMAIN h = 1 .. Len(h) /\ \A i \in 1 .. Len(h) : h[i] \in HeapItem
  OBVIOUS
<1>2. \A i \in 1 .. Len(h) : /\ h[i].key \in HeapKeys /\ h[i].access \in ClockValues
                             /\ h[i].access \in Nat
  BY <1>1, TimesAssumption DEF HeapItem
<1>3. \A i \in 1 .. Len(h) : [key |-> h[i].key, access |-> h[i].access] \in Entry
  BY <1>2 DEF Entry
<1>4. Items(h) = [i \in 1 .. Len(h) |-> [key |-> h[i].key, access |-> h[i].access]]
  BY <1>1 DEF Items
<1>5. Items(h) \in [1 .. Len(h) -> Entry]
  BY <1>3, <1>4
<1>6. Items(h) \in Seq(Entry) /\ Len(Items(h)) = Len(h) /\ DOMAIN Items(h) = 1 .. Len(h)
  BY <1>1, <1>5
<1>7. \A i \in 1 .. Len(h) : Items(h)[i] = [key |-> h[i].key, access |-> h[i].access]
  BY <1>4
<1>8. QED BY <1>1, <1>2, <1>6, <1>7

\* A parent is above its child, and has no child but those at 2i and 2i+1.
LEMMA Halves ==
  ASSUME NEW k \in Nat
  PROVE  /\ k \div 2 \in Nat /\ k \div 2 <= k
         /\ k >= 1 => k \div 2 < k
         /\ k >= 2 => k \div 2 >= 1
         /\ \A i \in Nat : k \div 2 = i <=> k = 2 * i \/ k = 2 * i + 1
OBVIOUS

\* Swap changes two items about, and gives each the index of its new position.
Swapped(h, i, j, s) ==
  \A k \in 1 .. Len(h) :
    /\ Across(i, j, k) \in 1 .. Len(h)
    /\ s[k].key = h[Across(i, j, k)].key
    /\ s[k].access = h[Across(i, j, k)].access
    /\ s[k].index = IF k = i \/ k = j THEN k ELSE h[k].index

LEMMA SwapChanges ==
  ASSUME NEW h \in Seq(HeapItem), NEW i \in 1 .. Len(h), NEW j \in 1 .. Len(h)
  PROVE  /\ Swap(h, i, j) \in Seq(HeapItem) /\ Len(Swap(h, i, j)) = Len(h)
         /\ Swapped(h, i, j, Swap(h, i, j))
<1>1. Len(h) \in Nat /\ DOMAIN h = 1 .. Len(h) /\ \A k \in 1 .. Len(h) : h[k] \in HeapItem
  OBVIOUS
<1>2. \A k \in 1 .. Len(h) :
        Swap(h, i, j)[k] = IF k = j THEN [h[i] EXCEPT !.index = j]
                           ELSE IF k = i THEN [h[j] EXCEPT !.index = i] ELSE h[k]
  BY <1>1 DEF Swap
<1>3. \A x \in HeapItem, n \in Nat :
        /\ [x EXCEPT !.index = n] \in HeapItem /\ [x EXCEPT !.index = n].key = x.key
        /\ [x EXCEPT !.index = n].access = x.access /\ [x EXCEPT !.index = n].index = n
  BY DEF HeapItem
<1>4. \A k \in 1 .. Len(h) : Swap(h, i, j)[k] \in HeapItem
  BY <1>1, <1>2, <1>3
<1>5. Swap(h, i, j) \in [1 .. Len(h) -> HeapItem]
  BY <1>1, <1>4 DEF Swap
<1>6. Swap(h, i, j) \in Seq(HeapItem) /\ Len(Swap(h, i, j)) = Len(h)
  BY <1>1, <1>5
<1>7. ASSUME NEW k \in 1 .. Len(h)
      PROVE  /\ Across(i, j, k) \in 1 .. Len(h)
             /\ Swap(h, i, j)[k].key = h[Across(i, j, k)].key
             /\ Swap(h, i, j)[k].access = h[Across(i, j, k)].access
             /\ Swap(h, i, j)[k].index = IF k = i \/ k = j THEN k ELSE h[k].index
  <2>1. CASE k = j
    <3>1. Swap(h, i, j)[k] = [h[i] EXCEPT !.index = j] /\ Across(i, j, k) = i
      BY <2>1, <1>2 DEF Across
    <3>2. QED BY <2>1, <3>1, <1>1, <1>3
  <2>2. CASE k # j /\ k = i
    <3>1. Swap(h, i, j)[k] = [h[j] EXCEPT !.index = i] /\ Across(i, j, k) = j
      BY <2>2, <1>2 DEF Across
    <3>2. QED BY <2>2, <3>1, <1>1, <1>3
  <2>3. CASE k # j /\ k # i
    BY <2>3, <1>2 DEF Across
  <2>4. QED BY <2>1, <2>2, <2>3
<1>8. QED BY <1>6, <1>7 DEF Swapped

\* A swap with the parent moves the only place out of order up.
LEMMA RiseKeepsOrder ==
  ASSUME NEW h \in Seq(HeapItem), NEW n \in 0 .. Len(h), NEW j \in 1 .. n,
         j \div 2 # 0, Less(h, j, j \div 2), OrderUp(h, j, n)
  PROVE  OrderUp(Swap(h, j \div 2, j), j \div 2, n)
<1> DEFINE m == j \div 2
           s == Swap(h, m, j)
           a(k) == h[k].access
<1>1. /\ m \in 1 .. n /\ m < j /\ Len(h) \in Nat /\ m \in Nat
  BY Halves
<1>2. \A k \in 1 .. n : a(k) \in Nat /\ s[k].access = a(Across(m, j, k))
  <2>1. m \in 1 .. Len(h) /\ j \in 1 .. Len(h) /\ \A k \in 1 .. n : k \in 1 .. Len(h)
    BY <1>1
  <2> HIDE DEF m
  <2>2. Swapped(h, m, j, s)
    BY <2>1, SwapChanges
  <2>3. \A k \in 1 .. Len(h) : h[k].access \in Nat
    BY ItemsOfHeap
  <2>4. QED BY <2>1, <2>2, <2>3 DEF Swapped
<1>3. a(j) < a(m)
  BY DEF Less
<1>4. \A k \in 2 .. n : /\ k # j => a(k) >= a(k \div 2)
                        /\ k \div 2 = j => a(k) >= a(m)
                        /\ k \in 1 .. n /\ k \div 2 \in 1 .. n /\ k \div 2 < k
  <2>1. \A k \in 2 .. n : k \in 1 .. n /\ k \div 2 \in 1 .. n /\ k \div 2 < k
    BY Halves
  <2>2. \A k \in 2 .. n : /\ k # j => ~(a(k) < a(k \div 2))
                          /\ k \div 2 = j => ~(a(k) < a(m))
    BY DEF OrderUp, Less
  <2>3. \A k \in 2 .. n : a(k) \in Nat /\ a(k \div 2) \in Nat /\ a(m) \in Nat
    BY <2>1, <1>1, <1>2
  <2> HIDE DEF a, m
  <2>4. \A x, y \in Nat : ~(x < y) => x >= y
    OBVIOUS
  <2>5. ASSUME NEW k \in 2 .. n
        PROVE  (k # j => a(k) >= a(k \div 2)) /\ (k \div 2 = j => a(k) >= a(m))
    BY <2>2, <2>3, <2>4
  <2>6. QED BY <2>1, <2>5
<1> HIDE DEF a, s, m
<1>5. ASSUME NEW k \in 2 .. n, k # m PROVE ~Less(s, k, k \div 2)
  <2>1. CASE k = j
    <3>1. k \div 2 = m /\ m # j
      BY <2>1, <1>1 DEF m
    <3>2. Across(m, j, k) = m /\ Across(m, j, k \div 2) = j
      BY <2>1, <3>1 DEF Across
    <3>3. k \in 1 .. n /\ k \div 2 \in 1 .. n
      BY <1>4
    <3>4. s[k].access = a(m) /\ s[k \div 2].access = a(j)
      BY <3>2, <3>3, <1>2
    <3>5. QED BY SMTT(30), <3>4, <1>1, <1>2, <1>3 DEF Less
  <2>2. CASE k # j /\ k \div 2 = j
    <3>1. s[k].access = a(k) /\ a(k) >= a(m)
      BY <2>2, <1>2, <1>4, <1>5 DEF Across
    <3>2. s[k \div 2].access = a(m)
      BY <2>2, <1>1, <1>2, <1>4 DEF Across
    <3>3. QED BY <3>1, <3>2, <1>1, <1>2, <1>4 DEF Less
  <2>3. CASE k # j /\ k \div 2 = m
    <3>1. s[k].access = a(k) /\ s[k \div 2].access = a(j) /\ a(k) >= a(m)
      BY <2>3, <1>1, <1>2, <1>4, <1>5 DEF Across
    <3>2. QED BY <3>1, <1>1, <1>2, <1>3, <1>4 DEF Less
  <2>4. CASE k # j /\ k \div 2 # j /\ k \div 2 # m
    <3>1. s[k].access = a(k) /\ s[k \div 2].access = a(k \div 2) /\ a(k) >= a(k \div 2)
      BY <2>4, <1>2, <1>4, <1>5 DEF Across
    <3>2. QED BY <3>1, <1>2, <1>4 DEF Less
  <2>5. QED BY <2>1, <2>2, <2>3, <2>4
<1>6. ASSUME NEW k \in 2 .. n, k \div 2 = m, m \div 2 # 0 PROVE ~Less(s, k, m \div 2)
  <2>1. m \in 2 .. n /\ m \div 2 \in 1 .. n /\ m \div 2 < m /\ a(m) >= a(m \div 2)
    <3>1. m \in Nat /\ m >= 1 /\ m <= n /\ n \in Nat
      BY <1>1
    <3>2. m >= 2
      BY <3>1, <1>6
    <3>3. m \in 2 .. n
      BY <3>1, <3>2
    <3>4. m # j
      BY <1>1
    <3>5. QED BY <3>3, <3>4, <1>4
  <2>2. s[m \div 2].access = a(m \div 2)
    <3>1. m \div 2 # m /\ m \div 2 # j
      BY <2>1, <1>1
    <3>2. QED BY <2>1, <3>1, <1>2 DEF Across
  <2>3. CASE k = j
    <3>1. s[k].access = a(m)
      BY <2>3, <1>1, <1>2, <1>4 DEF Across
    <3>2. a(m) \in Nat /\ a(m \div 2) \in Nat
      BY <2>1, <1>1, <1>2
    <3>3. QED BY <3>1, <3>2, <2>1, <2>2 DEF Less
  <2>4. CASE k # j
    <3>1. k # m
      BY <1>6, <1>4
    <3>2. s[k].access = a(k) /\ a(k) >= a(m)
      BY <3>1, <2>4, <1>2, <1>4, <1>6 DEF Across
    <3>3. QED BY <3>2, <2>1, <2>2, <1>2, <1>4 DEF Less
  <2>5. QED BY <2>3, <2>4
<1>7. QED BY <1>5, <1>6 DEF OrderUp, m, s

\* What the item at i is compared with is the lesser of its children.
Lesser(h, i, n, c) ==
  /\ c \in 1 .. n /\ c \div 2 = i /\ i < c
  /\ \A k \in 2 .. n : k \div 2 = i => ~Less(h, k, c)

\* A swap with the lesser child moves the only place out of order down.
LEMMA SinkKeepsOrder ==
  ASSUME NEW h \in Seq(HeapItem), NEW n \in 0 .. Len(h), NEW i \in 1 .. n, NEW c \in 1 .. n,
         NEW first \in Nat, Lesser(h, i, n, c), Less(h, c, i), OrderDown(h, i, n, first)
  PROVE  OrderDown(Swap(h, i, c), c, n, first)
<1> DEFINE s == Swap(h, i, c)
           a(k) == h[k].access
<1>1. c \in 2 .. n /\ i \in Nat /\ i < c /\ c \div 2 = i /\ Len(h) \in Nat
  BY DEF Lesser
<1>2. \A k \in 1 .. n : a(k) \in Nat /\ s[k].access = a(Across(i, c, k))
  <2>1. i \in 1 .. Len(h) /\ c \in 1 .. Len(h) /\ \A k \in 1 .. n : k \in 1 .. Len(h)
    BY <1>1
  <2>2. Swapped(h, i, c, s)
    BY <2>1, SwapChanges
  <2>3. \A k \in 1 .. Len(h) : h[k].access \in Nat
    BY ItemsOfHeap
  <2>4. QED BY <2>1, <2>2, <2>3 DEF Swapped
<1>3. a(c) < a(i)
  BY DEF Less
<1>4. \A k \in 2 .. n : k \in 1 .. n /\ k \div 2 \in 1 .. n /\ k \div 2 < k
  BY Halves
<1>5. \A k \in 2 .. n : /\ k \div 2 # i /\ k # i => a(k) >= a(k \div 2)
                        /\ k \div 2 = i /\ i \div 2 # 0 => a(k) >= a(i \div 2)
                        /\ k \div 2 = i => a(k) >= a(c)
  <2>1. i \div 2 # 0 => i \div 2 \in 1 .. n
    BY <1>1, Halves
  <2>2. \A k \in 2 .. n : /\ k \div 2 # i /\ k # i => ~(a(k) < a(k \div 2))
                          /\ k \div 2 = i /\ i \div 2 # 0 => ~(a(k) < a(i \div 2))
                          /\ k \div 2 = i => ~(a(k) < a(c))
    BY DEF OrderDown, Lesser, Less
  <2>3. \A k \in 2 .. n : a(k) \in Nat /\ a(k \div 2) \in Nat /\ a(c) \in Nat
                          /\ (i \div 2 # 0 => a(i \div 2) \in Nat)
    BY <2>1, <1>1, <1>2, <1>4
  <2> HIDE DEF a
  <2>4. \A x, y \in Nat : ~(x < y) => x >= y
    OBVIOUS
  <2>5. ASSUME NEW k \in 2 .. n
        PROVE  /\ k \div 2 # i /\ k # i => a(k) >= a(k \div 2)
               /\ k \div 2 = i /\ i \div 2 # 0 => a(k) >= a(i \div 2)
               /\ k \div 2 = i => a(k) >= a(c)
    BY <2>2, <2>3, <2>4
  <2>6. QED BY <2>5
<1> HIDE DEF a, s
<1>6. ASSUME NEW k \in 2 .. n, k \div 2 # c PROVE ~Less(s, k, k \div 2)
  <2>1. CASE k = c
    BY SMTT(30), <2>1, <1>1, <1>2, <1>3, <1>4 DEF Less, Across
  <2>2. CASE k = i
    <3>1. k \div 2 # 0 /\ a(c) >= a(k \div 2)
      BY <2>2, <1>1, <1>4, <1>5
    <3>2. k # c /\ k \div 2 # i /\ k \div 2 # c
      BY <2>2, <1>1, <1>4
    <3>3. s[k].access = a(c) /\ s[k \div 2].access = a(k \div 2)
      <4>1. Across(i, c, k) = c /\ Across(i, c, k \div 2) = k \div 2
        BY <2>2, <3>2 DEF Across
      <4>2. k \in 1 .. n /\ k \div 2 \in 1 .. n
        BY <1>4
      <4>3. QED BY <4>1, <4>2, <1>2
    <3>4. QED BY SMTT(30), <3>1, <3>3, <1>1, <1>2, <1>4 DEF Less
  <2>3. CASE k # c /\ k \div 2 = i
    <3>1. s[k].access = a(k) /\ s[k \div 2].access = a(c) /\ a(k) >= a(c)
      BY <2>3, <1>1, <1>2, <1>4, <1>5 DEF Across
    <3>2. QED BY <3>1, <1>1, <1>2, <1>4 DEF Less
  <2>4. CASE k # c /\ k # i /\ k \div 2 # i
    <3>1. s[k].access = a(k) /\ s[k \div 2].access = a(k \div 2) /\ a(k) >= a(k \div 2)
      BY <2>4, <1>2, <1>4, <1>5, <1>6 DEF Across
    <3>2. QED BY <3>1, <1>2, <1>4 DEF Less
  <2>5. QED BY <2>1, <2>2, <2>3, <2>4
<1>7. ASSUME NEW k \in 2 .. n, k \div 2 = c PROVE ~Less(s, k, c \div 2)
  <2>1. k # i /\ k # c /\ k \div 2 # i
    BY <1>1, <1>4, <1>7
  <2>2. s[k].access = a(k) /\ s[c \div 2].access = a(c) /\ a(k) >= a(c)
    BY <2>1, <1>1, <1>2, <1>4, <1>5, <1>7 DEF Across
  <2>3. QED BY <2>2, <1>1, <1>2, <1>4 DEF Less
<1>8. QED BY <1>6, <1>7 DEF OrderDown, s

\* A set of positions has a least member.
LEMMA LeastPosition ==
  ASSUME NEW n \in Nat, NEW S \in SUBSET (1 .. n), S # {}
  PROVE  \E i \in S : \A k \in S : i <= k
<1> DEFINE N == 1 .. n
           F == {s \in SUBSET N : \E i \in S : s = 1 .. i}
<1>1. IsFiniteSet(N)
  BY 1 \in Int, n \in Int, FS_Interval
<1>2. \A i \in S : 1 .. i \in F
  OBVIOUS
<1>3. PICK s \in F : \A t \in F : t \subseteq s => t = s
  <2>1. F \subseteq SUBSET N /\ F # {}
    BY <1>2
  <2> HIDE DEF F, N
  <2> QED BY <1>1, <2>1, SmallestSubset
<1>4. PICK i \in S : s = 1 .. i
  OBVIOUS
<1>5. ASSUME NEW k \in S, k < i PROVE FALSE
  <2>1. 1 .. k \in F /\ 1 .. k \subseteq s
    BY <1>4, <1>5
  <2>2. 1 .. k = 1 .. i
    BY <1>3, <1>4, <2>1
  <2>3. i \in 1 .. i /\ i \notin 1 .. k
    BY <1>5
  <2>4. QED BY <2>2, <2>3
<1>6. QED BY <1>5

\* The root is the least of a heap: otherwise take the first item that is less.
LEMMA RootIsLeast ==
  ASSUME NEW h \in Seq(HeapItem), HeapOrdered(h)
  PROVE  \A i \in DOMAIN h : h[1].access <= h[i].access
<1> DEFINE bad == {i \in 1 .. Len(h) : h[i].access < h[1].access}
<1>1. /\ Len(h) \in Nat /\ DOMAIN h = 1 .. Len(h) /\ \A i \in 1 .. Len(h) : h[i].access \in Nat
      /\ bad \subseteq Nat
  <2>1. Len(h) \in Nat /\ DOMAIN h = 1 .. Len(h)
    OBVIOUS
  <2>2. \A i \in 1 .. Len(h) : h[i].access \in Nat
    BY ItemsOfHeap
  <2>3. QED BY <2>1, <2>2
<1>2. ASSUME bad # {} PROVE FALSE
  <2>1. bad \in SUBSET (1 .. Len(h)) /\ Len(h) \in Nat
    BY <1>1
  <2>2. PICK i \in bad : \A k \in bad : i <= k
    BY <2>1, <1>2, LeastPosition
  <2>3. i \in 2 .. Len(h)
    BY <1>1
  <2>4. i \div 2 \in 1 .. Len(h) /\ i \div 2 < i
    BY <2>3, <1>1, Halves
  <2>5. h[i].access >= h[i \div 2].access
    BY <2>3, <2>4, <1>1 DEF HeapOrdered, Less
  <2>6. i \div 2 \in bad
    BY <2>4, <2>5, <1>1
  <2>7. QED BY <2>2, <2>4, <2>6
<1>3. QED BY <1>1, <1>2

\* Items that are where they should be are arranged.
LEMMA ArrangedAsIs ==
  ASSUME NEW h, NEW q, NEW n \in Nat, Len(q) = n, \A i \in 1 .. n : Items(h)[i] = q[i]
  PROVE  Arranged(h, q, n)
<1> DEFINE p == [i \in 1 .. n |-> i]
<1>1. p \in [1 .. n -> 1 .. n] /\ \A i \in 1 .. n : p[i] = i
  OBVIOUS
<1> HIDE DEF p
<1>2. Permutes(p, n)
  BY <1>1 DEF Permutes
<1>3. Arranges(p, h, q, n)
  BY <1>1, <1>2 DEF Arranges
<1>4. QED BY <1>1, <1>3 DEF Arranged

\* Items that change places stay arranged.
LEMMA SwapArranges ==
  ASSUME NEW h \in Seq(HeapItem), NEW n \in 0 .. Len(h), NEW q, Arranged(h, q, n),
         NEW i \in 1 .. n, NEW j \in 1 .. n
  PROVE  Arranged(Swap(h, i, j), q, n)
<1>1. PICK p \in [1 .. n -> 1 .. n] : Arranges(p, h, q, n)
  BY DEF Arranged
<1> DEFINE s == Swap(h, i, j)
           r == [k \in 1 .. n |-> p[Across(i, j, k)]]
<1>2. /\ \A k \in 1 .. n : Across(i, j, k) \in 1 .. n /\ Across(i, j, Across(i, j, k)) = k
      /\ n \in Nat /\ \A k \in 1 .. n : k \in 1 .. Len(h)
  BY DEF Across
<1>3. /\ r \in [1 .. n -> 1 .. n] /\ \A k \in 1 .. n : r[k] = p[Across(i, j, k)]
  BY <1>2
<1> HIDE DEF r
<1>4. Permutes(p, n) /\ \A k \in 1 .. n : Items(h)[k] = q[p[k]]
  BY <1>1 DEF Arranges
<1>5. Permutes(r, n)
  <2>1. ASSUME NEW k \in 1 .. n, NEW l \in 1 .. n, r[k] = r[l] PROVE k = l
    <3>1. Across(i, j, k) = Across(i, j, l)
      <4>1. p[Across(i, j, k)] = p[Across(i, j, l)]
        BY <2>1, <1>3
      <4>2. Across(i, j, k) \in 1 .. n /\ Across(i, j, l) \in 1 .. n
        BY <1>2
      <4>3. QED BY <4>1, <4>2, <1>4 DEF Permutes
    <3>2. QED BY <3>1, <1>2
  <2>2. ASSUME NEW l \in 1 .. n PROVE \E k \in 1 .. n : r[k] = l
    <3>1. PICK k \in 1 .. n : p[k] = l
      BY <1>4 DEF Permutes
    <3>2. r[Across(i, j, k)] = l
      BY <3>1, <1>2, <1>3
    <3>3. QED BY <3>2, <1>2
  <2>3. QED BY <2>1, <2>2, <1>3 DEF Permutes
<1>6. ASSUME NEW k \in 1 .. n PROVE Items(s)[k] = q[r[k]]
  <2>1. s \in Seq(HeapItem) /\ Len(s) = Len(h) /\ Swapped(h, i, j, s)
    BY <1>2, SwapChanges
  <2> HIDE DEF s
  <2>2. Items(s)[k] = [key |-> s[k].key, access |-> s[k].access]
    BY <2>1, <1>2, ItemsOfHeap
  <2>3. Items(h)[Across(i, j, k)]
          = [key |-> h[Across(i, j, k)].key, access |-> h[Across(i, j, k)].access]
    BY <1>2, ItemsOfHeap
  <2>4. Items(s)[k] = Items(h)[Across(i, j, k)]
    BY <2>1, <2>2, <2>3, <1>2 DEF Swapped
  <2>5. QED BY <2>4, <1>2, <1>3, <1>4
<1>7. Arranges(r, s, q, n)
  BY <1>5, <1>6 DEF Arranges
<1>8. QED BY <1>3, <1>7, <1>1 DEF Arranged

\* Without its root, and the last item in its place, a heap is the rest of its items.
LEMMA RootLeaves ==
  ASSUME NEW h \in Seq(HeapItem), h # <<>>
  PROVE  Arranged(Swap(h, 1, Len(h)), Tail(Items(h)), Len(h) - 1)
<1> DEFINE n == Len(h) - 1
           s == Swap(h, 1, Len(h))
           q == Tail(Items(h))
           p == [k \in 1 .. n |-> IF k = 1 THEN n ELSE k - 1]
<1>1. /\ Len(h) \in Nat /\ n \in Nat /\ Len(h) = n + 1
      /\ 1 \in 1 .. Len(h) /\ Len(h) \in 1 .. Len(h)
  OBVIOUS
<1>2. /\ Items(h) \in Seq(Entry) /\ Len(Items(h)) = n + 1
      /\ s \in Seq(HeapItem) /\ Len(s) = n + 1 /\ Swapped(h, 1, n + 1, s)
  BY <1>1, ItemsOfHeap, SwapChanges
<1>3. Len(q) = n /\ \A k \in 1 .. n : q[k] = Items(h)[k + 1]
  BY <1>1, <1>2
<1>4. \A k \in 1 .. n : Items(s)[k] = IF k = 1 THEN Items(h)[n + 1] ELSE Items(h)[k]
  <2> HIDE DEF s, n
  <2>1. \A k \in 1 .. n + 1 : /\ Items(s)[k] = [key |-> s[k].key, access |-> s[k].access]
                              /\ Items(h)[k] = [key |-> h[k].key, access |-> h[k].access]
    BY <1>1, <1>2, ItemsOfHeap
  <2>2. ASSUME NEW k \in 1 .. n
        PROVE  Across(1, n + 1, k) = IF k = 1 THEN n + 1 ELSE k
    BY <1>1 DEF Across
  <2>3. \A k \in 1 .. n : k \in 1 .. n + 1 /\ k \in 1 .. Len(h)
    BY <1>1
  <2>4. n + 1 \in 1 .. n + 1
    BY <1>1
  <2>5. ASSUME NEW k \in 1 .. n
        PROVE  Items(s)[k] = IF k = 1 THEN Items(h)[n + 1] ELSE Items(h)[k]
    <3>1. /\ s[k].key = h[Across(1, n + 1, k)].key
          /\ s[k].access = h[Across(1, n + 1, k)].access
      BY <2>3, <1>2 DEF Swapped
    <3>2. Items(s)[k] = [key |-> s[k].key, access |-> s[k].access]
      BY <2>1, <2>3
    <3>3. Across(1, n + 1, k) \in 1 .. n + 1
      BY <2>2, <2>3, <2>4
    <3>4. Items(s)[k] = Items(h)[Across(1, n + 1, k)]
      BY <3>1, <3>2, <3>3, <2>1
    <3>5. QED BY <3>4, <2>2
  <2>6. QED BY <2>5
<1>5. p \in [1 .. n -> 1 .. n] /\ \A k \in 1 .. n : p[k] = IF k = 1 THEN n ELSE k - 1
  BY <1>1
<1> HIDE DEF p, q, s, n
<1>6. Permutes(p, n)
  <2>1. ASSUME NEW k \in 1 .. n, NEW l \in 1 .. n, p[k] = p[l] PROVE k = l
    <3>1. /\ p[k] = (IF k = 1 THEN n ELSE k - 1) /\ p[l] = (IF l = 1 THEN n ELSE l - 1)
      BY <1>5
    <3>2. QED BY <3>1, <2>1, <1>1
  <2>2. ASSUME NEW l \in 1 .. n PROVE \E k \in 1 .. n : p[k] = l
    <3>1. CASE l = n
      BY <3>1, <1>1, <1>5
    <3>2. CASE l # n
      <4>1. l + 1 \in 1 .. n /\ p[l + 1] = l
        BY <3>2, <1>1, <1>5
      <4>2. QED BY <4>1
    <3>3. QED BY <3>1, <3>2
  <2>3. QED BY <2>1, <2>2, <1>5 DEF Permutes
<1>7. ASSUME NEW k \in 1 .. n PROVE Items(s)[k] = q[p[k]]
  <2>1. CASE k = 1
    <3>1. p[k] = n /\ n \in 1 .. n
      BY <2>1, <1>1, <1>5
    <3>2. q[n] = Items(h)[n + 1] /\ Items(s)[k] = Items(h)[n + 1]
      BY <2>1, <3>1, <1>3, <1>4
    <3>3. QED BY <3>1, <3>2
  <2>2. CASE k # 1
    <3>1. p[k] = k - 1 /\ k - 1 \in 1 .. n /\ k - 1 + 1 = k
      BY <2>2, <1>1, <1>5
    <3>2. QED BY <3>1, <2>2, <1>3, <1>4
  <2>3. QED BY <2>1, <2>2
<1>8. Arranged(s, q, n)
  BY <1>3, <1>5, <1>6, <1>7 DEF Arranges, Arranged
<1>9. QED BY <1>8 DEF s, q, n

\* Arranged and in heap order, items are one of the contract's arrangements.
LEMMA ArrangedIsArrangement ==
  ASSUME NEW h \in Seq(HeapItem), NEW q, Arranged(h, q, Len(h)), HeapOrdered(h)
  PROVE  Items(h) \in Arrangements(q)
<1> DEFINE n == Len(h)
<1>1. PICK p \in [1 .. n -> 1 .. n] : Arranges(p, h, q, n)
  BY DEF Arranged
<1>2. n \in Nat /\ Len(q) = n /\ Len(Items(h)) = n /\ DOMAIN Items(h) = 1 .. n
  BY ItemsOfHeap DEF Arranged
<1>3. Items(h) = [i \in 1 .. n |-> q[p[i]]]
  <2>1. \A i \in 1 .. n : Items(h)[i] = q[p[i]]
    BY <1>1 DEF Arranges
  <2>2. Items(h) = [i \in 1 .. n |-> Items(h)[i]]
    BY <1>2 DEF Items
  <2>3. QED BY <2>1, <2>2
<1>4. HeapOrdered(Items(h))
  <2>1. ASSUME NEW k \in 1 .. n PROVE Items(h)[k].access = h[k].access
    <3>1. Items(h)[k] = [key |-> h[k].key, access |-> h[k].access]
      BY ItemsOfHeap
    <3>2. QED BY <3>1
  <2>2. \A k \in 2 .. n : k \in 1 .. n /\ k \div 2 \in 1 .. n
    BY <1>2, Halves
  <2>3. QED BY <2>1, <2>2, <1>2 DEF HeapOrdered, Less
<1>5. Items(h) = [i \in 1 .. Len(q) |-> q[p[i]]]
  BY <1>2, <1>3
<1>6. /\ p \in [1 .. Len(q) -> 1 .. Len(q)]
      /\ \A i, j \in 1 .. Len(q) : p[i] = p[j] => i = j
      /\ \A j \in 1 .. Len(q) : \E i \in 1 .. Len(q) : p[i] = j
  BY <1>1, <1>2 DEF Arranges, Permutes
<1> DEFINE orders == {o \in [1 .. Len(q) -> 1 .. Len(q)] :
                        /\ \A i, j \in 1 .. Len(q) : o[i] = o[j] => i = j
                        /\ \A j \in 1 .. Len(q) : \E i \in 1 .. Len(q) : o[i] = j}
           made == {[i \in 1 .. Len(q) |-> q[o[i]]] : o \in orders}
<1>7. p \in orders
  BY <1>6
<1>8. Items(h) \in made
  <2> HIDE DEF orders
  <2> QED BY <1>5, <1>7
<1>9. Arrangements(q) = {r \in made : HeapOrdered(r)}
  BY DEF Arrangements
<1>10. QED BY <1>4, <1>8, <1>9

\* The invariant of every state, and what a call under way adds to it.
LEMMA HeapFacts ==
  ASSUME HeapInv
  PROVE  /\ heap \in Seq(HeapItem) /\ Len(heap) \in Nat /\ DOMAIN heap = 1 .. Len(heap)
         /\ \A i \in 1 .. Len(heap) : heap[i] \in HeapItem /\ heap[i].index = i
         /\ Distinct(heap) /\ now \in ClockValues /\ now \in Nat
         /\ before \in Seq(Entry)
         /\ phase # "idle" => /\ at \in 1 .. Len(heap) /\ count \in 0 .. Len(heap)
                              /\ call.item \in 1 .. Len(heap) /\ InCall
         /\ phase = "idle" => HeapOrdered(heap) /\ call = NoCall
<1>1. heap \in Seq(HeapItem) /\ before \in Seq(Entry) /\ now \in ClockValues
  BY DEF HeapInv, HeapTypeOK, Entry
<1>2. Len(heap) \in Nat /\ DOMAIN heap = 1 .. Len(heap) /\ \A i \in 1 .. Len(heap) : heap[i] \in HeapItem
  BY <1>1
<1>3. IndexOfItem /\ Distinct(heap)
  BY DEF HeapInv, KeysDiffer, Distinct
<1>4. now \in Nat
  BY <1>1, TimesAssumption
<1>5. phase # "idle" => /\ at \in 1 .. Len(heap) /\ count \in 0 .. Len(heap)
                        /\ call.item \in 1 .. Len(heap) /\ InCall
  BY DEF HeapInv, HeapTypeOK
<1>6. phase = "idle" => HeapOrdered(heap) /\ call = NoCall
  BY DEF HeapInv, HeapTypeOK
<1>7. QED BY <1>1, <1>2, <1>3, <1>4, <1>5, <1>6 DEF IndexOfItem

\* The type of a call under way.
CallType ==
  /\ phase \in {"up", "down"} /\ now \in ClockValues /\ before \in Seq(Entry)
  /\ call \in [op : {"push", "pop", "touch"}, key : HeapKeys, item : 1 .. Len(heap)]

\* A call under way has its type.
LEMMA LoopFacts ==
  ASSUME HeapInv, phase # "idle" PROVE CallType
BY DEF HeapInv, HeapTypeOK, CallType, Entry

\* What is left to show of a step inside a call.
LEMMA StaysInCall ==
  ASSUME CallType', heap' \in Seq(HeapItem), at' \in 1 .. Len(heap'), count' \in 0 .. Len(heap'),
         \A i \in 1 .. Len(heap') : heap'[i].index = i, Distinct(heap'), InCall'
  PROVE  HeapInv'
<1>1. DOMAIN heap' = 1 .. Len(heap')
  OBVIOUS
<1>2. HeapTypeOK'
  BY DEF HeapTypeOK, CallType, Entry
<1>3. IndexOfItem' /\ KeysDiffer'
  BY <1>1 DEF IndexOfItem, KeysDiffer, Distinct
<1>4. QED BY <1>2, <1>3 DEF HeapInv, CallType

\* Swap keeps the items' indices and keys in order.
LEMMA SwapKeepsItems ==
  ASSUME NEW h \in Seq(HeapItem), NEW i \in 1 .. Len(h), NEW j \in 1 .. Len(h),
         \A k \in 1 .. Len(h) : h[k].index = k, Distinct(h)
  PROVE  /\ Swap(h, i, j) \in Seq(HeapItem) /\ Len(Swap(h, i, j)) = Len(h)
         /\ \A k \in 1 .. Len(h) : Swap(h, i, j)[k].index = k
         /\ Distinct(Swap(h, i, j))
<1> DEFINE s == Swap(h, i, j)
<1>1. s \in Seq(HeapItem) /\ Len(s) = Len(h) /\ Swapped(h, i, j, s)
  BY SwapChanges
<1> HIDE DEF s
<1>2. \A k \in 1 .. Len(h) : s[k].index = k
  BY <1>1 DEF Swapped
<1>3. ASSUME NEW k \in DOMAIN s, NEW l \in DOMAIN s, s[k].key = s[l].key PROVE k = l
  <2>1. k \in 1 .. Len(h) /\ l \in 1 .. Len(h) /\ DOMAIN h = 1 .. Len(h)
    BY <1>1
  <2>2. /\ Across(i, j, k) \in 1 .. Len(h) /\ Across(i, j, l) \in 1 .. Len(h)
        /\ h[Across(i, j, k)].key = h[Across(i, j, l)].key
    BY <2>1, <1>1, <1>3 DEF Swapped
  <2>3. Across(i, j, k) = Across(i, j, l)
    BY <2>1, <2>2 DEF Distinct
  <2>4. QED BY <2>1, <2>3 DEF Across
<1>4. QED BY <1>1, <1>2, <1>3 DEF Distinct, s

\* The empty heap.
LEMMA HeapInitInv == ASSUME HeapInit PROVE HeapInv
<1>1. heap = <<>> /\ Len(heap) = 0 /\ DOMAIN heap = {} /\ before = <<>>
  BY DEF HeapInit
<1>2. HeapTypeOK
  BY <1>1 DEF HeapInit, HeapTypeOK
<1>3. IndexOfItem /\ KeysDiffer
  BY <1>1 DEF IndexOfItem, KeysDiffer
<1>4. HeapOrdered(heap)
  BY <1>1 DEF HeapOrdered
<1>5. QED BY <1>2, <1>3, <1>4 DEF HeapInv, HeapInit

\* heap.Push: the new item is the only one that may be less than its parent.
LEMMA PushInv ==
  ASSUME HeapInv, NEW key \in HeapKeys, CallPush(key) PROVE HeapInv'
<1> DEFINE n == Len(heap) + 1
           x == [key |-> key, index |-> n, access |-> now]
<1>1. /\ phase = "idle" /\ heap' = Append(heap, x) /\ \A i \in DOMAIN heap : heap[i].key # key
      /\ call' = Call("push", key, n) /\ before' = Items(heap)
      /\ phase' = "up" /\ at' = n /\ count' = n /\ now' = now
  BY DEF CallPush, Begin
<1>2. /\ heap \in Seq(HeapItem) /\ Len(heap) \in Nat /\ DOMAIN heap = 1 .. Len(heap)
      /\ \A i \in 1 .. Len(heap) : heap[i].index = i
      /\ Distinct(heap) /\ now \in ClockValues /\ HeapOrdered(heap)
  BY <1>1, HeapFacts
<1>3. x \in HeapItem /\ n \in Nat
  BY <1>2 DEF HeapItem
<1>4. /\ heap' \in Seq(HeapItem) /\ Len(heap') = n /\ DOMAIN heap' = 1 .. n
      /\ \A i \in 1 .. Len(heap) : heap'[i] = heap[i]
      /\ heap'[n] = x
      /\ \A i \in 1 .. n : i # n => i \in 1 .. Len(heap)
  BY <1>1, <1>2, <1>3
<1>5. \A i \in 1 .. n : heap'[i].index = i
  BY <1>2, <1>3, <1>4
<1>6. Distinct(heap')
  BY <1>1, <1>2, <1>4 DEF Distinct
<1>7. call'.op = "push" /\ call'.key = key /\ call'.item = n
  BY <1>1 DEF Call
<1>8. Items(heap) \in Seq(Entry) /\ Len(Items(heap)) = Len(heap)
  BY <1>2, ItemsOfHeap
<1>9. CallType'
  <2>1. call' \in [op : {"push", "pop", "touch"}, key : HeapKeys, item : 1 .. Len(heap')]
    BY <1>1, <1>3, <1>4 DEF Call
  <2>2. QED BY <2>1, <1>1, <1>2, <1>8 DEF CallType
<1>10. Target' = Append(Items(heap), [key |-> key, access |-> now])
  BY <1>1, <1>7 DEF Target, Pushed
<1>11. Len(Target') = n /\ Items(heap') = Target'
  <2>1. Len(Target') = n /\ Target' \in Seq(Entry)
    <3>1. [key |-> key, access |-> now] \in Entry
      BY <1>2 DEF Entry
    <3>2. QED BY <3>1, <1>8, <1>10
  <2>2. Items(heap') \in Seq(Entry) /\ Len(Items(heap')) = n
    BY <1>4, ItemsOfHeap
  <2>3. ASSUME NEW i \in 1 .. n PROVE Items(heap')[i] = Target'[i]
    <3>1. Items(heap')[i] = [key |-> heap'[i].key, access |-> heap'[i].access]
      BY <1>4, ItemsOfHeap
    <3>2. CASE i = n
      BY <3>1, <3>2, <1>4, <1>8, <1>10
    <3>3. CASE i # n
      <4>1. i \in 1 .. Len(heap) /\ Items(heap)[i] = [key |-> heap[i].key, access |-> heap[i].access]
        BY <3>3, <1>2, <1>4, ItemsOfHeap
      <4>2. Target'[i] = Items(heap)[i]
        BY <4>1, <1>8, <1>10
      <4>3. QED BY <3>1, <4>1, <4>2, <1>4
    <3>4. QED BY <3>2, <3>3
  <2>4. QED BY <2>1, <2>2, <2>3
<1>12. Arranged(heap', Target', n)
  BY <1>3, <1>11, ArrangedAsIs
<1>13. OrderUp(heap', n, n)
  <2>1. ASSUME NEW k \in 2 .. n
        PROVE  k \div 2 # n /\ (k # n => k \in 2 .. Len(heap) /\ k \div 2 \in 1 .. Len(heap))
    BY <1>2, Halves
  <2>2. ASSUME NEW k \in 2 .. n, k # n PROVE ~Less(heap', k, k \div 2)
    <3>1. k \in 1 .. Len(heap) /\ k \in 2 .. Len(heap) /\ k \div 2 \in 1 .. Len(heap)
      BY <2>1, <2>2, <1>4
    <3>2. QED BY <3>1, <1>2, <1>4 DEF HeapOrdered, Less
  <2>3. QED BY <2>1, <2>2 DEF OrderUp
<1>14. InCall'
  BY <1>1, <1>4, <1>7, <1>11, <1>12, <1>13 DEF InCall
<1>15. at' \in 1 .. Len(heap') /\ count' \in 0 .. Len(heap')
  BY <1>1, <1>2, <1>4
<1>16. QED BY <1>4, <1>5, <1>6, <1>9, <1>14, <1>15, StaysInCall

\* heap.Pop: the item from the end is the only one that may be more than its children.
LEMMA PopInv ==
  ASSUME HeapInv, CallPop PROVE HeapInv'
<1> DEFINE n == Len(heap) - 1
<1>1. /\ phase = "idle" /\ heap # <<>> /\ heap' = Swap(heap, 1, Len(heap))
      /\ call' = Call("pop", heap[1].key, 1) /\ before' = Items(heap)
      /\ phase' = "down" /\ at' = 1 /\ count' = n /\ now' = now
  BY DEF CallPop, Begin
<1>2. /\ heap \in Seq(HeapItem) /\ Len(heap) \in Nat /\ DOMAIN heap = 1 .. Len(heap)
      /\ \A i \in 1 .. Len(heap) : heap[i] \in HeapItem /\ heap[i].index = i
      /\ Distinct(heap) /\ now \in ClockValues /\ HeapOrdered(heap)
  BY <1>1, HeapFacts
<1>3. n \in Nat /\ Len(heap) = n + 1 /\ 1 \in 1 .. Len(heap) /\ Len(heap) \in 1 .. Len(heap)
  BY <1>1, <1>2
<1>4. /\ heap' \in Seq(HeapItem) /\ Len(heap') = Len(heap)
      /\ \A k \in 1 .. Len(heap') : heap'[k].index = k
      /\ Distinct(heap')
  BY <1>1, <1>2, <1>3, SwapKeepsItems
<1>5. Swapped(heap, 1, Len(heap), heap')
  BY <1>1, <1>2, <1>3, SwapChanges
<1>6. heap[1].key \in HeapKeys
  BY <1>2, <1>3 DEF HeapItem
<1>7. call'.op = "pop" /\ call'.key = heap[1].key /\ call'.item = 1
  BY <1>1 DEF Call
<1>8. /\ Items(heap) \in Seq(Entry) /\ Len(Items(heap)) = Len(heap)
      /\ Items(heap)[1] = [key |-> heap[1].key, access |-> heap[1].access]
  BY <1>2, <1>3, ItemsOfHeap
<1>9. CallType'
  <2>1. call' \in [op : {"push", "pop", "touch"}, key : HeapKeys, item : 1 .. Len(heap')]
    BY <1>1, <1>3, <1>4, <1>6 DEF Call
  <2>2. QED BY <2>1, <1>1, <1>2, <1>8 DEF CallType
<1>10. Arranged(heap', Target', n)
  <2>1. Target' = Tail(Items(heap))
    BY <1>1, <1>7 DEF Target
  <2>2. QED BY <2>1, <1>1, <1>2, RootLeaves
<1>11. before' # <<>> /\ Head(before').key = call'.key
  BY <1>1, <1>3, <1>7, <1>8
<1>12. OrderDown(heap', 1, n, 1)
  <2>1. 1 \div 2 = 0
    OBVIOUS
  <2>2. ASSUME NEW k \in 2 .. n, k \div 2 # 1 PROVE ~Less(heap', k, k \div 2)
    <3>1. k \in 2 .. Len(heap) /\ k \in 1 .. Len(heap) /\ k \div 2 \in 1 .. Len(heap)
          /\ k # Len(heap) /\ k \div 2 # Len(heap) /\ k # 1
      <4>1. k \in Nat /\ k >= 2 /\ k <= n
        BY <1>3
      <4>2. k \div 2 \in Nat /\ k \div 2 >= 1 /\ k \div 2 < k
        BY <4>1, Halves
      <4>3. Len(heap) \in Nat /\ k <= Len(heap) /\ k < Len(heap) /\ k \div 2 < Len(heap)
        BY <4>1, <4>2, <1>2, <1>3
      <4> HIDE DEF n
      <4>4. QED BY <4>1, <4>2, <4>3
    <3>2. /\ Across(1, Len(heap), k) = k
          /\ Across(1, Len(heap), k \div 2) = k \div 2
      BY <3>1, <2>2 DEF Across
    <3>3. heap'[k].access = heap[k].access /\ heap'[k \div 2].access = heap[k \div 2].access
      BY <3>1, <3>2, <1>5 DEF Swapped
    <3>4. QED BY <3>1, <3>3, <1>2 DEF HeapOrdered, Less
  <2>3. QED BY <2>1, <2>2 DEF OrderDown
<1>13. InCall'
  BY <1>1, <1>4, <1>7, <1>10, <1>11, <1>12 DEF InCall
<1>14. at' \in 1 .. Len(heap') /\ count' \in 0 .. Len(heap')
  BY <1>1, <1>3, <1>4
<1>15. QED BY <1>4, <1>9, <1>13, <1>14, StaysInCall

\* heap.Fix: the item touched may be out of order on either side.
LEMMA TouchInv ==
  ASSUME HeapInv, NEW i \in DOMAIN heap, phase = "idle", CallTouch(i) PROVE HeapInv'
<1> DEFINE n == Len(heap)
<1>1. /\ heap' = [heap EXCEPT ![i].access = now]
      /\ call' = Call("touch", heap[i].key, i) /\ before' = Items(heap)
      /\ phase' = "down" /\ at' = i /\ count' = n /\ now' = now
  BY DEF CallTouch, Begin
<1>2. /\ heap \in Seq(HeapItem) /\ n \in Nat /\ DOMAIN heap = 1 .. n
      /\ \A k \in 1 .. n : heap[k] \in HeapItem /\ heap[k].index = k
      /\ Distinct(heap) /\ now \in ClockValues /\ now \in Nat /\ HeapOrdered(heap)
  BY HeapFacts
<1>3. i \in 1 .. n
  BY <1>2
<1>4. \A k \in 1 .. n : /\ heap'[k] = IF k = i THEN [heap[i] EXCEPT !.access = now] ELSE heap[k]
                        /\ k = i => heap'[k].access = now
                        /\ k # i => heap'[k].access = heap[k].access
                        /\ heap'[k].key = heap[k].key /\ heap'[k].index = k
                        /\ heap'[k] \in HeapItem
  <2>1. \A k \in 1 .. n : heap'[k] = IF k = i THEN [heap[i] EXCEPT !.access = now] ELSE heap[k]
    BY <1>1, <1>2
  <2>2. ASSUME NEW y \in HeapItem
        PROVE  /\ [y EXCEPT !.access = now] \in HeapItem /\ [y EXCEPT !.access = now].access = now
               /\ [y EXCEPT !.access = now].key = y.key /\ [y EXCEPT !.access = now].index = y.index
    BY <1>2 DEF HeapItem
  <2>3. ASSUME NEW k \in 1 .. n
        PROVE  /\ k = i => heap'[k].access = now
               /\ k # i => heap'[k].access = heap[k].access
               /\ heap'[k].key = heap[k].key /\ heap'[k].index = k
               /\ heap'[k] \in HeapItem
    <3>1. CASE k = i
      <4>1. heap[i] \in HeapItem /\ heap[i].index = i
        BY <1>2, <1>3
      <4>2. heap'[k] = [heap[i] EXCEPT !.access = now]
        BY <3>1, <2>1
      <4>3. QED BY <3>1, <4>1, <4>2, <2>2
    <3>2. CASE k # i
      BY <3>2, <2>1, <1>2
    <3>3. QED BY <3>1, <3>2
  <2>4. QED BY <2>1, <2>3
<1>5. heap' \in Seq(HeapItem) /\ Len(heap') = n /\ DOMAIN heap' = 1 .. n
  <2>1. DOMAIN heap' = 1 .. n /\ heap' \in [1 .. n -> HeapItem]
    BY <1>1, <1>2, <1>4
  <2>2. QED BY <2>1, <1>2
<1>6. Distinct(heap')
  BY <1>2, <1>4, <1>5 DEF Distinct
<1>7. call'.op = "touch" /\ call'.key = heap[i].key /\ call'.item = i /\ heap[i].key \in HeapKeys
  BY <1>1, <1>2, <1>3 DEF Call, HeapItem
<1>8. Items(heap) \in Seq(Entry) /\ Len(Items(heap)) = n /\ DOMAIN Items(heap) = 1 .. n
  BY <1>2, ItemsOfHeap
<1>9. CallType'
  <2>1. call' \in [op : {"push", "pop", "touch"}, key : HeapKeys, item : 1 .. Len(heap')]
    BY <1>1, <1>3, <1>5, <1>7 DEF Call
  <2>2. QED BY <2>1, <1>1, <1>2, <1>8 DEF CallType
<1>10. Arranged(heap', Target', n)
  <2>1. Target' = [Items(heap) EXCEPT ![i].access = now]
    BY <1>1, <1>7 DEF Target
  <2>2. Len(Target') = n
    BY <2>1, <1>8
  <2>3. ASSUME NEW k \in 1 .. n PROVE Items(heap')[k] = Target'[k]
    <3>1. /\ Items(heap')[k] = [key |-> heap'[k].key, access |-> heap'[k].access]
          /\ Items(heap)[k] = [key |-> heap[k].key, access |-> heap[k].access]
      BY <1>2, <1>5, ItemsOfHeap
    <3>2. Target'[k] = IF k = i THEN [Items(heap)[k] EXCEPT !.access = now] ELSE Items(heap)[k]
      BY <2>1, <1>8
    <3>3. QED BY <3>1, <3>2, <1>4
  <2>4. QED BY <2>2, <2>3, <1>2, ArrangedAsIs
<1>11. OrderDown(heap', i, n, i)
  <2>1. ASSUME NEW k \in 2 .. n
        PROVE  /\ k \in 1 .. n /\ k \div 2 \in 1 .. n /\ k \div 2 < k
               /\ heap[k].access \in Nat /\ heap[k \div 2].access \in Nat
               /\ heap[k \div 2].access <= heap[k].access
    <3>1. k \in 1 .. n /\ k \div 2 \in 1 .. n /\ k \div 2 < k
      BY <1>2, Halves
    <3>2. heap[k].access \in Nat /\ heap[k \div 2].access \in Nat
      BY <3>1, <1>2, ItemsOfHeap
    <3>3. QED BY <3>1, <3>2, <1>2 DEF HeapOrdered, Less
  <2>2. ASSUME NEW k \in 2 .. n, k \div 2 # i, k # i PROVE ~Less(heap', k, k \div 2)
    BY <2>1, <2>2, <1>4 DEF Less
  <2>3. ASSUME NEW k \in 2 .. n, k \div 2 = i, i \div 2 # 0 PROVE ~Less(heap', k, i \div 2)
    <3>1. i \in 2 .. n /\ i \div 2 < i /\ k # i
      BY <2>1, <2>3, <1>3, Halves
    <3>2. heap'[k].access = heap[k].access /\ heap'[i \div 2].access = heap[i \div 2].access
      BY <3>1, <2>1, <1>4
    <3>3. /\ heap[i].access <= heap[k].access /\ heap[i \div 2].access <= heap[i].access
          /\ heap[k].access \in Nat /\ heap[i].access \in Nat /\ heap[i \div 2].access \in Nat
      BY <3>1, <2>1, <2>3
    <3>4. QED BY <3>2, <3>3 DEF Less
  <2>4. QED BY <2>2, <2>3 DEF OrderDown
<1>12. InCall'
  BY <1>1, <1>3, <1>5, <1>7, <1>8, <1>10, <1>11 DEF InCall
<1>13. at' \in 1 .. Len(heap') /\ count' \in 0 .. Len(heap')
  BY <1>1, <1>2, <1>3, <1>5
<1>14. \A k \in 1 .. Len(heap') : heap'[k].index = k
  BY <1>4, <1>5
<1>15. QED BY <1>5, <1>6, <1>9, <1>12, <1>13, <1>14, StaysInCall

\* What a swap inside a call leaves as it is.
LEMMA LoopSwap ==
  ASSUME HeapInv, phase # "idle", NEW i \in 1 .. count, NEW j \in 1 .. count,
         heap' = Swap(heap, i, j), UNCHANGED <<now, call, before, phase, count>>
  PROVE  /\ CallType' /\ Target' = Target
         /\ heap' \in Seq(HeapItem) /\ Len(heap') = Len(heap)
         /\ \A k \in 1 .. Len(heap') : heap'[k].index = k
         /\ Distinct(heap') /\ count' \in 0 .. Len(heap')
         /\ Arranged(heap', Target', count')
<1>1. /\ heap \in Seq(HeapItem) /\ Len(heap) \in Nat
      /\ \A k \in 1 .. Len(heap) : heap[k].index = k
      /\ Distinct(heap) /\ count \in 0 .. Len(heap) /\ InCall /\ CallType
  BY HeapFacts, LoopFacts
<1>2. i \in 1 .. Len(heap) /\ j \in 1 .. Len(heap)
  BY <1>1
<1>3. /\ heap' \in Seq(HeapItem) /\ Len(heap') = Len(heap)
      /\ \A k \in 1 .. Len(heap') : heap'[k].index = k
      /\ Distinct(heap')
  BY <1>1, <1>2, SwapKeepsItems
<1>4. Target' = Target
  BY DEF Target
<1>5. CallType'
  BY <1>1, <1>3 DEF CallType
<1>6. Arranged(heap', Target, count)
  BY <1>1, SwapArranges DEF InCall
<1>7. QED BY <1>1, <1>3, <1>4, <1>5, <1>6

\* heap.up; a push at a time not before the others never gets here.
LEMMA RiseInv == ASSUME HeapInv, Rise PROVE HeapInv'
<1>1. /\ phase = "up" /\ at \div 2 # 0 /\ Less(heap, at, at \div 2)
      /\ heap' = Swap(heap, at \div 2, at) /\ at' = at \div 2
      /\ UNCHANGED <<now, call, before, phase, count>>
  BY DEF Rise, Rises
<1>2. /\ heap \in Seq(HeapItem) /\ Len(heap) \in Nat /\ at \in 1 .. Len(heap)
      /\ count \in 0 .. Len(heap) /\ InCall /\ before \in Seq(Entry) /\ now \in Nat
      /\ CallType
  BY <1>1, HeapFacts, LoopFacts
<1>3. call.op # "pop" /\ count = Len(heap) /\ OrderUp(heap, at, count)
  BY <1>1, <1>2 DEF InCall, CallType
<1>4. at \in 1 .. count /\ at \div 2 \in 1 .. count /\ at \div 2 \in 1 .. Len(heap)
  BY <1>1, <1>2, <1>3, Halves
<1>5. /\ CallType' /\ Target' = Target
      /\ heap' \in Seq(HeapItem) /\ Len(heap') = Len(heap)
      /\ \A k \in 1 .. Len(heap') : heap'[k].index = k
      /\ Distinct(heap') /\ count' \in 0 .. Len(heap')
      /\ Arranged(heap', Target', count')
  BY <1>1, <1>4, LoopSwap
<1>6. OrderUp(heap', at \div 2, count)
  BY <1>1, <1>2, <1>3, <1>4, RiseKeepsOrder
<1>7. ASSUME call.op = "push", \A t \in Accesses(before) : t <= now PROVE FALSE
  <2>1. at = Len(heap) /\ Items(heap) = Append(before, [key |-> call.key, access |-> now])
    BY <1>2, <1>7 DEF InCall, Target, Pushed
  <2>2. Len(before) \in Nat /\ Len(heap) = Len(before) + 1
    BY <2>1, <1>2, ItemsOfHeap
  <2>3. /\ Items(heap)[at] = [key |-> call.key, access |-> now]
        /\ at \div 2 \in 1 .. Len(before) /\ Items(heap)[at \div 2] = before[at \div 2]
    <3>1. at \div 2 \in 1 .. Len(before)
      BY <2>1, <2>2, <1>4, Halves
    <3>2. QED BY <3>1, <2>1, <2>2, <1>2
  <2>4. heap[at].access = now /\ heap[at \div 2].access = before[at \div 2].access
    <3>1. /\ Items(heap)[at] = [key |-> heap[at].key, access |-> heap[at].access]
          /\ Items(heap)[at \div 2]
               = [key |-> heap[at \div 2].key, access |-> heap[at \div 2].access]
      BY <1>2, <1>4, ItemsOfHeap
    <3>2. QED BY <3>1, <2>3
  <2>5. before[at \div 2].access \in Accesses(before)
    BY <2>3, <1>2 DEF Accesses
  <2>6. heap[at \div 2].access \in Nat /\ heap[at \div 2].access <= now
    BY <2>4, <2>5, <1>2, <1>4, <1>7, ItemsOfHeap
  <2>7. QED BY <2>4, <2>6, <1>1, <1>2 DEF Less
<1>8. InCall'
  BY <1>1, <1>2, <1>3, <1>5, <1>6, <1>7 DEF InCall
<1>9. at' \in 1 .. Len(heap')
  BY <1>1, <1>4, <1>5
<1>10. QED BY <1>5, <1>8, <1>9, StaysInCall

\* Child is the lesser of the children among the first count items, if there is one.
LEMMA ChildIsLesser ==
  ASSUME HeapInv, phase # "idle", at <= count, 2 * at <= count
  PROVE  Child \in 1 .. count /\ Lesser(heap, at, count, Child)
<1>1. /\ heap \in Seq(HeapItem) /\ at \in 1 .. Len(heap) /\ count \in 0 .. Len(heap)
      /\ Len(heap) \in Nat
  BY HeapFacts
<1>2. \A k \in 1 .. count : heap[k].access \in Nat
  <2>1. \A k \in 1 .. count : k \in 1 .. Len(heap)
    BY <1>1
  <2>2. QED BY <2>1, <1>1, ItemsOfHeap
<1>3. Child = IF 2 * at + 1 <= count /\ Less(heap, 2 * at + 1, 2 * at) THEN 2 * at + 1 ELSE 2 * at
  BY DEF Child
<1>4. at \in Nat /\ count \in Nat /\ at >= 1 /\ 2 * at \in 1 .. count
  BY <1>1
<1>5. Child \in 1 .. count /\ at < Child /\ (Child = 2 * at \/ Child = 2 * at + 1) /\ Child \in Nat
  BY <1>3, <1>4
<1>6. Child \div 2 = at
  BY <1>4, <1>5, Halves
<1>7. ASSUME NEW k \in 2 .. count, k \div 2 = at PROVE ~Less(heap, k, Child)
  <2>1. k \in Nat /\ k \in 1 .. count /\ (k = 2 * at \/ k = 2 * at + 1)
    BY <1>4, <1>7, Halves
  <2>2. QED BY <2>1, <1>2, <1>3, <1>4 DEF Less
<1>8. QED BY <1>5, <1>6, <1>7 DEF Lesser

\* heap.down.
LEMMA SinkInv == ASSUME HeapInv, Sink PROVE HeapInv'
<1>1. /\ phase = "down" /\ 2 * at <= count /\ Less(heap, Child, at)
      /\ heap' = Swap(heap, at, Child) /\ at' = Child
      /\ UNCHANGED <<now, call, before, phase, count>>
  BY DEF Sink, Sinks
<1>2. /\ heap \in Seq(HeapItem) /\ Len(heap) \in Nat /\ at \in 1 .. Len(heap)
      /\ count \in 0 .. Len(heap) /\ InCall /\ call.item \in 1 .. Len(heap)
  BY <1>1, HeapFacts
<1>3. at \in 1 .. count /\ call.item \in Nat
  BY <1>1, <1>2
<1>4. Child \in 1 .. count /\ Lesser(heap, at, count, Child)
  BY <1>1, <1>3, ChildIsLesser
<1>5. /\ CallType' /\ Target' = Target
      /\ heap' \in Seq(HeapItem) /\ Len(heap') = Len(heap)
      /\ \A k \in 1 .. Len(heap') : heap'[k].index = k
      /\ Distinct(heap') /\ count' \in 0 .. Len(heap')
      /\ Arranged(heap', Target', count')
  BY <1>1, <1>3, <1>4, LoopSwap
<1>6. OrderDown(heap', Child, count, call.item)
  BY <1>1, <1>2, <1>3, <1>4, SinkKeepsOrder DEF InCall
<1>7. InCall'
  BY <1>1, <1>2, <1>5, <1>6 DEF InCall
<1>8. at' \in 1 .. Len(heap')
  BY <1>1, <1>2, <1>4, <1>5
<1>9. QED BY <1>5, <1>7, <1>8, StaysInCall

\* A call that returns leaves its items in heap order.
LEMMA CallEnds ==
  ASSUME HeapInv, UpEnds \/ DownEndsPop \/ DownEndsFix, phase' = "idle"
  PROVE  /\ heap' \in Seq(HeapItem) /\ call' = NoCall /\ before' = <<>> /\ now' = now
         /\ \A i \in 1 .. Len(heap') : heap'[i].index = i
         /\ Distinct(heap') /\ HeapOrdered(heap') /\ Arranged(heap', Target, Len(heap'))
<1>1. phase # "idle" /\ Return
  BY DEF UpEnds, DownEndsPop, DownEndsFix, Return
<1>2. /\ heap \in Seq(HeapItem) /\ Len(heap) \in Nat /\ DOMAIN heap = 1 .. Len(heap)
      /\ \A i \in 1 .. Len(heap) : heap[i] \in HeapItem /\ heap[i].index = i
      /\ Distinct(heap) /\ InCall /\ CallType
      /\ at \in 1 .. Len(heap) /\ count \in 0 .. Len(heap)
  BY <1>1, HeapFacts, LoopFacts
<1>3. call' = NoCall /\ before' = <<>> /\ now' = now
  BY <1>1 DEF Return
<1>4. CASE UpEnds
  <2>1. phase = "up" /\ ~Rises /\ heap' = heap
    BY <1>4 DEF UpEnds
  <2>2. count = Len(heap) /\ OrderUp(heap, at, count) /\ Arranged(heap, Target, count)
    BY <2>1, <1>2 DEF InCall, CallType
  <2>3. HeapOrdered(heap)
    <3>1. ASSUME NEW k \in 2 .. Len(heap) PROVE ~Less(heap, k, k \div 2)
      <4>1. CASE k = at
        <5>1. at \div 2 # 0
          BY <4>1, Halves
        <5>2. QED BY <4>1, <5>1, <2>1 DEF Rises
      <4>2. CASE k # at
        BY <4>2, <2>2 DEF OrderUp
      <4>3. QED BY <4>1, <4>2
    <3>2. QED BY <3>1 DEF HeapOrdered
  <2>4. QED BY <2>1, <2>2, <2>3, <1>2, <1>3
<1>5. ASSUME DownEndsPop \/ DownEndsFix
      PROVE  /\ OrderDown(heap, at, count, call.item) /\ Arranged(heap, Target, count)
             /\ \A k \in 2 .. count : k # at \/ at # call.item => ~Less(heap, k, k \div 2)
  <2>1. phase = "down" /\ ~Sinks
    BY <1>5 DEF DownEndsPop, DownEndsFix
  <2>2. OrderDown(heap, at, count, call.item) /\ Arranged(heap, Target, count)
    BY <2>1, <1>2 DEF InCall
  <2>3. ASSUME NEW k \in 2 .. count, k \div 2 = at PROVE ~Less(heap, k, k \div 2)
    <3>1. at \in Nat /\ count \in Nat /\ k \in Nat /\ (k = 2 * at \/ k = 2 * at + 1)
      <4>1. at \in Nat /\ count \in Nat /\ k \in Nat
        BY <1>2
      <4>2. QED BY <4>1, <2>3, Halves
    <3>2. at <= count /\ 2 * at <= count
      BY <3>1
    <3>3. Lesser(heap, at, count, Child) /\ Child \in 1 .. count
      BY <3>2, <1>1, ChildIsLesser
    <3>4. ~Less(heap, Child, at) /\ ~Less(heap, k, Child)
      BY <3>2, <3>3, <2>1, <2>3 DEF Sinks, Lesser
    <3>5. /\ heap[k].access \in Nat /\ heap[at].access \in Nat /\ heap[Child].access \in Nat
      <4>1. k \in 1 .. Len(heap) /\ Child \in 1 .. Len(heap)
        BY <3>3, <1>2
      <4>2. QED BY <4>1, <1>2, ItemsOfHeap
    <3>6. QED BY <2>3, <3>4, <3>5 DEF Less
  <2>4. QED BY <2>2, <2>3 DEF OrderDown
<1>6. CASE DownEndsPop
  <2>1. call.op = "pop" /\ heap' = SubSeq(heap, 1, Len(heap) - 1)
    BY <1>6 DEF DownEndsPop
  <2>2. count = Len(heap) - 1 /\ call.item = 1
    BY <2>1, <1>2 DEF InCall
  <2>3. /\ heap' \in Seq(HeapItem) /\ Len(heap') = count /\ DOMAIN heap' = 1 .. count
        /\ \A i \in 1 .. count : i \in 1 .. Len(heap) /\ heap'[i] = heap[i]
        /\ count \in Nat
    BY <2>1, <2>2, <1>2
  <2>4. Distinct(heap')
    BY <2>3, <1>2 DEF Distinct
  <2>5. HeapOrdered(heap')
    <3>1. ASSUME NEW k \in 2 .. count PROVE ~Less(heap', k, k \div 2)
      <4>1. k \in 1 .. count /\ k \div 2 \in 1 .. count
        BY <2>3, Halves
      <4>2. k # at \/ at # call.item
        BY <2>2
      <4>3. ~Less(heap, k, k \div 2)
        BY <4>2, <1>5, <1>6
      <4>4. QED BY <4>1, <4>3, <2>3 DEF Less
    <3>2. QED BY <3>1, <2>3 DEF HeapOrdered
  <2>6. Arranged(heap', Target, count)
    <3>1. PICK p \in [1 .. count -> 1 .. count] : Arranges(p, heap, Target, count)
      BY <1>5, <1>6 DEF Arranged
    <3>2. ASSUME NEW i \in 1 .. count PROVE Items(heap')[i] = Items(heap)[i]
      <4>1. /\ Items(heap')[i] = [key |-> heap'[i].key, access |-> heap'[i].access]
            /\ Items(heap)[i] = [key |-> heap[i].key, access |-> heap[i].access]
        BY <2>3, <1>2, ItemsOfHeap
      <4>2. QED BY <4>1, <2>3
    <3>3. Arranges(p, heap', Target, count)
      BY <3>1, <3>2 DEF Arranges
    <3>4. QED BY <3>1, <3>3, <1>5, <1>6 DEF Arranged
  <2>7. QED BY <2>3, <2>4, <2>5, <2>6, <1>2, <1>3
<1>7. CASE DownEndsFix
  <2>1. call.op = "touch" /\ heap' = heap /\ at # call.item
    BY <1>1, <1>7 DEF DownEndsFix
  <2>2. count = Len(heap)
    BY <2>1, <1>2 DEF InCall
  <2>3. HeapOrdered(heap)
    BY <2>1, <2>2, <1>5, <1>7 DEF HeapOrdered
  <2>4. QED BY <2>1, <2>2, <2>3, <1>2, <1>3, <1>5, <1>7
<1>8. QED BY <1>4, <1>6, <1>7

\* What a call leaves behind is a heap.
LEMMA EndInv ==
  ASSUME HeapInv, UpEnds \/ DownEndsPop \/ DownEndsFix, phase' = "idle"
  PROVE  HeapInv'
<1>1. /\ heap' \in Seq(HeapItem) /\ call' = NoCall /\ before' = <<>> /\ now' = now
      /\ \A i \in 1 .. Len(heap') : heap'[i].index = i
      /\ Distinct(heap') /\ HeapOrdered(heap')
  BY CallEnds
<1>2. now \in ClockValues
  BY HeapFacts
<1>3. HeapTypeOK'
  BY <1>1, <1>2 DEF HeapTypeOK
<1>4. IndexOfItem' /\ KeysDiffer'
  <2>1. DOMAIN heap' = 1 .. Len(heap')
    BY <1>1
  <2>2. QED BY <1>1, <2>1 DEF IndexOfItem, KeysDiffer, Distinct
<1>5. QED BY <1>1, <1>3, <1>4 DEF HeapInv

\* Fix turns round: what was in order for heap.down is in order for heap.up.
LEMMA TurnInv == ASSUME HeapInv, DownEndsFix, phase' # "idle" PROVE HeapInv'
<1>1. /\ phase = "down" /\ ~Sinks /\ call.op = "touch" /\ at = call.item /\ phase' = "up"
      /\ UNCHANGED <<heap, now, call, before, at, count>>
  BY DEF DownEndsFix, Return
<1>2. /\ heap \in Seq(HeapItem) /\ Len(heap) \in Nat
      /\ \A i \in 1 .. Len(heap) : heap[i] \in HeapItem /\ heap[i].index = i
      /\ Distinct(heap) /\ InCall /\ CallType
      /\ at \in 1 .. Len(heap) /\ count \in 0 .. Len(heap)
  BY <1>1, HeapFacts, LoopFacts
<1>3. OrderUp(heap, at, count)
  <2>1. OrderDown(heap, at, count, call.item)
    BY <1>1, <1>2 DEF InCall
  <2>2. ASSUME NEW k \in 2 .. count, k \div 2 = at PROVE ~Less(heap, k, at)
    <3>1. at \in Nat /\ count \in Nat /\ k \in Nat /\ (k = 2 * at \/ k = 2 * at + 1)
      <4>1. at \in Nat /\ count \in Nat /\ k \in Nat
        BY <1>2
      <4>2. QED BY <4>1, <2>2, Halves
    <3>2. at <= count /\ 2 * at <= count
      BY <3>1
    <3>3. Lesser(heap, at, count, Child) /\ Child \in 1 .. count
      BY <3>2, <1>1, ChildIsLesser
    <3>4. ~Less(heap, Child, at) /\ ~Less(heap, k, Child)
      BY <3>2, <3>3, <1>1, <2>2 DEF Sinks, Lesser
    <3>5. /\ heap[k].access \in Nat /\ heap[at].access \in Nat /\ heap[Child].access \in Nat
      <4>1. k \in 1 .. Len(heap) /\ Child \in 1 .. Len(heap)
        BY <3>3, <1>2
      <4>2. QED BY <4>1, <1>2, ItemsOfHeap
    <3>6. QED BY <3>4, <3>5 DEF Less
  <2>3. QED BY <2>1, <2>2 DEF OrderDown, OrderUp
<1>4. Target' = Target
  BY <1>1 DEF Target
<1>5. InCall'
  BY <1>1, <1>2, <1>3, <1>4 DEF InCall
<1>6. CallType'
  BY <1>1, <1>2 DEF CallType
<1>7. /\ heap' \in Seq(HeapItem) /\ at' \in 1 .. Len(heap') /\ count' \in 0 .. Len(heap')
      /\ \A i \in 1 .. Len(heap') : heap'[i].index = i
      /\ Distinct(heap')
  BY <1>1, <1>2
<1>8. QED BY <1>5, <1>6, <1>7, StaysInCall

\* Every step keeps the invariant.
LEMMA HeapStepInv == ASSUME HeapInv, [HeapNext]_heapVars PROVE HeapInv'
<1>1. CASE Tick
  <2>1. phase = "idle" /\ now' \in ClockValues /\ UNCHANGED <<heap, call, before, phase, at, count>>
    BY <1>1 DEF Tick
  <2>2. QED BY <2>1 DEF HeapInv, HeapTypeOK, IndexOfItem, KeysDiffer
<1>2. ASSUME NEW key \in HeapKeys, CallPush(key) PROVE HeapInv'
  BY <1>2, PushInv
<1>3. CASE CallPop
  BY <1>3, PopInv
<1>4. ASSUME NEW i \in DOMAIN heap, CallTouch(i) PROVE HeapInv'
  <2>1. phase = "idle"
    BY <1>4 DEF CallTouch, Begin
  <2>2. QED BY <2>1, <1>4, TouchInv
<1>5. CASE Rise
  BY <1>5, RiseInv
<1>6. CASE Sink
  BY <1>6, SinkInv
<1>7. CASE UpEnds \/ DownEndsPop \/ DownEndsFix
  <2>1. CASE phase' = "idle"
    BY <2>1, <1>7, EndInv
  <2>2. CASE phase' # "idle"
    <3>1. DownEndsFix
      BY <2>2, <1>7 DEF UpEnds, DownEndsPop, Return
    <3>2. QED BY <3>1, <2>2, TurnInv
  <2>3. QED BY <2>1, <2>2
<1>8. CASE UNCHANGED heapVars
  <2>1. UNCHANGED <<heap, now, call, before, phase, at, count>>
    BY <1>8 DEF heapVars
  <2>2. HeapTypeOK' /\ IndexOfItem' /\ KeysDiffer'
    BY <2>1 DEF HeapInv, HeapTypeOK, IndexOfItem, KeysDiffer
  <2>3. InCall => InCall'
    BY <2>1 DEF InCall, Target
  <2>4. QED BY <2>1, <2>2, <2>3 DEF HeapInv
<1>9. QED BY <1>1, <1>2, <1>3, <1>4, <1>5, <1>6, <1>7, <1>8 DEF HeapNext

\* The heap's invariant holds.
THEOREM HeapInvariant == HeapSpec => []HeapInv
<1>1. HeapInit => HeapInv
  BY HeapInitInv
<1>2. HeapInv /\ [HeapNext]_heapVars => HeapInv'
  BY HeapStepInv
<1>3. QED BY <1>1, <1>2, PTL DEF HeapSpec

\* The invariant has the least item at the root.
LEMMA InvIsSound == HeapInv => HeapSound
<1> SUFFICES ASSUME HeapInv PROVE HeapSound
  OBVIOUS
<1>1. HeapTypeOK /\ IndexOfItem /\ KeysDiffer
  BY DEF HeapInv
<1>2. OldestFirst
  BY HeapFacts, RootIsLeast DEF OldestFirst
<1>3. QED BY <1>1, <1>2 DEF HeapSound

\* The items of the heap know their positions and are there once, and between calls
\* the least recently used one is on top, for any keys, times and sequences of calls.
THEOREM HeapIsSound == HeapSpec => []HeapSound
BY HeapInvariant, InvIsSound, PTL

\* What a step that ends a call owes the contract.
CallMet ==
  phase # "idle" /\ phase' = "idle" =>
       CASE call.op = "push" ->
              LET pushed == Pushed(before, call.key, now) IN
              /\ Items(heap') \in Arrangements(pushed)
              /\ (\A t \in Accesses(before) : t <= now) => Items(heap') = pushed
         [] call.op = "pop" -> Head(before).key = call.key /\ Items(heap') \in Popped(before)
         [] call.op = "touch" -> Items(heap') \in Touched(before, call.item, now)

\* Every step that ends a call meets it.
LEMMA EveryCallIsMet == ASSUME HeapInv, [HeapNext]_heapVars PROVE CallMet
<1> SUFFICES ASSUME phase # "idle", phase' = "idle"
             PROVE  CASE call.op = "push" ->
                           LET pushed == Pushed(before, call.key, now) IN
                           /\ Items(heap') \in Arrangements(pushed)
                           /\ (\A t \in Accesses(before) : t <= now) => Items(heap') = pushed
                      [] call.op = "pop" ->
                           Head(before).key = call.key /\ Items(heap') \in Popped(before)
                      [] call.op = "touch" -> Items(heap') \in Touched(before, call.item, now)
  BY DEF CallMet
<1>1. UpEnds \/ DownEndsPop \/ DownEndsFix
  BY DEF HeapNext, heapVars, Tick, CallPush, CallPop, CallTouch, Begin, Rise, Sink
<1>2. CallType /\ InCall /\ heap \in Seq(HeapItem)
  BY HeapFacts, LoopFacts
<1>3. Items(heap') \in Arrangements(Target)
  BY <1>1, CallEnds, ArrangedIsArrangement
<1>4. call.op \in {"push", "pop", "touch"}
  BY <1>2 DEF CallType
<1>5. CASE call.op = "push"
  <2>1. Target = Pushed(before, call.key, now)
    BY <1>5 DEF Target
  <2>2. (\A t \in Accesses(before) : t <= now) => Items(heap) = Target
    BY <1>2, <1>5 DEF InCall
  <2>3. heap' = heap
    BY <1>1, <1>2, <1>5 DEF UpEnds, DownEndsPop, DownEndsFix
  <2>4. QED BY <2>1, <2>2, <2>3, <1>3, <1>5
<1>6. CASE call.op = "pop"
  <2>1. Target = Tail(before) /\ Head(before).key = call.key
    BY <1>2, <1>6 DEF Target, InCall
  <2>2. QED BY <2>1, <1>3, <1>6 DEF Popped
<1>7. CASE call.op = "touch"
  <2>1. Target = [before EXCEPT ![call.item].access = now]
    BY <1>7 DEF Target
  <2>2. QED BY <2>1, <1>3, <1>7 DEF Touched
<1>8. QED BY <1>4, <1>5, <1>6, <1>7

\* push, pop and touch over container/heap do what the cache takes them to do.
THEOREM HeapMeetsContract == HeapSpec => MeetsContract
<1>1. HeapInv /\ [HeapNext]_heapVars => [CallMet]_heapVars
  BY EveryCallIsMet
<1>2. QED BY <1>1, HeapInvariant, PTL DEF HeapSpec, MeetsContract, CallMet
=============================================================================
