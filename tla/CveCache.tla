------------------------------ MODULE CveCache ------------------------------
(***************************************************************************)
(* cvefeed/cvecache.go and cvefeed/evictionqueue.go: the cache that         *)
(* goroutines of cpe2cve and lininfosec share to match CPE names against    *)
(* the CVE dictionary.                                                      *)
(*                                                                          *)
(* A member of Calls is one execution of Cache.Get.  The cachedCVEs entry   *)
(* that a call allocates is named by the call, since a call allocates at    *)
(* most one; waiters keep the pointer after the entry has been              *)
(* evicted from the map.  mu is the mutex: every action that runs inside    *)
(* a locked section needs it free, and the loop of evict, which is the only *)
(* locked section of more than one step, holds it.                          *)
(*                                                                          *)
(* The eviction queue is used through HeapContract, which EvictionHeap, the *)
(* algorithm itself, is proved to meet.                                     *)
(***************************************************************************)
EXTENDS Integers, Sequences, FiniteSets, FiniteSetsExt, HeapContract

CONSTANTS Calls,      \* executions of Get, each by a goroutine of its own
          Keys,       \* cache keys: the sorted CPE names of a request
          EmptyKey,   \* the key "" of a request without a usable CPE name
          None,       \* no entry, no key
          Weight,     \* bytes that updateResSize charges for a key's result
          Limits      \* what SetMaxSize may be given

ASSUME ConstAssumption ==
  /\ None \notin Calls /\ None \notin Keys
  /\ Weight \in [Keys -> Nat \ {0}]
  /\ Limits \subseteq Int

VARIABLES MaxSize,  \* Cache.MaxSize: 0 -- unlimited, negative -- no caching
          pc,       \* where each call is in Get
          req,      \* its key
          held,     \* the entry it computes or waits for
          data,     \* Cache.data: key -> entry
          ready,    \* entries whose ready channel is closed
          esize,    \* cachedCVEs.size
          eindex,   \* cachedCVEs.evictionIndex
          size,     \* Cache.size
          queue,    \* evictionQueue.q: [key, access] in heap order
          clock,    \* time.Now
          mu,       \* the call inside evict's loop, or None
          failure   \* the panic that ended the process, or "none"

vars == <<MaxSize, pc, req, held, data, ready, esize, eindex, size, queue, clock,
          mu, failure>>

Locations == {"idle", "compute", "store", "evict", "push", "close", "wait",
              "nocache", "done"}
Failures  == {"none", "evict", "touch"}
Item      == [key : Keys \cup {EmptyKey}, access : Nat]
EvictBytes == MaxSize \div 10              \* cacheEvictPercentage

\* The position of a key, as evictionData.index holds it.
PositionIn(q, key) == CHOOSE i \in DOMAIN q : q[i].key = key

-----------------------------------------------------------------------------
Init ==
  /\ MaxSize \in Limits
  /\ pc = [c \in Calls |-> "idle"]
  /\ req = [c \in Calls |-> None]
  /\ held = [c \in Calls |-> None]
  /\ data = [k \in Keys |-> None]
  /\ ready = {}
  /\ esize = [c \in Calls |-> 0]
  /\ eindex = [c \in Calls |-> 0]
  /\ size = 0
  /\ queue = <<>>
  /\ clock = 0
  /\ mu = None
  /\ failure = "none"

Goto(c, l) == pc' = [pc EXCEPT ![c] = l]

\* A negative MaxSize: Get calls match and touches nothing else.
LookupUncached(c, k) ==
  /\ pc[c] = "idle" /\ MaxSize < 0
  /\ req' = [req EXCEPT ![c] = k]
  /\ Goto(c, "nocache")
  /\ UNCHANGED <<MaxSize, held, data, ready, esize, eindex, size, queue, clock, mu, failure>>

MatchUncached(c) ==
  /\ pc[c] = "nocache"
  /\ Goto(c, "done")
  /\ UNCHANGED <<MaxSize, req, held, data, ready, esize, eindex, size, queue, clock, mu, failure>>

\* The first locked section when the key has an entry, computed or not.
LookupHit(c, k) ==
  /\ pc[c] = "idle" /\ MaxSize >= 0 /\ mu = None
  /\ data[k] # None
  /\ req' = [req EXCEPT ![c] = k]
  /\ held' = [held EXCEPT ![c] = data[k]]
  /\ Goto(c, "wait")
  /\ UNCHANGED <<MaxSize, data, ready, esize, eindex, size, queue, clock, mu, failure>>

\* The first locked section when the key is new; the map it leaves.
StartComputing(c, k, map) ==
  /\ pc[c] = "idle" /\ MaxSize >= 0 /\ mu = None
  /\ data[k] = None
  /\ req' = [req EXCEPT ![c] = k]
  /\ held' = [held EXCEPT ![c] = c]
  /\ data' = map
  /\ Goto(c, "compute")
  /\ UNCHANGED <<MaxSize, ready, esize, eindex, size, queue, clock, mu, failure>>

\* Faulty variant: the entry is not in the map while it is computed.
LookupMissUnpublished(c, k) == StartComputing(c, k, data)

\* The entry goes into the map before its result is known.
LookupMiss(c, k) == StartComputing(c, k, [data EXCEPT ![k] = c])

\* match and updateResSize, outside the lock.
Compute(c) ==
  /\ pc[c] = "compute"
  /\ esize' = [esize EXCEPT ![c] = Weight[req[c]]]
  /\ Goto(c, "store")
  /\ UNCHANGED <<MaxSize, req, held, data, ready, eindex, size, queue, clock, mu, failure>>

\* The second locked section up to the call of evict; over: whether it is called.
Charge(c, over) ==
  /\ pc[c] = "store" /\ mu = None
  /\ size' = size + esize[c]
  /\ mu' = c
  /\ Goto(c, IF over THEN "evict" ELSE "push")
  /\ UNCHANGED <<MaxSize, req, held, data, ready, esize, eindex, queue, clock, failure>>

\* Faulty variants: the limit is checked before the entry is charged; a limit
\* of 0 is taken for a limit.
StoreCheckedEarly(c) == Charge(c, MaxSize # 0 /\ size > MaxSize)
StoreZeroIsLimit(c)  == Charge(c, size + esize[c] > MaxSize)

Store(c) == Charge(c, MaxSize # 0 /\ size + esize[c] > MaxSize)

\* evictionQueue.pop, "" when there is nothing to pop.
Victim == IF queue = <<>> THEN EmptyKey ELSE Head(queue).key

\* One round of evict's loop, which drops a record and leaves a size.
EvictRound(c, left, kept) ==
  /\ pc[c] = "evict" /\ mu = c
  /\ size + EvictBytes > MaxSize
  /\ Victim \in Keys /\ data[Victim] # None
  /\ IF queue = <<>> THEN UNCHANGED queue ELSE queue' \in Popped(queue)
  /\ size' = left
  /\ data' = kept
  /\ UNCHANGED <<MaxSize, pc, req, held, ready, esize, eindex, clock, mu, failure>>

Without(key) == [data EXCEPT ![key] = None]

\* Faulty variants: the record stays in the map; the bytes of the new entry are
\* taken off instead of its own.
EvictOneKept(c)    == EvictRound(c, size - esize[data[Victim]], data)
EvictOneMixedUp(c) == EvictRound(c, size - esize[c], Without(Victim))

EvictOne(c) == EvictRound(c, size - esize[data[Victim]], Without(Victim))

\* "attempted to evict non-existent record": nothing recovers the panic.
EvictPanic(c) ==
  /\ pc[c] = "evict" /\ mu = c
  /\ size + EvictBytes > MaxSize
  /\ ~ (Victim \in Keys /\ data[Victim] # None)
  /\ failure' = "evict"
  /\ UNCHANGED <<MaxSize, pc, req, held, data, ready, esize, eindex, size, queue, clock, mu>>

\* Faulty variant: the loop goes on at the limit, where EvictOne has stopped.
EvictDoneBelow(c) ==
  /\ pc[c] = "evict" /\ mu = c
  /\ size + EvictBytes < MaxSize
  /\ Goto(c, "push")
  /\ UNCHANGED <<MaxSize, req, held, data, ready, esize, eindex, size, queue, clock, mu, failure>>

EvictDone(c) ==
  /\ pc[c] = "evict" /\ mu = c
  /\ size + EvictBytes <= MaxSize
  /\ Goto(c, "push")
  /\ UNCHANGED <<MaxSize, req, held, data, ready, esize, eindex, size, queue, clock, mu, failure>>

\* The end of the second locked section; the index that push returns.
PushEntry(c) ==
  /\ pc[c] = "push" /\ mu = c
  /\ queue' = Pushed(queue, req[c], clock)
  /\ clock' = clock + 1
  /\ eindex' = [eindex EXCEPT ![c] = Len(queue) + 1]
  /\ mu' = None
  /\ Goto(c, "close")
  /\ UNCHANGED <<MaxSize, req, held, data, ready, esize, size, failure>>

\* close(cves.ready), then return.
CloseReady(c) ==
  /\ pc[c] = "close"
  /\ ready' = ready \cup {c}
  /\ Goto(c, "done")
  /\ UNCHANGED <<MaxSize, req, held, data, esize, eindex, size, queue, clock, mu, failure>>

\* A waiter's last locked section, once the channel it waits on is closed:
\* the item at the entry's evictionIndex is refreshed, whatever it is.
Touch(c) ==
  /\ pc[c] = "wait" /\ held[c] \in ready /\ mu = None
  /\ eindex[held[c]] <= Len(queue)
  /\ LET i == eindex[held[c]] IN
       /\ queue' \in Touched(queue, i, clock)
       /\ eindex' = [eindex EXCEPT ![held[c]] = PositionIn(queue', queue[i].key)]
  /\ clock' = clock + 1
  /\ Goto(c, "done")
  /\ UNCHANGED <<MaxSize, req, held, data, ready, esize, size, mu, failure>>

\* eq.q[index] out of range.
TouchPanic(c) ==
  /\ pc[c] = "wait" /\ held[c] \in ready /\ mu = None
  /\ eindex[held[c]] > Len(queue)
  /\ failure' = "touch"
  /\ UNCHANGED <<MaxSize, pc, req, held, data, ready, esize, eindex, size, queue, clock, mu>>

\* Every caller has its answer, or the process is gone.
Stopped ==
  /\ failure # "none" \/ \A c \in Calls : pc[c] = "done"
  /\ UNCHANGED vars

CallStep(c) ==
  \/ MatchUncached(c) \/ Compute(c) \/ Store(c)
  \/ EvictOne(c) \/ EvictPanic(c) \/ EvictDone(c) \/ PushEntry(c)
  \/ CloseReady(c) \/ Touch(c) \/ TouchPanic(c)

Next ==
  \/ /\ failure = "none"
     /\ \E c \in Calls :
          \/ \E k \in Keys : LookupUncached(c, k) \/ LookupHit(c, k) \/ LookupMiss(c, k)
          \/ CallStep(c)
  \/ Stopped

Spec == Init /\ [][Next]_vars

\* A goroutine inside Get is scheduled until it returns; nothing makes a
\* caller call Get.
FairSpec == Spec /\ \A c \in Calls : WF_vars(failure = "none" /\ CallStep(c))

-----------------------------------------------------------------------------
TypeOK ==
  /\ MaxSize \in Limits
  /\ pc \in [Calls -> Locations]
  /\ req \in [Calls -> Keys \cup {None}]
  /\ held \in [Calls -> Calls \cup {None}]
  /\ data \in [Keys -> Calls \cup {None}]
  /\ ready \subseteq Calls
  /\ esize \in [Calls -> Nat]
  /\ eindex \in [Calls -> Nat]
  /\ size \in Int
  /\ queue \in Seq(Item)
  /\ clock \in Nat
  /\ mu \in Calls \cup {None}
  /\ failure \in Failures

\* Calls whose computation is not in the eviction queue yet, and calls whose
\* entry has been pushed.
InFlight == {c \in Calls : pc[c] \in {"compute", "store", "evict", "push"}}
Stored   == {c \in Calls : pc[c] \in {"close", "done"} /\ held[c] = c}
QueuedKeys == {queue[i].key : i \in DOMAIN queue}

\* No two goroutines compute the same key at the same time: "first request; the
\* goroutine that sent it computes the value", the others wait.
SingleFlight ==
  \A c, d \in InFlight : req[c] = req[d] => c = d

\* What a call returns was computed for the key it asked for, also when the
\* entry it waited for has been evicted and recomputed meanwhile.
OwnAnswer ==
  \A c \in Calls : held[c] # None => req[held[c]] = req[c] /\ held[held[c]] = held[c]

\* The eviction queue has the key of every pushed entry of the map exactly once
\* and of no other, so that evict finds the record of what it pops.
QueueIsData ==
  /\ QueuedKeys = {k \in Keys : data[k] \in Stored}
  /\ \A i, j \in DOMAIN queue : queue[i].key = queue[j].key => i = j

\* Cache.size is what the pushed entries weigh, and the entry being stored, so that
\* evict panics only for a result that leaves less than its reserve in an otherwise
\* empty cache.
Accounting ==
  /\ size = MapThenSumSet(LAMBDA k : Weight[k], QueuedKeys)
            + (IF mu = None THEN 0 ELSE Weight[req[mu]])
  /\ failure = "evict" => Weight[req[mu]] + EvictBytes > MaxSize

\* Whenever the lock is free, the cache is within its limit.
Bounded == MaxSize > 0 /\ mu = None => size <= MaxSize

\* An unlimited cache never panics: without eviction no index leaves the queue.
UnlimitedNeverFails == MaxSize = 0 => failure = "none"

\* Every call of Get returns, unless the process panics.
EveryCallReturns ==
  \A c \in Calls : pc[c] # "idle" ~> (pc[c] = "done" \/ failure # "none")

\* The cache keeps the promise of MemoCache when caching is on and every request
\* has a usable CPE name.
Memo == INSTANCE MemoCache WITH
  want      <- req,
  answered  <- {c \in Calls : pc[c] = "done"},
  computing <- {req[c] : c \in InFlight},
  cached    <- QueuedKeys,
  known     <- {req[c] : c \in Stored}

ImplementsMemo == Memo!MSpec

-----------------------------------------------------------------------------
(* What the comments of the code say and the code does not do.             *)

\* cvecache.go:231, "or no more records left": evict stops on an empty queue.
EvictStopsWhenEmpty == failure # "evict"

\* cvecache.go:68, "position in eviction queue": of the entry's own key.
IndexIsPosition ==
  \A k \in Keys :
    data[k] \in Stored => /\ eindex[data[k]] \in DOMAIN queue
                         /\ queue[eindex[data[k]]].key = k
=============================================================================
