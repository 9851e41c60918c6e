------------------------------ MODULE Monitor ------------------------------
(* cmd/lininfosec: the service's database and the goroutines that use it.
   HTTP handlers change the monitored configurations, ImportCron writes the CPE
   dictionary, NotificationCron records and posts what it has not posted yet.
   InnoDB runs the writes of a transaction as one step (row locks are held until
   the commit) and enforces the foreign keys; a SELECT before them is a snapshot
   that may be stale when they run.                                          *)
EXTENDS Integers, Sequences, FiniteSets

CONSTANTS Names,        \* configurationUid of the clients
          Items,        \* sequence of CPEs: the dictionary file
          Cves,         \* CVEs of the recent and modified feeds
          Affected,     \* set of <<cve, cpe>>: cpe matches cve
          BatchSize,    \* dictionary items per REPLACE (128 in the code)
          Handlers,     \* concurrent HTTP requests
          Wrong,        \* subset of BOOLEAN: whether requests have another method
          MaxRequests, MaxImports, MaxFaults, MaxCrashes   \* bounds

Cpes == {Items[i] : i \in 1 .. Len(Items)}
ASSUME MonitorAssumption ==
  /\ Names # {} /\ Items \in Seq(Cpes)
  /\ Affected \subseteq Cves \X Cpes /\ Wrong \subseteq BOOLEAN
  /\ BatchSize \in Nat \ {0} /\ MaxRequests \in Nat /\ MaxImports \in Nat
  /\ MaxFaults \in Nat /\ MaxCrashes \in Nat

Feeds == {"recent", "modified"}

VARIABLES
  configs,      \* monitored_configurations
  monitored,    \* cpe_monitored: set of <<name, cpe>>
  dict, refs,   \* cpe_dict, and the CPEs with rows in cpe_references
  notified,     \* cves_notified: set of <<name, cve>>
  handler,      \* the request each handler serves
  import,       \* ImportDictionnary: its step, position and batch
  round, found, toPost,   \* NotificationCron: its step, matches, new matches
  requests, imports, faults, crashes,
  gen,          \* history: how often each name was removed
  posted, twice, \* history: what was posted, and whether something twice
  raced         \* history: a configuration was removed under a round

tables == <<configs, monitored, dict, refs, notified>>
notify == <<round, found, toPost, posted, twice, raced>>
vars == <<configs, monitored, dict, refs, notified, handler, import, round, found,
          toPost, requests, imports, faults, crashes, gen, posted, twice, raced>>

NoRequest == [pc |-> "idle", op |-> "add", wrong |-> FALSE, name |-> CHOOSE n \in Names : TRUE,
              cpes |-> {}, answer |-> "none"]
NoImport == [pc |-> "rest", i |-> 0, batch |-> {}, done |-> FALSE]

Init ==
  /\ dict \in {{}, Cpes} /\ refs = dict /\ notified = {}
  /\ configs \in {{}, {CHOOSE n \in Names : TRUE}} /\ monitored = configs \X dict
  /\ dict = {} => configs = {}
  /\ handler = [h \in Handlers |-> NoRequest]
  /\ import = NoImport
  /\ round = "rest" /\ found = {} /\ toPost = {}
  /\ requests = 0 /\ imports = 0 /\ faults = 0 /\ crashes = 0
  /\ gen = [n \in Names |-> 0] /\ posted = {} /\ twice = FALSE /\ raced = FALSE

Fault == faults < MaxFaults /\ faults' = faults + 1

-----------------------------------------------------------------------------
(* Requests.  A handler writes its 404 for another method and goes on.       *)
Begin(h) ==
  /\ handler[h].pc = "idle" /\ requests < MaxRequests
  /\ requests' = requests + 1
  /\ \E op \in {"add", "update", "remove"}, n \in Names, w \in Wrong, cs \in SUBSET Cpes :
       /\ op = "remove" => cs = {}
       /\ handler' = [handler EXCEPT ![h] =
            [pc |-> "check", op |-> op, wrong |-> w, name |-> n, cpes |-> cs, answer |-> "none"]]
  /\ UNCHANGED <<tables, import, notify, imports, faults, crashes, gen>>

\* http.Error after the first WriteHeader only adds to the body
Reply(h, a) ==
  handler' = [handler EXCEPT ![h] =
                [NoRequest EXCEPT !.answer = IF handler[h].wrong THEN "refused" ELSE a]]

Exists(r) == r.name \in configs
\* the early returns: no CPEs; or a configuration that the snapshot lacks
Refuses(r) == IF r.op = "remove" THEN ~Exists(r)
              ELSE r.cpes = {} \/ (r.op = "update" /\ ~Exists(r))

Check(h) ==
  /\ handler[h].pc = "check"
  /\ IF Refuses(handler[h]) THEN Reply(h, "bad")
     ELSE handler' = [handler EXCEPT ![h].pc = "apply"]
  /\ UNCHANGED <<tables, import, notify, requests, imports, faults, crashes, gen>>

CpesOf(n) == {c \in Cpes : <<n, c>> \in monitored}
Others(n) == {m \in monitored : m[1] # n}

\* INSERT: the name is new; the foreign keys of the CPEs hold
AddConfiguration(r) ==
  /\ r.op = "add" /\ ~Exists(r) /\ r.cpes \subseteq dict
  /\ configs' = configs \cup {r.name}
  /\ monitored' = monitored \cup ({r.name} \X r.cpes)
  /\ UNCHANGED <<notified, gen, raced>>

\* Faulty variant: the old rows are kept.
UpdateConfigurationKeeps(r) ==
  /\ r.op = "update" /\ Exists(r) /\ r.cpes \subseteq dict
  /\ monitored' = monitored \cup ({r.name} \X r.cpes)
  /\ UNCHANGED <<configs, notified, gen, raced>>

\* DELETE, then INSERT: the foreign keys of the CPEs and of the name hold
UpdateConfiguration(r) ==
  /\ r.op = "update" /\ Exists(r) /\ r.cpes \subseteq dict
  /\ monitored' = Others(r.name) \cup ({r.name} \X r.cpes)
  /\ UNCHANGED <<configs, notified, gen, raced>>

\* DELETE of both tables; cves_notified follows by its foreign key
DeleteConfiguration(r) ==
  /\ r.op = "remove"
  /\ configs' = configs \ {r.name} /\ monitored' = Others(r.name)
  /\ notified' = {p \in notified : p[1] # r.name}
  /\ gen' = IF Exists(r) THEN [gen EXCEPT ![r.name] = @ + 1] ELSE gen
  /\ raced' = (raced \/ (Exists(r) /\ \E q \in found : q[1] = r.name))

Apply(h) ==
  /\ handler[h].pc = "apply"
  /\ LET r == handler[h] IN
       AddConfiguration(r) \/ UpdateConfiguration(r) \/ DeleteConfiguration(r)
  /\ Reply(h, "ok")
  /\ UNCHANGED <<dict, refs, import, round, found, toPost, posted, twice,
                 requests, imports, faults, crashes>>

ApplyFails(h) ==
  /\ handler[h].pc = "apply"
  /\ LET r == handler[h] IN
       \/ UNCHANGED faults /\ r.op = "add" /\ (Exists(r) \/ ~(r.cpes \subseteq dict))
       \/ UNCHANGED faults /\ r.op = "update" /\ (~Exists(r) \/ ~(r.cpes \subseteq dict))
       \/ Fault
  /\ Reply(h, "bad")
  /\ UNCHANGED <<tables, import, notify, requests, imports, crashes, gen>>

\* the answer to GET: the CPEs, or an error when there are none
GetConfiguration(n) == [ok |-> CpesOf(n) # {}, cpes |-> CpesOf(n)]

-----------------------------------------------------------------------------
(* ImportDictionnary: the items in batches; a batch is written by a REPLACE of
   cpe_dict and one of cpe_references, each a transaction of its own.        *)
ImportStart ==
  /\ import.pc = "rest" /\ imports < MaxImports
  /\ imports' = imports + 1
  /\ import' = [pc |-> "loop", i |-> 0, batch |-> {}, done |-> FALSE]
  /\ UNCHANGED <<tables, handler, notify, requests, faults, crashes, gen>>

Last == import.i = Len(Items)
FlushDue == import.i # 0 /\ import.i % BatchSize = 0
ImportItem ==
  /\ import.pc = "loop" /\ ~Last
  /\ import.batch = {} \/ ~FlushDue
  /\ import' = [import EXCEPT !.i = @ + 1, !.batch = @ \cup {Items[import.i + 1]}]
  /\ UNCHANGED <<tables, handler, notify, requests, imports, faults, crashes, gen>>

ImportFlush ==
  /\ import.pc = "loop" /\ (Last \/ (FlushDue /\ import.batch # {}))
  /\ import' = [import EXCEPT !.pc = "dict"]
  /\ UNCHANGED <<tables, handler, notify, requests, imports, faults, crashes, gen>>

\* REPLACE deletes the rows it finds, and with them what refers to them
ReplaceDict ==
  /\ import.pc = "dict"
  /\ import' = [import EXCEPT !.pc = "refs"]
  /\ dict' = dict \cup import.batch
  /\ refs' = refs \ import.batch
  /\ monitored' = {m \in monitored : m[2] \notin import.batch}
  /\ UNCHANGED <<configs, notified, handler, notify, requests, imports, faults, crashes, gen>>

ReplaceRefs ==
  /\ import.pc = "refs"
  /\ refs' = refs \cup import.batch
  /\ import' = IF Last THEN [import EXCEPT !.pc = "rest", !.batch = {}, !.done = TRUE]
               ELSE [import EXCEPT !.pc = "loop", !.batch = {}]
  /\ UNCHANGED <<configs, monitored, dict, notified, handler, notify, requests,
                 imports, faults, crashes, gen>>

ImportFails ==
  /\ import.pc \in {"loop", "dict", "refs"} /\ Fault
  /\ import' = NoImport
  /\ UNCHANGED <<tables, handler, notify, requests, imports, crashes, gen>>

-----------------------------------------------------------------------------
(* NotificationCron: Notifications() finds what matches the monitored CPEs in
   either feed (NotifyPipeline: it may miss some), records each new pair in a
   transaction of its own and returns them; then they are posted.            *)
Match ==
  /\ round = "rest"
  /\ \E inFeed \in [Feeds -> SUBSET Cves] :
       found' \in SUBSET {q \in Names \X Cves \X Feeds :
         /\ q[2] \in inFeed[q[3]]
         /\ \E c \in CpesOf(q[1]) : <<q[2], c>> \in Affected}
  /\ round' = "filter" /\ toPost' = {}
  /\ UNCHANGED <<tables, handler, import, posted, twice, raced, requests, imports,
                 faults, crashes, gen>>

NotFound(q) == <<q[1], q[2]>> \notin notified
\* what is posted belongs to the configuration as it was added last
Notice(q) == <<q[1], q[2], gen[q[1]]>>

\* Faulty variant: a known pair ends the loop, not its round.
FilterKnownEnds ==
  /\ round = "filter"
  /\ \E q \in found : ~NotFound(q)
  /\ round' = "rest" /\ found' = {} /\ toPost' = {}
  /\ UNCHANGED <<tables, handler, import, posted, twice, raced, requests, imports,
                 faults, crashes, gen>>

FilterKnown ==
  /\ round = "filter"
  /\ \E q \in found : ~NotFound(q) /\ found' = found \ {q}
  /\ UNCHANGED <<tables, handler, import, round, toPost, posted, twice, raced,
                 requests, imports, faults, crashes, gen>>

\* Faulty variant: what is new is returned without being recorded.
FilterNewUnrecorded ==
  /\ round = "filter"
  /\ \E q \in found :
       /\ NotFound(q) /\ q[1] \in configs
       /\ toPost' = toPost \cup {Notice(q)}
       /\ found' = found \ {q}
  /\ UNCHANGED <<tables, handler, import, round, posted, twice, raced, requests,
                 imports, faults, crashes, gen>>

FilterNew ==
  /\ round = "filter"
  /\ \E q \in found :
       /\ NotFound(q) /\ q[1] \in configs
       /\ notified' = notified \cup {<<q[1], q[2]>>}
       /\ toPost' = toPost \cup {Notice(q)}
       /\ found' = found \ {q}
  /\ UNCHANGED <<configs, monitored, dict, refs, handler, import, round, posted,
                 twice, raced, requests, imports, faults, crashes, gen>>

(* An error, or a configuration removed in the meantime (its foreign key): the
   pairs recorded before are dropped with the result, and null is posted.
   (After an error of the SELECT itself, rows is nil and Close panics: Crash.) *)
FilterFails ==
  /\ round = "filter" /\ found # {}
  /\ \/ UNCHANGED faults /\ \E q \in found : q[1] \notin configs /\ NotFound(q)
     \/ Fault
  /\ round' = "rest" /\ found' = {} /\ toPost' = {}
  /\ UNCHANGED <<tables, handler, import, posted, twice, raced, requests, imports,
                 crashes, gen>>

FilterDone ==
  /\ round = "filter" /\ found = {}
  /\ round' = "post"
  /\ UNCHANGED <<tables, handler, import, found, toPost, posted, twice, raced,
                 requests, imports, faults, crashes, gen>>

Post ==
  /\ round = "post"
  /\ twice' = (twice \/ toPost \cap posted # {})
  /\ posted' = posted \cup toPost
  /\ round' = "rest" /\ toPost' = {}
  /\ UNCHANGED <<tables, handler, import, found, raced, requests, imports, faults,
                 crashes, gen>>

\* the error is logged and the notifications are gone
PostFails ==
  /\ round = "post" /\ Fault
  /\ round' = "rest" /\ toPost' = {}
  /\ UNCHANGED <<tables, handler, import, found, posted, twice, raced, requests,
                 imports, crashes, gen>>

(* The process dies and is started again; open transactions are rolled back. *)
Crash ==
  /\ crashes < MaxCrashes /\ crashes' = crashes + 1
  /\ handler' = [h \in Handlers |-> NoRequest]
  /\ import' = NoImport
  /\ round' = "rest" /\ found' = {} /\ toPost' = {}
  /\ UNCHANGED <<tables, posted, twice, raced, requests, imports, faults, gen>>

-----------------------------------------------------------------------------
Serve(h) == Check(h) \/ Apply(h) \/ ApplyFails(h)
Import == \/ ImportStart \/ ImportItem \/ ImportFlush \/ ReplaceDict \/ ReplaceRefs \/ ImportFails
Notify == \/ Match \/ FilterKnown \/ FilterNew \/ FilterFails \/ FilterDone
          \/ Post \/ PostFails
Next ==
  \/ \E h \in Handlers : Begin(h) \/ Serve(h)
  \/ Import \/ Notify \/ Crash

Spec == Init /\ [][Next]_vars
-----------------------------------------------------------------------------
\* The tables and the goroutines' variables keep their types.
TypeOK ==
  /\ configs \subseteq Names /\ monitored \subseteq Names \X Cpes
  /\ dict \subseteq Cpes /\ refs \subseteq dict
  /\ notified \subseteq Names \X Cves
  /\ handler \in [Handlers -> [pc : {"idle", "check", "apply"},
        op : {"add", "update", "remove"}, wrong : BOOLEAN, name : Names,
        cpes : SUBSET Cpes, answer : {"none", "ok", "bad", "refused"}]]
  /\ import \in [pc : {"rest", "loop", "dict", "refs"}, i : 0 .. Len(Items),
                 batch : SUBSET Cpes, done : BOOLEAN]
  /\ Cardinality(import.batch) <= BatchSize
  /\ round \in {"rest", "filter", "post"}
  /\ found \subseteq Names \X Cves \X Feeds
  /\ gen \in [Names -> Nat]
  /\ toPost \subseteq Names \X Cves \X Nat
  /\ posted \subseteq Names \X Cves \X Nat
  /\ twice \in BOOLEAN /\ raced \in BOOLEAN
  /\ requests \in 0 .. MaxRequests /\ imports \in 0 .. MaxImports
  /\ faults \in 0 .. MaxFaults /\ crashes \in 0 .. MaxCrashes

(* A vulnerability is posted at most once for a configuration as long as that
   is not removed, though rounds match it again and again in two feeds, fail
   half-way and are cut short by crashes.                                    *)
AtMostOnce == ~twice

(* A recorded pair was posted, or is about to be, unless a database error, a
   failed POST, a crash or the removal of a configuration came in between.   *)
Disturbed == faults > 0 \/ crashes > 0 \/ raced
RecordedIsPosted ==
  ~Disturbed => \A p \in notified : \E g \in 0 .. gen[p[1]] :
                   <<p[1], p[2], g>> \in posted \cup toPost

(* An import that succeeds has written every item and its references, also
   those of the last, smaller batch.                                         *)
ImportIsComplete == import.done => dict = Cpes /\ refs = Cpes

(* In every state the tables keep their foreign keys and a batch its size, imports that
   are done are complete, and nothing has been posted twice.                 *)
Inv == TypeOK /\ ImportIsComplete /\ AtMostOnce

(* A request answered with success has done what it asked for, whatever other
   requests did between its check and its writes.                            *)
OkMeansDone ==
  [][\A h \in Handlers :
       LET r == handler[h] IN
       r.pc # "idle" /\ handler'[h].answer = "ok" =>
         /\ {c \in Cpes : <<r.name, c>> \in monitored'} = r.cpes
         /\ r.name \in configs' <=> r.op # "remove"]_vars

(* "/monitor/get": a configuration that exists is returned with its CPEs.    *)
ExistingIsReturned == \A n \in configs : GetConfiguration(n).ok

(* A request refused for its method changes no table.                        *)
RefusedChangesNothing ==
  [][\A h \in Handlers :
       handler[h].pc # "idle" /\ handler'[h].answer = "refused" => UNCHANGED tables]_vars

(* cves_notified is the history of the notifications: what it lists was posted. *)
NotifiedWasPosted ==
  round = "rest" => \A p \in notified : \E g \in 0 .. gen[p[1]] :
                      <<p[1], p[2], g>> \in posted
=============================================================================
