# nvdtools in TLA+

nvdtools is a collection of Go tools around the National Vulnerability Database:
they download the feeds, convert vendors' vulnerability data to the NVD format,
match inventories of CPE names against the vulnerabilities, and keep vulnerability
data in SQL databases. This directory holds TLA+ models of its components, the TLC
runs that check them, and TLAPS proofs.

Naming: `X.tla` is the model of a component, `MCX.tla` its instances for TLC,
`X_<question>.cfg` one run, `X_v_<question>.cfg` a run that shows a disagreement
between the code and one of its comments or documents, `X_proofs.tla` the theorems.
Operators introduced by a comment `Faulty variant` are plausible bugs; no
specification uses them: they are there to show that a property notices the bug.

## Inventory

| component | state it keeps | operations | hard part | what makes it correct |
|---|---|---|---|---|
| CVE match cache (`cvefeed/cvecache.go`, `evictionqueue.go`) | map of entries, eviction heap, size, mutex, a channel per entry | `Get` by many goroutines, `evict` | lookups, computations, evictions and touches interleave | one computation per key, every waiter woken, map, queue and size agree, the limit is kept |
| Feed loading, dictionary, override (`cvefeed/feed.go`, `dictionary.go`) | dictionaries | `LoadFeed`, `Override` | a goroutine per file, two collectors | nothing lost between workers and collectors |
| CPE matching (`cvefeed/nvd/match_*.go`, `smartvercmp.go`, `wfn/matching.go`) | none | trees of AND/OR/NOT over CPE matchers, version ranges | the algebra of name comparison, version order | agrees with a reference definition |
| cpe2cve pipeline (`cmd/cpe2cve`) | channels, workers | CSV in, matched rows out | worker pool around one cache | each input row is answered, the output ends |
| Feed synchronisation (`providers/nvd`, `cmd/nvdsync`) | files on disk: data, meta, etag, backups, temporaries | `cveFile.Sync`, `cpeFile.Sync`, `Sync.Do` | crash or failure between two renames, non-atomic copy | a later run repairs what an earlier one left |
| lininfosec notifier (`cmd/lininfosec/notify.go`) | channels, `cves_notified` table | `Notifications`, `NotificationCron` | a pipeline of bounded channels, record before send | every new CVE reported, the round ends |
| lininfosec monitor (`cmd/lininfosec/monitor.go`, schema) | configurations, monitored CPEs, foreign keys | Add, Update, Delete, Get | transactions racing the dictionary import | what the client was told is what is stored |
| CPE dictionary import (`cmd/lininfosec/dictionnary.go`) | `cpe_dict`, `cpe_references` | `ImportDictionnary` in batches of 128 | REPLACE and ON DELETE CASCADE | import does not change what is monitored |
| Vulnerability database (`vulndb`, `cmd/vulndb`) | vendor versions, vendor data, custom data, snoozes | import, trim, export, custom, snooze, summary | import and trim run by different processes | the latest ready version of every provider is complete |
| API client, retries, throttling (`providers/lib`) | token channel, retry counters | `Get`, `execute`, `Allow` | retry and back-off, token accounting | at most `retries + 1` requests, rate kept |
| Vendor downloads (`providers/*/api`) | channels, error groups | `FetchAll...` | fan-out over pages with cancellation | all or an error, no goroutine left behind |
| Provider runner (`providers/lib/runner`) | channels, maps | download / read / convert | producers and one consumer | every record converted or logged |
| Converters (`providers/*/schema`, `cmd/*2nvd`, `cmd/csv2cpe`, `rpm2cpe`, `wfnconvert`) | none | pure functions | formats | shape of the output |
| rpm and Red Hat checks (`rpm`, `providers/redhat/check`, feeds) | none | `LabelCompare`, `checkCVE`, `checkPkg` | version order | order axioms, fixed versus affected |
| CVSS (`cvss2`, `cvss3`) | metrics | scores, vectors | rounding | ranges, vector round trip |
| WFN (`wfn`, `cpedict`) | none | bind / unbind, set comparison, lookup | escaping, wildcards | comparison table |
| statistics (`stats`) | counters | increments, `Clear`, write | locks not taken by `Clear` and write | counts not lost |

Interactions. `nvdsync` and `lininfosec` write feed files that `cvefeed.LoadFeed`
reads. `cpe2cve`, `lininfosec` and `csv2cpe`-style tools share `cvefeed.Cache`. The
notifier reads the monitor's tables, which reference the dictionary the import
replaces. The vendor tools feed `vulndb import`, whose exports become feeds for
`cpe2cve`. Every download goes through `providers/lib/client`.

The code has no timeouts of its own on channels; failures are HTTP errors, SQL
errors, file errors and process crashes.

## Plan

Ordered by how much of the system rests on the component. What the project has:

1. `CveCache` with `MemoCache`, `HeapContract`, `EvictionHeap`, proofs.
2. `NvdSync`: CVE and CPE feeds, failures, crashes, restarts.
3. `NotifyPipeline`: lininfosec's notification round.
4. `VulnDB` with `VendorStore`: import and trim by concurrent processes, proofs.
5. `Monitor`: configurations, the dictionary import, what is posted.
6. `LoadFeed` and `Cpe2Cve`, which composes it with `CveCache`: the command from end to end.
7. `Download` (the seven clients and the runner), `ApiClient` (retries and throttling).
8. `VulnExport`: overrides, snoozes, exports, edits and the summary; `VulnCommands`: the
   commands in any order.
9. `Matchers`, `Lookup` and `Matching`: from configurations to the answers of requests.
10. The algorithms: `Cvss2`, `Cvss3` on `CvssVector` and `FixedPoint`, `Versions`, `Wfn`,
    `WfnBinding`, `FeedDiff`, `FixedPackages`, `OutputRow`, checked together in
    `MCAlgorithms`.

All of them but the last have their theorems (below), in eight `_proofs` modules; of the
last, comparison of names and of feeds has. What is left are the functions that are
recursive over text (bindings, patterns, version strings) and the scores, which stay with
TLC, and the parts of the inventory that the last section names.

## Models

### CveCache, EvictionHeap, HeapContract, MemoCache

`CveCache` is `Cache.Get` and everything it calls, for goroutines that run it
concurrently. A member of `Calls` is one execution of `Get`. The steps are the
locked sections of the code: the lookup (`LookupUncached`, `LookupHit`,
`LookupMiss`), the match, which runs unlocked (`Compute`, `MatchUncached`), the
second locked section (`Store`, then `EvictOne` until `EvictDone`, or `EvictPanic`,
then `PushEntry`), the `close(ready)` (`CloseReady`) and the waiter's second half
(`Touch`, `TouchPanic`). `evict` runs under the lock, so its rounds exclude every
step that needs the mutex; `mu` says who is in it. Keys are model values, the result
of a match is abstracted to its weight.

`HeapContract` says what `push`, `pop` and `touch` of the eviction queue leave
behind: some heap-ordered arrangement of the items they should. `EvictionHeap` is the
algorithm itself, a comparison and swap of Go's `container/heap` at a time (`Rise` for
`up`, `Sink` for `down`, over `evictionHeap.Swap`, `Push`, `Pop`), and `MeetsContract` says
that what a call does from its first step to its last is what the contract allows; so the
cache's model can use the contract, which leaves more orders open, in place of the
algorithm. There the clock may stand still between two accesses, as `time.Now` may, or be
set back.

`MemoCache` is the promise: asked keys are computed by one party at a time, answers
are given only for what was computed for that key, cached results may be dropped.
`ImplementsMemo` maps the cache's variables to it.

### LoadFeed, Cpe2Cve

`LoadFeed` is one call of the function: a goroutine per file that reads (and fails or
not) and sends, the two collectors behind their channels, and `Loaded`, the return
after the last of them. What the dictionary has of a CVE is the file it came from, so
that "the last feed to arrive stays" is visible.

`Cpe2Cve` EXTENDS both `CveCache` and `LoadFeed` and is the whole command: `stage` is
`Main`'s place; the feeds are loaded, then the overrides; `ReadRecord` hands a record to
a worker; a record that reaches `Get` is a call of `CveCache`, whose steps are taken as
they are; a worker sends the matches (`left`) one by one, the writer writes them, the
input channel, workers, output channel and writer end in the code's order (`CloseOut`,
`WriterEnds`, ...). The input may fail once or for good, the output for good, the memory
profile may not be created. What `Get` returns is computed from the dictionary and the
overrides as loaded, so a missing feed or a stale result would show in the rows.

### Download, ApiClient

`Download` is `Runner.Run` with one of the vendors' clients, picked by `kind`. They share
their variables (pages, entries, a channel of identifiers, a channel of results, an
error group's contexts) and differ in sets of kinds: who makes a first request that
counts (`First`, `Counted`), who requests a page after the one before it (`Chained`),
whose error cancels a group (`Grouped`), who starts a goroutine per entry (`Spawning`).
`"files"` is the runner's own reading of files. `PageFails` and `ItemFails` are requests
that fail, at any time, and `goesOn` is `NVD_CONTINUE_DOWNLOADING`.

`ApiClient` is what each of these requests goes through: the limiter with its ticker,
its filler and its channel of tokens; the retry loop with its doubling delay; the
request that is to fail for debugging. Time is `Tick`, the limiter's period over its
requests; a sleep is a number of them. `surplus` counts requests ahead of the ticks and
is what "rate" means: over any stretch of time it never exceeds the burst.

### VulnExport, VulnCommands

`VulnExport` has operators on a record of the four tables: what is exported under filters, what an
override hides, imports of overrides (`REPLACE` on a key that is the CVE alone),
deletions, `vulndb edit`, snoozes and the summary. They are queries and single
statements, so their hazards are in what one leaves for the next. `VulnCommands` is the
machine of them: one statement per action, by any provider and on any CVEs, among versions
that are made, filled, get ready and go, whatever importers and trimmers of `VulnDB` there
are behind them. An edit that goes back to an older export is an `ImportOverrides`. What
`ExportSound` says, of exports under any filters and of the next command, holds between any
two statements.

### Matchers, Lookup, Matching

`Matchers` builds the tree of matchers from a configuration as `nodeMatcher` does, with
what cannot be used left out, and matches names; a configuration is a sequence of nodes
that refer to later ones. `Overridden` is the override's matcher. `Lookup` adds the index
by product and the cache's key. `Matching` is the machine: feeds are loaded, then
overrides, overrides are applied, the index is made or not, and any lists of names are
matched, with or without a required version. The answers are those of `Get` before any
caching, which is `CveCache`'s subject. `MatchersSound` says that a vulnerability is found
by a request just when its configuration's formula holds of the names and no override takes
all of them away, that the index finds what is found without it, and how the option and what
cannot be parsed change an answer. The dictionary is that of one provider. Clauses that do not
hold of configurations with a negated node have `HasNegation` as a premise: such a node
finds something unless it matches every name, which is no formula over the CPEs, and may
find names of products that the index has never seen.

### The algorithms

`MCAlgorithms` has what runs in one goroutine. A behaviour picks an algorithm and an input,
and the invariants state what the algorithm makes of it against a definition written
another way; or it picks one of the three machines `EvictionHeap`, `VulnCommands` and
`Matching`, which then takes its steps.

* `FixedPoint` computes in scaled integers what the code computes in floats. Where
  rounding to a decimal depends on the last bit of a float, both outcomes are in the
  result set, and a property holds of either. `CvssVector` has codes, parsing, text and
  absorption over a table of metrics; `Cvss2` and `Cvss3` are tables and formulas of all
  metrics.
* `Versions` has both orders: `smartVerCmp` of the matchers and `LabelCompare` of rpm.
* `Wfn` has `matchStr`'s backtracking, comparison (the cases in the order of the code's
  `switch`) and matching of names; `WfnBinding` the
  URI and formatted-string bindings in both directions, with packed editions and
  escapes, and `WFNize`.
* `KeyTellsNames`, of `Lookup`, is that the cache's key tells two lists of names apart.
* `FeedDiff`, `FixedPackages` and `OutputRow` are the feed comparison, Red Hat's fixed
  packages with `rpm.Parse`, and the columns of cpe2cve's rows.

### NvdSync

One process of `nvdsync` that is started again and again. `disk` holds four slots per
feed file (the data, the meta or etag file, their `.bak`s): absent, a version, `Torn`
(of a wrong length, or an empty meta file) or `Garbled` (of the right length and not to be
read, or a meta file cut inside a line). Every effect on the directory is a step: the
etag's truncating `WriteFile`, the removal of a `.bak`, and each step of `xRename`, which
`backup`, `install` and `restore` call:

* `Rename` is the rename that works. It does not across devices, which is where the
  temporary directory may be (`crossDevice`).
* After a rename that failed, for whatever reason, `xRename` copies: `CopyPart` and
  `CopyRest` write into a target that was created or, `xrename.go:41`, not truncated (`move`
  is `"over"` then: the end of a longer file stays), and `RemoveSource` removes the source.
  `CopyFails` is an error in any of these, `NotMoved` one before the copy begins.
* `Returned` is what the callers do with the answer: an error of the install leads to
  `restore`, and one of the backup or of the restore is not looked at
  (`cve.go:262,264,442,444`, `cpe.go:159,161`).

`slips` counts the system calls on the files that failed in the run at hand. The server
publishes data and meta file separately. `RequestFails`, `DownloadRefused`, `EtagFails`
are the other error returns, `CheckStumbles` is a file that cannot be read, `Crash` may
fall between any two steps. Contents are versions: size, sha256 and etag agree exactly when
the versions do.

What is said of a run is said for at most one failed call, which may be any: the backup,
the restore, a rename on one device, a copy. `SuccessIsCurrent` and `RollbackKeepsData` need
no more; the bound is tight, since both are violated with two (see the departures).
`AlwaysACopy`, which speaks of every state in between, also needs that no `.bak` was left over
from an earlier run when a call fails: a copy over one is torn until it has ended, and its
source may be removed behind it.

### NotifyPipeline

The goroutines of one `Notifications()` call: the producer of `getConfigurations`, the
caller that forwards, the workers of `processAll`, and the drainer that the code
starts after the forwarding loop. Channels are sequences with the capacity of the
code as a constant. `matches` says how many vulnerabilities each configuration has;
a worker's sends are one step each. `res` is appended to without synchronisation with
its reader, so the reader sees the slice before the append or with a blank element.
The rows of the query may end early: by an error that is sent (`QueriesFail`), or by one that
nobody sees, since `rows.Err()` is not looked at (`notify.go:52,90`). `row` is then behind the
last configuration that was read, and `OfRead` are the matches of those that were, which
is what the bound on losses and the end of a round are about.

### Monitor

The service's tables and the three kinds of goroutines that use them. A handler is two
steps: the SELECT that counts the configuration (`Check`), and the transaction of the
writes (`Apply`, or `ApplyFails` with a roll-back). `ImportDictionnary` collects items
and writes a batch as two REPLACEs without a transaction; REPLACE deletes the row first
and the foreign keys of `schema.sql` cascade, which is the code's (and MySQL's) way.
The notifier's round filters pair by pair, records what is new and posts at the end.
`gen` counts how often a name was removed, so that a client that adds it again may be
told again.

### VulnDB, VendorStore, VulnDBInv

Importers and trimmers are processes of their own, every SQL statement a step, nothing
is in a transaction. `NewVersion`, `LoadFile`, `Replace`, `ReplaceFails` (the retry in
halves behind the last success), `Enable` are `ImportFiles`; `SelectVersions`,
`DeleteVendors`, `SelectOrphans`, `PurgeSome`, `PurgeDone` are `Trim`. `Age` lets a
version's timestamp become older than a day. `VendorStore` is what exporters are
promised: for each provider a view that only ever changes to a complete dataset of a
newer version. `View` is the exporter's query.

## Runs

Properties that belong together are conjuncts of one: `Inv` is a module's type invariant
with its smaller safety invariants, each of them defined and commented on its own.

| run | instance | what it shows |
|---|---|---|
| `cache_safety` | 5 calls, 4 keys, unlimited or a limit of 10 with weights 4, 5, 8, 10 | single computation, queue = map, accounting and panics only for oversize results, limit, refinement of `MemoCache` |
| `cpe2cve` | 2 workers, 3 records and a short one, 2 feeds that disagree, 1 override, a limit that evicts, any file, the input, the output or the profile may fail | feeds and overrides complete before a record is matched, no row undue or twice, what an exit loses, that rows come out and the command ends |
| `sync` | 2 CVE files, of 2 versions and 1, and a CPE file of 2; 2 faults, 1 crash | success means current, roll-back and a whole copy always when a run has one failing call, whichever; convergence unless a spoilt file cannot be read |
| `sync_v_cpe` | the CPE file alone | **violated**: a CPE run reports success with the data missing or old |
| `fetch` | each of 8 clients and files; 3 or 4 entries on 1 to 3 pages, counts 0, 1, 3, 4, 2 fetchers, any request may fail | no send on a closed channel, nothing twice, whose failure explains what is missing, who may stay blocked, every run ends unless a server leaves a request open |
| `client` | 2 callers, 2 requests per period, no or 2 retries, statuses 0, 200, 404, 503, debug failure of the second request or none | the rate with its real burst, attempts, results, delays, every request ends unless it is not answered itself |
| `algorithms` | inputs: see below | scores, versions, names and their bindings, cache keys, differences, packages, rows |
| ... the heap | 4 keys, clock values 0 to 3 | after every call each record knows its place and the oldest is on top; a call does what the contract says |
| ... commands of `vulndb` | 2 providers, 2 CVEs, 2 texts, 2 versions, at most 3 rows in the tables | filters select, an override shows once and is undone by its deletion, an edit takes effect and takes nothing from others, the summary adds up |
| ... requests | 2 CVEs, configurations of 2 nodes with one or two CPEs or of 4 nodes, 4 nodes loaded at once, 3 names, with and without an index and a required version | a request finds what the formulas and overrides say, through the index too |
| `pipe` | 3 workers, channels of 2, none to 5 configurations with up to 8 matches, failing queries | no send on closed, each result in one place, at most `Cap + 1` results missed of what was read, one way to halt, and none with few results |
| `pipe_v_halt` | 10 matches, channels of 1 | **violated**: `Notifications` does not return |
| `monitor` | 1 name, 3 items in batches of 2, 2 handlers, 2 requests, 1 fault, 1 crash | posted at most once, recorded is posted when undisturbed, complete import, an OK is true |
| `monitor_v_import` | 1 name, one import | **violated**: an existing configuration is answered as missing |
| `vulndb` | 2 providers, 2 importers, 2 trimmers, 2 versions of a dataset of 3 files (4, 0, 1 records), batches of 4, deletes of 3, 2 faults | ready is complete, nothing twice, refinement of `VendorStore`, the latest survives trims, orphans are purged |

Why the bounds are enough to be worth something. In `cache_safety` a light result is
evicted while another call waits for it, a third recomputes it, and two more touch and
push: five calls is what that takes. Weights are such that two light results fit and
three do not, one fits only alone and one not at all. In `cpe2cve` two of the records
may have the same key, a short record lies between the others, and the two feeds differ
in the CVE the override is about. In `sync` two faults
and a crash, in one run or in different ones, cover a failed backup with a failed install
behind it, a copy over a `.bak` that a crash has left, and repair after repair; the third
version of a file adds nothing that the second does not (a version is compared for
equality and order only). In `fetch`
`Counts` has none, fewer than there are, and all of them; flexera's four entries are
twice its fetchers, so that every fetcher can fail and entries are left; Red Hat's pages
overlap, as those of a list that changes between two requests. In `client` a request has
three attempts, and two callers are one more than the tokens that may be left. In `pipe`
there are fewer workers than configurations, more results than the channel holds, and
configurations without a match. Batches of 2 over 3 items and of 4 over 4, 0 and 1
records have full, partial and empty ends; a batch of 4 is halved twice. Two versions
are needed for a "latest", and two trimmers for one to delete what the other selected. Among
the requests of `algorithms` a node with two children, any of which is negated, is the least
in which order and negation matter, and an override is loaded with any flat configuration; a
CPE has a wildcard in its name, one has a range, one cannot be parsed, one begins with a
quoted asterisk. Three rows of the commands are a record, an override of it and a snooze, or
two of a kind. Four items make a heap of three levels in which one node has two children;
that longer ones behave alike is what the theorems show.

The inputs of `algorithms`: every CVSS base vector, with one or two values of every other
metric over some of them; pairs of versions of up to three characters of which one is a
separator, digits, a letter and a tilde, triples of up to two; patterns and targets of
up to three characters with both wildcards and a backslash; names of four attributes
with every quoted character a binding treats in its own way; feeds of two CVEs; packages with
hyphens, points, epochs and capitals; rows of three fields with three values.

`SYMMETRY` is used only in runs without liveness properties (calls in
`cache_safety`; providers, CVEs and texts in `algorithms`; and in `monitor`). `CHECK_DEADLOCK FALSE` is
set where the program ends (`cpe2cve`, `fetch`), where a single computation may be
all there is (`algorithms`), and where a round may halt (`pipe`, which states how).

## Fairness

* `Cpe2Cve` (`PipeFairSpec`): weak fairness of every goroutine and of the main one: the
  Go runtime schedules each that can go on, the mutex is fair enough since only
  finitely many calls compete. Nothing makes the input, the output or a file fail.
* `Download` (`FairSpec`): weak fairness of `OwnStep`, all that goroutines do without a
  server: send, receive, close, return, read a file, give up a request whose context was
  cancelled. No request has a time-out (`client.Default()` is `http.DefaultClient`,
  `providers/lib/client/client.go:30`, and the runner's context is the background,
  `runner/main.go:84`), so a server's answer and a request's failure have no fairness: a
  run ends, or a request that nobody cancelled stays open for ever (`OpenRequest`).
* `ApiClient` (`FairSpec`): time passes, the limiter's goroutine is scheduled and sleepers
  wake. An attempt may wait for its answer for ever, for the same reason, and nobody has to
  ask; `EveryRequestEnds` says that this holds up the request itself and no other. A
  blocked sender or receiver of a Go channel is served in the order of arrival, which
  `queue` models and `EveryRequestEnds` needs.
* `NvdSync`: `nvdsync` is run again and again and its steps go on: its requests end with
  the context of `-timeout` (`cmd/nvdsync/main.go:45,78`, 5 minutes by default). The server
  ends by describing what it published. Faults, crashes and publications are finite, by
  bounds: `Converges` says what happens once they have stopped.
* `NotifyPipeline`: every goroutine that can go on does.
* `VulnDB`: trims that were begun go on and are begun again (the command is a periodic
  job). Importers have no fairness: `OrphansArePurged` does not need them.
* `Monitor` states no liveness: nothing in the code promises when a round comes.

## Proofs

`CveCache_proofs`, for any set of calls and keys, any weights and limits, under
`RequestsHaveNames` (the key `""` of a request without a usable name is not asked:
with it `evict` may take an empty queue's answer for a key, see below):

* `TypeCorrect` (`TypeOK`), `ComputedOnce`, `QueueMatchesMap`, `StaysWithinLimit`,
  `UnlimitedIsSafe`: `Spec => []` of that and of the run's invariants;
* `SizeIsWeight` (`Accounting`): the size is the sum of what the queued results weigh,
  and `evict` runs out of records only for a result that does not fit an empty cache;
* `KeepsPromise`: `Spec => ImplementsMemo`, when limits are not negative.

All rest on `IInv` (module `CveCacheInv`). `SingleFlight` alone is not inductive: it
needs `Ownership`, that the map has the entry of every call in flight and no other
unfinished one; `EvictOne` keeps that only since what it pops is the key of a
finished entry, which is `QueueIsData`; `Bounded` needs to know that only a call in
`evict` leaves the size above the limit (`WithinLimit`); `UnlimitedIsSafe` that
without eviction no index leaves the queue (`Indexed`). Three lemmas say what an
arrangement, a push, a pop and a touch do to the keys of the queue, from the
contract alone.

`Accounting` is about a sum over a set, a fold of the library, which is defined by
recursion on the set. That it is what its name says is proved from the well-foundedness
of the strict subsets of a finite set: were there a finite set for which no function
gives the sums of its subsets, a smallest one would have none, and one element less gives
it (`SmallestSubset`, `SumsExist`); two such functions agree by the same argument
(`RecursOnce`), so the sum of a set and one more element is what it should be (`SumAdds`).
`SizeInv` adds to `IInv` that an entry's size is its result's weight from when it is
stored (`Weighed`): `evict` takes away what was added, and not what the entry has by then.

And of the eviction heap, for any set of keys and any readings of the clock:

* `HeapInvariant` (`HeapInv`), `HeapIsSound` (`HeapSound`), `HeapMeetsContract`
  (`HeapSpec => MeetsContract`).

Heap order alone is not inductive, since a call breaks it and mends it swap by swap.
`HeapInv` says that in between only the moving item may be out of place (`OrderUp`: less than
its parent; `OrderDown`: more than its children, and its children not less than its parent),
and that the items are those the call was made for in some order (`Arranged`, a
permutation that each swap composes with its own). At the end of a call the order is a
heap's, so what is left is what the contract asks. That the root is then the least of all
has no induction to rest on: among the positions less than it there would be a first one
(`LeastPosition`), whose parent is before it and not more.

`NvdSync_proofs`, for any non-empty sequence of feeds, each of any files, and any number
of versions, faults and crashes:

* `EndedRunsBreakNothing` (`Inv`, with `RollbackKeepsData`), `SuccessMeansCurrent`
  (`SuccessIsCurrent`), `ACopyIsKept` (`AlwaysACopy`), with each call of `xRename` free to fail.

A run fetches its files one after another and judges itself at the end, so `SyncInv`
carries what it has achieved so far: `RunIsCurrent`, that the CVE files it has passed
(`Passed`; the one at hand is left out, as a file may be listed twice) agree with their meta
files and are not older than what was announced at its start, which needs `ServerAhead`,
that the server does not take an announcement back. Of the file at hand `FileInv` says where
a failed call may have got it: `FailedCalls` (a copy on one device means a failed rename, and
a restore a failed call before it, so that with `slips <= 1` a restore renames),
`NewInPlace` (with one failed call at most the new file never meets an old one in its place,
hence is never copied over it: the one case that spoils data without an error),
`FileIsVerified`, and `BackupIsWhole`, that the `.bak` is what the run found whole for as long as it
may be needed. `WholeOrReplaced` and `NoLeftover` say this of all the other files.

`Monitor_proofs`, for any non-empty set of names, items and CPEs, handlers, requests and
any batch size:

* `NothingIsPostedTwice` (`Inv`), `WhatIsRecordedIsPosted` (`RecordedIsPosted`), `OkIsDone`
  (`OkMeansDone`).

`Recorded` says that what was posted for a configuration as it is now (`gen`) is in
`cves_notified`, and that what is about to be posted is new; `ImportProgress` that the
items an import has passed are in both tables or in the batch at hand, with the batch's
arithmetic (`BatchAtMost`); `ForeignKeys` is what the cascades leave. That a removal falls
into a round is what `FoundIsConfigured` excludes.

`VulnDB_proofs`, for any providers, datasets, importers, trimmers, sizes and bounds:

* `LatestSurvivesTrims`: `Spec => TrimKeepsLatest`, under `ImportsEndInADay` and
  `TrimsAreDefault`;
* `ReadyVersionsAreComplete`, without a hypothesis, and `StoreIsSound` (`Inv`) for datasets
  that name no CVE twice (`NoCveTwice`; a dataset that does is inserted twice by the code);
* `StoreKeepsPromise`: `Spec => KeepsPromise`, the refinement of `VendorStore`, under the
  hypotheses of the first.

A DELETE uses a selection that may be old by then. The invariant `TrimInv` says why it
is safe all the same: what is selected (`Condemned`) is a stale failure, which nobody
enables any more (`Making`: an importer's version is not stale), or has a newer ready
version of its provider that no trimmer has selected. The hard step is `SelectVersions`,
where the new selection may contain the version that justified an older one: then
the latest takes its place, which exists (`HasLatest`) and is never selected. Without
`ImportsEndInADay` the theorem is false (see the departures). `StoreInv` says that the
table has of a version that is made what its import has been through (`AsFarAsThrough`,
over `Through`, the records before the next statement's), that imports are within their
files and alone at their version (`Imports`), and that a purge only takes what has no row
(`PurgesOrphans`). `StoreKeepsPromise` uses both invariants: a step of the tables changes
a provider's view to a newer complete dataset or not at all.

And of what is made of the tables, for any providers, CVEs, texts and commands:

* `CommandsInvariant` (`TablesOK`), `ExportIsSound` (`ExportSound`), and `DiffsAreSound`, that the
  comparison of any two finite feeds accounts for every CVE (`DiffAccounts`) and outputs
  every kind of difference but a score alone (`OutputsEveryKind`).

`TablesOK` is what the statements keep: the tables are finite, typed, and have each key once (a
version's record of a CVE, an override of a CVE, a snooze of a provider's CVE). From it the
parts of `ExportSound` follow one by one: there is one latest version of a provider
(`LatestIsUnique`), a filter selects rows (`FiltersOnlySelect`), an override hides the vendor's row
(`ExportHasOnce`), an edit's rows are the provider's (`EditKeepsOthers`, `EditIsExported`,
`EditIsUndone`), and the summary's counts are sizes of sets that a bijection pairs with the rows
of an export (`SummaryAddsUp`). Comparisons split the CVEs in three disjoint sets
(`ThreeParts`).

`Download_proofs`, for each kind, any finite pages, counts, fetchers and failures:

* `ChannelsAreSafe` (`Inv`: no send on a closed channel, nothing received twice, who
  may stay blocked);
* `LossesAreFailures` (`LossIsExplained`), under `PagesAreFull`: Red Hat's client takes a
  short page for the last one (`providers/redhat/api/client.go:104`), so that a server
  that sends a short page early loses what is behind it without any failure.

`DownloadInv` says of each entry where it is (`OnePlace`), that a channel is closed when its
senders have ended (`Closing`), in what order pages begin (`PagesInOrder`), that a
cancellation has a failure behind it (`CancelMeansFailed`), and what became of flexera's
fetchers (`FetchersAccounted`: idle, busy, or returned behind a failure). The second
theorem adds `NothingVanishes`: an entry whose page was answered is somewhere, received,
or failed.

`NotifyPipeline_proofs`, for any non-empty set of workers, any capacities and matches:

* `ResultsAreKept` (`Inv`), `FewAreLost` (`LossIsBounded`), also where the rows end early.

`Placed` says that each result is in one place; a worker adds the results of a
configuration it takes, so it needs `InOrder`, that no configuration is in the channels
twice, and `Closing` and `Hands` for who may still take one. A result missed by the racing
read, of a configuration that was read, is in the channel or in the drainer's hand, hence at
most `Cap + 1`.

`ApiClient_proofs`, for any callers, rate, numbers of retries, delays and answers:

* `RateAndRetriesAreKept` (`Inv`), `EveryDelayIsSlept`, `DelaysAreDoubled` (`DelaysDouble`).

`WithinRate` follows from `RateIsHeld`, a balance: what was allowed ahead of the ticks was
allowed with what the channel, the filler and the Ticker's channel no longer hold. `Decided`
needs `OnlyRetried`, that a request that goes on has been given retryable answers only.
`EveryDelayIsSlept` needs `AsLongAsBefore`: a delay is as long as all before it and the
first. `DelaysDouble` is its closed form, with powers of two, which are defined by recursion:
that `2 ^ (n + 1)` is twice `2 ^ n` is proved by counting the subsets of `1 .. n`.

`Cpe2Cve_proofs`, for any files, records, workers, keys and cache limits:

* `RowsAreDue` (`PipeInv`, with `LoadComplete`, `StartsLoaded` and `OnlyDueOnce`),
  `LittleIsLost` (`ExitsComplete`).

It composes the parts: `LoadInv` (a feed is in the dictionary, in the channel, or not
sent), `Answers` (a call holds, and the map has, an entry for the name it was asked:
all that the command relies on of the cache, so that the theorems hold for the key `""`
too), `Staged` (what each stage of `Main` has behind it), `RecordsHeld` (a record is with
one worker) and `RowsAccounted`: a row on its way or written is due and owed by nobody,
and a due row is owed, on its way, written, or lost to a broken output. `Counted` is about
the total that is printed.

And of the matchers, for any configurations of any depth, overrides, names and attributes:

* `MatchInvariant` (`MatchInv`), `MatchersAreSound` (`MatchSpec => []MatchersSound`);
* `MatchingIsComparing` (`MatchIsComparison`): `matchAttr`, "crude but fast(-er)", decides what
  `CompareAttr` does, for any two names;
* `ComparingTurns` (`ComparisonTurns`): without wildcards the comparison the other way round is
  the mirrored one, for values of any characters that do not end in a backslash that quotes
  nothing.

A tree of matchers is a recursive function on the nodes of a configuration. That it obeys its
recursion equation is proved from the leaves up (`FromTheLeaves`, `TreeRecursion`: were there
nodes at which it does not, the last of them has only children at which it does), and the
same argument takes the place of every induction on trees: what is found holds
(`FindsWhatHolds`), requiring a version narrows what every node finds (`RequiringNarrowsAll`),
leaving out what cannot be parsed hides nothing (`LeavingOutWidens`). `MatchInv` says what a
machine step leaves: the overrides are in the vulnerabilities they name, the index is that of
the dictionary as overridden, and the last answer is what its candidates find. That the
index misses nothing needs that a CPE which matches a name is filed where the name is looked
up (`FiledWhereLookedUp`): a product without a wildcard matches only itself (`MatchesItself`), by the
equation of the backtracking (`MatchesEquation`) and the fact that a character is quoted by
one backslash (`QuotedByOne`). There the premise on the last backslash comes from: the
answer's clause (`AnswerIsWhole`) has it as `EndsWhole`, and `EndsWhole` fails for a product that is
a single backslash.

The assumptions on constants are `ASSUME`s of the models, evaluated by every run; they are
typing, finiteness of what a server lists, that there is a name, a worker or a feed
at all, and, in `Cpe2Cve`, that each record of the input is a call of its own.

Checked by TLC only. Liveness under fairness is out of the prover's reach, and with it where
a round of the pipeline comes to a halt (`RoundEndsUnlessFull`). Of the algorithms, what is
about tables of many values (scores) or recursion over text (`VersionsOrdered`, what a pattern
covers, the bindings, `KeyTellsNames`, labels of packages, positions of rows) is stated for every
input but checked on those below: TLC evaluates both definitions, and a proof would be
an induction on text for each.

## Departures of the code from what it says

Each of these is a run that is expected to fail, with a finding in `PROJECT.json`:

* a failed rename of the CPE feed leaves the new etag, and later runs see nothing to do
  (`sync_v_cpe`);
* `Notifications` blocks for ever when more vulnerabilities match than the channels hold
  (`pipe_v_halt`);
* the daily dictionary import deletes the monitored CPEs (`monitor_v_import`).

Met while modelling; what the models say of them is in the definitions named, where
one is named:

* cache: a hit refreshes whatever record the entry's stale index points at, so the record
  evicted need not be the least recently used, against the comment at
  `cvefeed/cvecache.go:231` (`IndexIsPosition`); evict panics on an empty queue
  (`EvictStopsWhenEmpty`); calls with the empty key need not be computed once.
* vulndb: a version enabled between a trimmer's SELECT and its DELETE, by an import of
  more than a day, is deleted though it is the latest (`vulndb/vendor.go:459`); an UPDATE of
  a deleted version is no error (`SuccessIsReady`); an override's key is the CVE alone, so a
  stale edit or another provider's import replaces it silently, and an edit makes
  overrides of every exported row, changed or not.
* lininfosec: the racing read of the results (`NothingLost`); rows that end on an error are
  taken for the last, so that a round leaves out, without a bound and without a word, what it had not
  read yet (`notify.go:52,90`; `LossIsBounded` speaks of what was read); a request with the wrong
  method is refused and carried out (`RefusedChangesNothing`), a failed POST loses its
  notifications (`NotifiedWasPosted`).
* nvdsync: `xRename`'s errors are looked at after the install only. A backup that fails (its
  rename and its copy: two calls) with an install that copies, as it does across devices, over
  an old file that is longer ends in success with data that is neither; this is why
  `SuccessIsCurrent` and `RollbackKeepsData` have `slips <= 1`. A restore that fails leaves the
  data as `.bak` only. A directory that cannot be written to is one way to both. A copy over a
  `.bak` that a crash or a failed removal left may leave no whole copy (`AlwaysACopy`). A meta
  file that is cut inside a line, or data that cannot be unpacked, makes `needsUpdate` fail in
  every later run, and the files behind it in its feed are never updated again (`Stuck`, which
  `Converges` excludes).
* cpe2cve: a read error that persists is logged for ever (`ComesToAnEnd` excludes it); some
  feeds that cannot be loaded are only logged, while an override ends the command; a
  failing output loses rows with exit status 0; a position beyond the end of a row is cut
  back to the end before its value is looked up (`cmd/cpe2cve/fieldstoskip.go:65`, see
  `OutputRow`).
* downloads: a server that does not answer keeps a run for ever (`RunComesToAnEnd` and
  `EveryRequestEnds` have this as their only exception); a failed page or entry is only
  logged and the command still exits well
  (`LossIsExplained`); flexera's fetchers return at an error also when errors are to be
  skipped (`providers/flexera/api/client.go:105`); a burst can be two requests more than
  `providers/lib/rate/rate.go` says (`WithinRate`), and retries are not throttled though
  `throttle.go` says that all requests are; bodies of retried answers stay open; a period
  of less than a nanosecond per request makes a ticker that never ticks.
* CVSS 3: a base score with an unchanged scope and no impact is above 0, since the test is
  `i < 0` (`cvss3/score.go:61`); with a changed scope more modified impact can lower the
  score; a vector without a slash behind its version panics (`cvss3/vector.go:94`; texts are
  sequences of parts in `CvssVector`, where this one is left out). CVSS 2: the environmental
  score can be below 0, and complete losses are cut to 10 in the environmental score only.
* names: a value of one character is read from a formatted string as it is
  (`wfn/fsb.go:120`), so that a single backslash is a value that quotes nothing; a pattern that ends in a quoted
  asterisk matches it, and the index misses that (`AnswerIsWhole`, `ComparingTurns`); `Relation` calls equal names a subset, against the table in its comment; wildcards
  match bytes; a URI's language behind a packed edition loses its first character; some
  quoted values do not survive a binding: the premises of `FmtStringReadsBack` and
  `UriReadsBack` say which.
* versions: `"001"` equals `"1.5"` (`cvefeed/nvd/smartvercmp.go:49`). Comparison of feeds: an
  entry that differs in its score only is written out of range (`cvefeed/diff.go:173`,
  `FeedDiff!OutOfRange`). Red Hat: names of package states keep their capitals while parsed
  packages lose them; one distribution that cannot be parsed, in an entry that counts, leaves
  the whole feed without a checker (`FixedPackages!HasChecker`, a premise of
  `ListsWhatIsFiltered`).

## Not modelled

HTTP, JSON, CSV and XML formats, URLs, flags, logging; the search endpoints and every
other read-only query; the converters from vendor formats, which map fields one by one;
generated schema types; the builder of SQL text; the statistics, which are output only;
`cpedict`, a parser and a linear search. Of the bindings of names, parsing of anything as
either form and the printed form are left out. The match itself is one step of
`CveCache` and `NotifyPipeline`, and an algorithm of `Matchers`. The table of components
in `PROJECT.json` gives the reason for each part.
