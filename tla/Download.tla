------------------------------ MODULE Download ------------------------------
(* A run of a provider's command: the runner asks a vendor's client for what has
   changed, pages and entries are requested by goroutines of their own, and the
   runner converts what comes out of the channel it was given.  The clients differ
   in who starts what, and in what an error stops.  An entry is a page and an
   identifier: a list that shifts between two requests names an identifier twice. *)
EXTENDS Integers, FiniteSets

CONSTANTS Kinds,      \* the clients
          Listed,     \* client -> page -> identifiers the server lists on it
          PageSize,
          Counts,     \* what the server may say it holds
          Fetchers    \* numFetchers

First == {"flexera", "idefense", "rbs", "snyk"}     \* one request comes before the pages
Counted == First \ {"snyk"}                         \* and says how many pages there are
Chained == {"redhat", "vfeed"}                      \* a page is requested after the one before it
Grouped == {"flexera", "idefense", "vulns"}         \* an error cancels the group's context
Spawning == {"redhat", "threat"}                    \* the caller starts a goroutine per entry
TwoStage == Spawning \cup {"flexera"}               \* a page lists what is requested one by one

ASSUME DownloadAssumption ==
  /\ PageSize \in Nat \ {0} /\ Fetchers \in Nat \ {0} /\ Counts \subseteq Nat
  /\ \A k \in Kinds : \E p \in DOMAIN Listed[k] : DOMAIN Listed[k] = 1 .. p
  /\ \A k \in Kinds : \A p \in DOMAIN Listed[k] : IsFiniteSet(Listed[k][p])

VARIABLES kind,
          goesOn,      \* NVD_CONTINUE_DOWNLOADING
          total,       \* the count of the first request
          stage,       \* of the runner
          page,        \* page -> what its goroutine does
          left,        \* page -> entries it has not sent
          ids, idsClosed,      \* the channel of what to request
          item,        \* entry -> what its goroutine, or its fetcher, does
          idle,        \* fetchers that wait for an identifier
          out, outClosed,      \* the channel of what was fetched
          cancelled,   \* the contexts that are
          failed,      \* requests that failed of themselves, by their context
          got          \* entry -> how many times the runner received it

idVars == <<ids, idsClosed>>
outVars == <<out, outClosed>>
envVars == <<kind, goesOn, total>>
vars == <<envVars, stage, page, left, idVars, item, idle, outVars, cancelled, failed, got>>

Pages == DOMAIN page
EntriesOf(p) == {p} \X Listed[kind][p]
Entries == UNION {EntriesOf(p) : p \in DOMAIN Listed[kind]}
Exits == {"exit 0", "exit 1"}
Running == stage \in {"collect", "consume"}
NumPages(n) == IF n = 0 THEN 1 ELSE ((n - 1) \div PageSize) + 1
\* capacity of both channels
Room == IF kind = "flexera" THEN total ELSE 0
Busy == {e \in DOMAIN item : item[e] \in {"ask", "push"}}

Init ==
  /\ kind \in Kinds /\ goesOn \in BOOLEAN
  /\ total = 0 /\ stage = "start"
  /\ page = [p \in DOMAIN Listed[kind] |-> "none"]
  /\ left = [p \in DOMAIN Listed[kind] |-> {}]
  /\ ids = {} /\ idsClosed = FALSE
  /\ item = [e \in Entries |-> "none"]
  /\ idle = IF kind = "flexera" THEN Fetchers ELSE 0
  /\ out = {} /\ outClosed = FALSE
  /\ cancelled = {}
  /\ failed = [pages |-> {}, items |-> {}]
  /\ got = [e \in Entries |-> 0]

-----------------------------------------------------------------------------
\* the pages requested: of n entries, or all there are
Requested(n) == IF kind \in Counted THEN {p \in Pages : p <= NumPages(n)} ELSE Pages

\* The configuration is refused, the first request fails or, but for flexera, finds nothing.
FirstFails ==
  /\ stage = "start"
  /\ stage' = "exit 1"
  /\ UNCHANGED <<envVars, page, left, idVars, item, idle, outVars, cancelled, failed, got>>
\* A page no goroutine is started for counts as done.
Start ==
  /\ stage = "start"
  /\ \E n \in IF kind \in Counted THEN Counts ELSE {0} :
       /\ n > 0 \/ kind \notin Counted \ {"flexera"}
       /\ total' = n
       /\ page' = [p \in Pages |-> IF p \notin Requested(n) THEN "done"
                                   ELSE IF kind \in Chained /\ p > 1 THEN "none" ELSE "ask"]
  /\ stage' = IF kind \in Spawning THEN "collect" ELSE "consume"
  /\ UNCHANGED <<kind, goesOn, left, idVars, item, idle, outVars, cancelled, failed, got>>

-----------------------------------------------------------------------------
\* StopOrContinue: the error is returned, and the group's context cancelled, or only logged
Stops(context) ==
  cancelled' = IF kind \in Grouped /\ ~goesOn THEN cancelled \cup {context} ELSE cancelled
Failed(request, context) ==
  failed' = IF context \in cancelled THEN failed
            ELSE [failed EXCEPT ![context] = @ \cup {request}]

PageAnswered(p) ==
  /\ Running /\ page[p] = "ask" /\ "pages" \notin cancelled
  /\ page' = [page EXCEPT ![p] = "push"]
  /\ left' = [left EXCEPT ![p] = EntriesOf(p)]
  /\ UNCHANGED <<envVars, stage, idVars, item, idle, outVars, cancelled, failed, got>>
\* the page ends; a chain does not go on behind one that failed
PageOver(p, to) ==
  page' = [q \in Pages |-> IF q = p THEN to
                           ELSE IF kind \in Chained /\ page[q] = "none" THEN "done" ELSE page[q]]
PageFailsTo(p, to) ==
  /\ Running /\ page[p] = "ask"
  /\ PageOver(p, to)
  /\ Failed(p, "pages") /\ Stops("pages")
  /\ UNCHANGED <<envVars, stage, left, idVars, item, idle, outVars, got>>
\* Faulty variant: a failed page's goroutine is waited for after it has returned.
PageFailsUndone(p) == PageFailsTo(p, "undone")
PageFails(p) == PageFailsTo(p, "done")

\* Behind a page that was sent a chain goes on with the next, unless it was a short one.
ChainGoesOn(p) == p + 1 \in Pages /\ (kind = "redhat" => Cardinality(Listed[kind][p]) >= PageSize)
\* Faulty variant: the same page is requested again.
SamePage(p) == p
NextPage(p) == p + 1
PageEnds(p) ==
  /\ Running /\ page[p] = "push" /\ left[p] = {}
  /\ page' = [q \in Pages |->
               IF kind \in Chained /\ ChainGoesOn(p) /\ q = NextPage(p) THEN "ask"
               ELSE IF q = p \/ (kind \in Chained /\ q > p /\ ~ChainGoesOn(p)) THEN "done"
               ELSE page[q]]
  /\ UNCHANGED <<envVars, stage, left, idVars, item, idle, outVars, cancelled, failed, got>>
\* flexera's channel of identifiers has room
PageSends(p) ==
  /\ Running /\ kind = "flexera" /\ page[p] = "push" /\ Cardinality(ids) < Room
  /\ \E e \in left[p] :
       /\ left' = [left EXCEPT ![p] = @ \ {e}]
       /\ ids' = ids \cup {e}
  /\ UNCHANGED <<envVars, stage, page, idsClosed, item, idle, outVars, cancelled, failed, got>>

\* flexera cancels everything when Wait returns an error
WaitReturned(context) ==
  cancelled' = IF kind = "flexera" /\ context \in cancelled THEN {"pages", "items"} ELSE cancelled
\* Wait for the pages, then close what they send to.
PagesEnd ==
  /\ Running /\ \A p \in Pages : page[p] = "done"
  /\ IF kind \in TwoStage
     THEN ~idsClosed /\ idsClosed' = TRUE /\ UNCHANGED outClosed
     ELSE ~outClosed /\ outClosed' = TRUE /\ UNCHANGED idsClosed
  /\ WaitReturned("pages")
  /\ UNCHANGED <<envVars, stage, page, left, ids, item, idle, out, failed, got>>

-----------------------------------------------------------------------------
\* an entry is requested
Asked(S) == item' = [e \in DOMAIN item |-> IF e \in S THEN "ask" ELSE item[e]]

FetcherTakes ==
  /\ Running /\ kind = "flexera" /\ idle > 0
  /\ \/ \E e \in ids : ids' = ids \ {e} /\ Asked({e}) /\ UNCHANGED left
     \/ /\ Room = 0
        /\ \E p \in Pages : \E e \in left[p] :
             left' = [left EXCEPT ![p] = @ \ {e}] /\ Asked({e}) /\ UNCHANGED ids
  /\ idle' = idle - 1
  /\ UNCHANGED <<envVars, stage, page, idsClosed, outVars, cancelled, failed, got>>
FetcherEnds ==
  /\ Running /\ kind = "flexera" /\ idle > 0 /\ idsClosed /\ ids = {}
  /\ idle' = idle - 1
  /\ UNCHANGED <<envVars, stage, page, left, idVars, item, outVars, cancelled, failed, got>>
\* The caller ranges over the entries, or over whole pages, before it returns.
CallerTakes(p) ==
  /\ stage = "collect" /\ left[p] # {}
  /\ \E S \in IF kind = "redhat" THEN {left[p]} ELSE {{e} : e \in left[p]} :
       left' = [left EXCEPT ![p] = @ \ S] /\ Asked(S)
  /\ UNCHANGED <<envVars, stage, page, idVars, idle, outVars, cancelled, failed, got>>
CallerReturns ==
  /\ stage = "collect" /\ idsClosed
  /\ stage' = "consume"
  /\ UNCHANGED <<envVars, page, left, idVars, item, idle, outVars, cancelled, failed, got>>

ItemAnswered(e) ==
  /\ Running /\ item[e] = "ask" /\ "items" \notin cancelled
  /\ item' = [item EXCEPT ![e] = "push"]
  /\ UNCHANGED <<envVars, stage, page, left, idVars, idle, outVars, cancelled, failed, got>>
\* A fetcher returns even when the error is only logged.
ItemFails(e) ==
  /\ Running /\ item[e] = "ask"
  /\ item' = [item EXCEPT ![e] = "done"]
  /\ Failed(e, "items") /\ Stops("items")
  /\ UNCHANGED <<envVars, stage, page, left, idVars, idle, outVars, got>>
ItemSends(e) ==
  /\ Running /\ item[e] = "push" /\ Cardinality(out) < Room
  /\ item' = [item EXCEPT ![e] = "done"]
  /\ out' = out \cup {e}
  /\ idle' = idle + 1
  /\ UNCHANGED <<envVars, stage, page, left, idVars, outClosed, cancelled, failed, got>>
CloseItems(waited) ==
  /\ kind \in TwoStage /\ stage = "consume" /\ ~outClosed
  /\ waited
  /\ outClosed' = TRUE
  /\ WaitReturned("items")
  /\ UNCHANGED <<envVars, stage, page, left, idVars, item, idle, out, failed, got>>

\* Faulty variant: flexera's fetchers are waited for, the goroutines of others are not.
ItemsEndAtOnce == CloseItems(idle = 0 /\ (kind = "flexera" => Busy = {}))
ItemsEnd == CloseItems(idle = 0 /\ Busy = {})

-----------------------------------------------------------------------------
\* The runner takes an entry out of the channel, or from a goroutine that offers it.
Receive(e) ==
  /\ stage = "consume"
  /\ \/ /\ e \in out
        /\ out' = out \ {e} /\ UNCHANGED <<left, item, idle>>
     \/ /\ Room = 0 /\ item[e] = "push"
        /\ item' = [item EXCEPT ![e] = "done"]
        /\ idle' = IF kind = "flexera" THEN idle + 1 ELSE idle
        /\ UNCHANGED <<left, out>>
     \/ /\ kind \notin TwoStage /\ e \in left[e[1]]
        /\ left' = [left EXCEPT ![e[1]] = @ \ {e}] /\ UNCHANGED <<item, idle, out>>
  /\ got' = [got EXCEPT ![e] = @ + 1]
  /\ UNCHANGED <<envVars, stage, page, idVars, outClosed, cancelled, failed>>
\* Run ends well, whatever was lost, unless its result cannot be written.
RunEnds ==
  /\ stage = "consume" /\ outClosed /\ out = {}
  /\ stage' \in Exits
  /\ UNCHANGED <<envVars, page, left, idVars, item, idle, outVars, cancelled, failed, got>>

Next ==
  \/ FirstFails \/ Start
  \/ \E p \in Pages : PageAnswered(p) \/ PageFails(p) \/ PageSends(p) \/ PageEnds(p)
  \/ PagesEnd
  \/ FetcherTakes \/ FetcherEnds
  \/ \E p \in Pages : CallerTakes(p)
  \/ CallerReturns
  \/ \E e \in Entries : ItemAnswered(e) \/ ItemFails(e) \/ ItemSends(e)
  \/ ItemsEnd
  \/ \E e \in Entries : Receive(e)
  \/ RunEnds
Spec == Init /\ [][Next]_vars

\* No request has a time-out (client.go:30, runner/main.go:84): a server may be silent
\* for ever.  What is out then is the first request, or one whose context nobody cancels.
OpenRequest ==
  \/ stage = "start" /\ kind \in First
  \/ /\ Running /\ kind # "files"
     /\ \/ "pages" \notin cancelled /\ \E p \in Pages : page[p] = "ask"
        \/ "items" \notin cancelled /\ \E e \in Entries : item[e] = "ask"
\* Steps no server is waited for: files are read, and requests end that were cancelled.
OwnPageStep(p) ==
  \/ kind = "files" /\ PageAnswered(p)
  \/ (kind = "files" \/ "pages" \in cancelled) /\ PageFails(p)
  \/ PageSends(p) \/ PageEnds(p) \/ CallerTakes(p)
OwnStep ==
  \/ kind \notin First /\ (FirstFails \/ Start)
  \/ \E p \in Pages : OwnPageStep(p)
  \/ PagesEnd \/ FetcherTakes \/ FetcherEnds \/ CallerReturns
  \/ \E e \in Entries : "items" \in cancelled /\ ItemFails(e)
  \/ \E e \in Entries : ItemSends(e) \/ Receive(e)
  \/ ItemsEnd \/ RunEnds
\* What neither a channel nor a server holds up is scheduled.
FairSpec == Spec /\ WF_vars(OwnStep)

-----------------------------------------------------------------------------
TypeOK ==
  /\ kind \in Kinds /\ goesOn \in BOOLEAN /\ total \in Counts \cup {0}
  /\ stage \in {"start", "collect", "consume"} \cup Exits
  /\ page \in [DOMAIN Listed[kind] -> {"none", "ask", "push", "done"}]
  /\ \A p \in Pages : left[p] \subseteq EntriesOf(p)
  /\ ids \subseteq Entries /\ out \subseteq Entries
  /\ idsClosed \in BOOLEAN /\ outClosed \in BOOLEAN
  /\ item \in [Entries -> {"none", "ask", "push", "done"}]
  /\ idle \in 0 .. Fetchers
  /\ cancelled \subseteq {"pages", "items"}
  /\ failed \in [pages : SUBSET Pages, items : SUBSET Entries]
  /\ got \in [Entries -> Nat]

(* Nobody is about to send on a channel that is closed, which would be a panic:
   whoever closes it has waited for all senders (runner/main.go:147, and each client). *)
NoSendOnClosed ==
  /\ idsClosed => \A p \in Pages : left[p] = {}
  /\ outClosed => /\ \A e \in Entries : item[e] # "push"
                  /\ kind \notin TwoStage => \A p \in Pages : left[p] = {}

(* No entry reaches the runner twice, and none that was received is still under way. *)
EachEntryOnce ==
  \A e \in Entries : got[e] + (IF e \in ids \cup out \cup left[e[1]] \cup Busy THEN 1 ELSE 0) <= 1

(* What a run that ended well has not received, though it was listed on a page the
   first count called for, was lost to a failed request: that of the entry, of its page or of
   one before it in a chain; any one, where errors cancel the rest; and with flexera's errors
   skipped, as many entries' as there are fetchers (flexera/api/client.go:105). *)
LossIsExplained ==
  stage = "exit 0" =>
    \A e \in Entries :
      \/ got[e] = 1
      \/ e \in failed.items \/ e[1] \in failed.pages
      \/ e[1] \notin Requested(total)
      \/ kind \in Chained /\ \E p \in failed.pages : p < e[1]
      \/ kind \in Grouped /\ ~goesOn /\ (failed.pages # {} \/ failed.items # {})
      \/ kind = "flexera" /\ Cardinality(failed.items) >= Fetchers

(* A page finds no room for an identifier only when the pages hold more than the
   server had counted (flexera/api/client.go:73): else none is left blocked for ever,
   even after every fetcher has returned. *)
BlockedOnlyOverCount ==
  kind = "flexera" /\ Cardinality(ids) = Room =>
    \/ \A p \in Pages : left[p] = {}
    \/ Cardinality(UNION {EntriesOf(p) : p \in Requested(total)}) > total

(* In every state the channels are used by those who may use them, no entry is in two
   places, and no page is blocked that the first count left room for. *)
Inv == TypeOK /\ NoSendOnClosed /\ EachEntryOnce /\ BlockedOnlyOverCount

(* Every run ends, whichever requests fail, and with goroutines left behind or not,
   unless a server leaves a request open for ever that was not cancelled: no channel
   blocks it, and of a group that was cancelled no silent server does.            *)
RunComesToAnEnd == <>(stage \in Exits) \/ <>[]OpenRequest
=============================================================================
