--------------------------- MODULE Download_proofs ---------------------------
(* What holds of a provider's download for any clients, pages, entries, counts and
   fetchers, whichever requests fail and however the goroutines are interleaved.  *)
EXTENDS Download, FiniteSetTheorems, TLAPS

\* Pages begin in order where each is requested after the one before it, only those
\* called for begin, and only one that was answered has entries to send.
PagesInOrder ==
  /\ stage = "start" => \A p \in Pages : page[p] = "none"
  /\ left \in [Pages -> SUBSET Entries]
  /\ \A p \in Pages : page[p] # "push" => left[p] = {}
  /\ \A p \in Pages \ Requested(total) : page[p] \in {"none", "done"}
  /\ kind \in Chained =>
       \A p \in Pages : \A q \in Pages : p < q /\ page[p] # "done" => page[q] = "none"

\* A channel is closed when its senders have ended, and nobody starts another.
Closing ==
  /\ idsClosed => kind \in TwoStage /\ \A p \in Pages : page[p] = "done"
  /\ outClosed => /\ stage \notin {"start", "collect"}
                  /\ IF kind \in TwoStage THEN idle = 0 /\ Busy = {}
                                          ELSE \A p \in Pages : page[p] = "done"
  /\ stage = "collect" => kind \in Spawning
  /\ kind \in Spawning /\ stage \in {"consume", "exit 0"} => idsClosed
  /\ kind \notin TwoStage => \A e \in Entries : item[e] = "none"
  /\ kind # "flexera" => ids = {} /\ out = {} /\ idle = 0

\* An entry is in one place.
OnePlace ==
  \A e \in Entries :
    /\ page[e[1]] \in {"none", "ask"} =>
         e \notin ids \cup out \cup failed.items /\ item[e] = "none" /\ got[e] = 0
    /\ e \in left[e[1]] =>
         e \notin ids \cup out \cup failed.items /\ item[e] = "none" /\ got[e] = 0
    /\ e \in ids => e \notin out \cup failed.items /\ item[e] = "none" /\ got[e] = 0
    /\ item[e] \in {"ask", "push"} => e \notin out \cup failed.items /\ got[e] = 0
    /\ e \in out => item[e] = "done" /\ e \notin failed.items /\ got[e] = 0
    /\ e \in failed.items => item[e] = "done"
    /\ got[e] <= 1

\* What is cancelled was cancelled by a failure.
CancelMeansFailed ==
  cancelled # {} =>
    kind \in Grouped /\ ~goesOn /\ (failed.pages # {} \/ failed.items # {})

\* flexera's fetchers wait, are busy, or have returned: behind a failure, or at the end.
FetchersAccounted ==
  kind = "flexera" =>
    /\ idle + Cardinality(Busy) <= Fetchers
    /\ cancelled = {} =>
         \/ idsClosed /\ ids = {}
         \/ idle + Cardinality(Busy) + Cardinality(failed.items) >= Fetchers

\* flexera's identifiers are of the pages the first count called for.
IdsAreRequested ==
  kind = "flexera" => \A e \in ids : e[1] \in Requested(total)

DownloadInv ==
  /\ TypeOK /\ PagesInOrder /\ Closing /\ OnePlace
  /\ CancelMeansFailed /\ FetchersAccounted /\ IdsAreRequested

-----------------------------------------------------------------------------
LEMMA EntryFacts ==
  ASSUME kind \in Kinds, Pages = DOMAIN Listed[kind]
  PROVE  /\ \A p \in Pages : EntriesOf(p) \subseteq Entries
         /\ \A p \in Pages : \A e \in EntriesOf(p) : e[1] = p
         /\ \A e \in Entries : e[1] \in Pages /\ e \in EntriesOf(e[1])
         /\ IsFiniteSet(Entries)
         /\ Pages # {} /\ Pages \subseteq Nat \ {0}
         /\ \A p, q \in Pages : p < q => p + 1 \in Pages
<1>1. \A p \in Pages : EntriesOf(p) \subseteq Entries
  BY DEF Entries
<1>2. \A p \in Pages : \A e \in EntriesOf(p) : e[1] = p
  BY DEF EntriesOf
<1>3. \A e \in Entries : e[1] \in Pages /\ e \in EntriesOf(e[1])
  BY <1>2 DEF Entries
<1>4. PICK n \in Pages : Pages = 1 .. n
  BY DownloadAssumption
<1>5. n \in Nat /\ Pages \subseteq Nat \ {0} /\ \A p, q \in Pages : p < q => p + 1 \in Pages
  BY <1>4
<1>6. IsFiniteSet(Entries)
  <2>1. IsFiniteSet(Pages)
    BY <1>4, <1>5, FS_Interval
  <2>2. \A p \in Pages : IsFiniteSet(EntriesOf(p))
    <3>1. ASSUME NEW p \in Pages PROVE IsFiniteSet({p} \X Listed[kind][p])
      BY DownloadAssumption, FS_Product, FS_Singleton
    <3> QED BY <3>1 DEF EntriesOf
  <2> DEFINE entries == [p \in Pages |-> EntriesOf(p)]
             all == {EntriesOf(p) : p \in Pages}
  <2>3. entries \in Surjection(Pages, all)
    BY DEF Surjection
  <2>4. IsFiniteSet(all)
    BY <2>1, <2>3, FS_Surjection
  <2> QED BY <2>2, <2>4, FS_UNION DEF Entries
<1> QED BY <1>1, <1>2, <1>3, <1>4, <1>5, <1>6

LEMMA InitDownloadInv == Init => DownloadInv
<1> SUFFICES ASSUME Init PROVE DownloadInv
  OBVIOUS
<1>1. Pages = DOMAIN Listed[kind] /\ DOMAIN item = Entries /\ kind \in Kinds
  BY DEF Init, Pages
<1>2. Busy = {}
  BY <1>1 DEF Init, Busy
<1>3. TypeOK
  <2>1. failed \in [pages : SUBSET Pages, items : SUBSET Entries]
    BY DEF Init
  <2>2. idle \in 0 .. Fetchers /\ total \in Counts \cup {0}
    BY DownloadAssumption DEF Init
  <2> QED BY <1>1, <2>1, <2>2 DEF Init, TypeOK, Pages
<1>4. PagesInOrder
  BY <1>1 DEF Init, PagesInOrder, Pages
<1>5. Closing
  BY <1>1 DEF Init, Closing, First, Spawning
<1>6. OnePlace
  BY <1>1 DEF Init, OnePlace
<1>7. FetchersAccounted
  BY <1>2, FS_EmptySet, DownloadAssumption DEF Init, FetchersAccounted
<1>8. CancelMeansFailed /\ IdsAreRequested
  BY DEF Init, CancelMeansFailed, IdsAreRequested
<1> QED BY <1>3, <1>4, <1>5, <1>6, <1>7, <1>8 DEF DownloadInv

-----------------------------------------------------------------------------
\* The pages and the entries of a run are what they were.
LEMMA Typed ==
  ASSUME TypeOK
  PROVE  /\ kind \in Kinds /\ Pages = DOMAIN Listed[kind] /\ Pages \subseteq Nat \ {0} /\ Pages # {}
         /\ page \in [Pages -> {"none", "ask", "push", "done"}]
         /\ item \in [Entries -> {"none", "ask", "push", "done"}]
         /\ IsFiniteSet(Entries) /\ Busy \subseteq Entries
         /\ IsFiniteSet(Busy) /\ Cardinality(Busy) \in Nat
         /\ IsFiniteSet(failed.items) /\ Cardinality(failed.items) \in Nat
         /\ \A e \in Entries : e[1] \in Pages /\ e \in EntriesOf(e[1])
         /\ \A p \in Pages : EntriesOf(p) \subseteq Entries
         /\ \A p \in Pages : \A e \in EntriesOf(p) : e[1] = p
<1>1. kind \in Kinds /\ Pages = DOMAIN Listed[kind]
  BY DEF TypeOK, Pages
<1>2. Busy \subseteq Entries
  BY DEF TypeOK, Busy
<1>3. failed.items \subseteq Entries
  BY DEF TypeOK
<1>4. /\ page \in [Pages -> {"none", "ask", "push", "done"}]
      /\ item \in [Entries -> {"none", "ask", "push", "done"}]
  BY <1>1 DEF TypeOK
<1> QED BY <1>1, <1>2, <1>3, <1>4, EntryFacts, FS_Subset, FS_CardinalityType

LEMMA LeftOf ==
  ASSUME TypeOK, NEW p \in Pages, NEW e \in left[p]
  PROVE  e \in Entries /\ e[1] = p
<1>1. e \in EntriesOf(p)
  BY DEF TypeOK
<1> QED BY <1>1, Typed

LEMMA Framed ==
  ASSUME kind' = kind, DOMAIN page' = DOMAIN page
  PROVE  /\ Pages' = Pages /\ Entries' = Entries
         /\ \A p : EntriesOf(p)' = EntriesOf(p)
         /\ total' = total => Requested(total)' = Requested(total)
BY DEF Pages, Entries, EntriesOf, Requested, NumPages

LEMMA FirstFailsKeeps ==
  ASSUME DownloadInv, FirstFails PROVE DownloadInv'
<1>1. Pages' = Pages /\ Entries' = Entries /\ (\A p : EntriesOf(p)' = EntriesOf(p))
      /\ Requested(total)' = Requested(total) /\ Busy' = Busy
  BY Framed DEF FirstFails, envVars, Busy
<1> USE <1>1 DEF DownloadInv, FirstFails, envVars, idVars, outVars
<1>2. TypeOK'
  BY DEF TypeOK, Exits
<1>3. PagesInOrder'
  BY DEF PagesInOrder
<1>4. Closing' /\ OnePlace'
  BY DEF Closing, OnePlace
<1>5. CancelMeansFailed' /\ FetchersAccounted' /\ IdsAreRequested'
  BY DEF CancelMeansFailed, FetchersAccounted, IdsAreRequested
<1> QED BY <1>2, <1>3, <1>4, <1>5

LEMMA StartKeeps ==
  ASSUME DownloadInv, Start PROVE DownloadInv'
<1> USE Typed DEF DownloadInv
<1>1. PICK n \in IF kind \in Counted THEN Counts ELSE {0} :
      /\ total' = n
      /\ page' = [p \in Pages |-> IF p \notin Requested(n) THEN "done"
                                   ELSE IF kind \in Chained /\ p > 1 THEN "none" ELSE "ask"]
      /\ stage = "start" /\ stage' = IF kind \in Spawning THEN "collect" ELSE "consume"
      /\ UNCHANGED <<kind, goesOn, left, ids, idsClosed, item, idle, out, outClosed, cancelled, failed, got>>
  BY DEF Start, idVars, outVars
<1>2. DOMAIN page' = DOMAIN page
  BY <1>1 DEF Pages
<1>3. Pages' = Pages /\ Entries' = Entries /\ (\A p : EntriesOf(p)' = EntriesOf(p)) /\ Busy' = Busy
  BY <1>1, <1>2, Framed DEF Busy
<1>4. Requested(total)' = Requested(n)
  BY <1>1, <1>3 DEF Requested, NumPages
<1>5. TypeOK'
  BY <1>1, <1>3 DEF TypeOK
<1>6. PagesInOrder'
  <2>1. \A q \in Pages : q >= 1
    OBVIOUS
  <2>2. kind \in Chained => Requested(n) = Pages
    BY DEF Requested, Chained, Counted, First
  <2>3. left' \in [Pages -> SUBSET Entries] /\ \A q \in Pages : left'[q] = {}
    BY <1>1 DEF PagesInOrder
  <2>4. stage' # "start" /\ \A q \in Pages \ Requested(n) : page'[q] = "done"
    BY <1>1
  <2>5. kind \in Chained =>
          \A q \in Pages : \A r \in Pages : q < r /\ page'[q] # "done" => page'[r] = "none"
    BY <1>1, <2>1, <2>2
  <2> QED BY <1>1, <1>3, <1>4, <2>3, <2>4, <2>5 DEF PagesInOrder
<1>7. Closing'
  BY <1>1, <1>3 DEF PagesInOrder, Closing, Spawning
<1>8. OnePlace'
  BY <1>1, <1>3 DEF PagesInOrder, OnePlace
<1>9. CancelMeansFailed' /\ FetchersAccounted'
  BY <1>1, <1>3 DEF CancelMeansFailed, FetchersAccounted
<1>10. IdsAreRequested'
  BY <1>1, <1>3 DEF IdsAreRequested, OnePlace, PagesInOrder, TypeOK
<1> QED BY <1>5, <1>6, <1>7, <1>8, <1>9, <1>10

LEMMA PageAnsweredKeeps ==
  ASSUME DownloadInv, NEW p \in Pages, PageAnswered(p) PROVE DownloadInv'
<1> USE Typed DEF DownloadInv
<1>1. /\ Running /\ page[p] = "ask"
      /\ page' = [page EXCEPT ![p] = "push"] /\ left' = [left EXCEPT ![p] = EntriesOf(p)]
      /\ UNCHANGED <<kind, goesOn, total, stage, ids, idsClosed, item, idle, out, outClosed, cancelled, failed, got>>
  BY DEF PageAnswered, envVars, idVars, outVars
<1>2. DOMAIN page' = DOMAIN page
  BY <1>1
<1>3. Pages' = Pages /\ Entries' = Entries /\ (\A q : EntriesOf(q)' = EntriesOf(q)) /\ Busy' = Busy
      /\ Requested(total)' = Requested(total)
  BY <1>1, <1>2, Framed DEF Busy
<1>5. TypeOK'
  BY <1>1, <1>3 DEF TypeOK, PagesInOrder
<1>6. PagesInOrder'
  BY <1>1, <1>3 DEF PagesInOrder, Running
<1>7. Closing'
  BY <1>1, <1>3 DEF Closing
<1>8. OnePlace'
  BY <1>1, <1>3 DEF PagesInOrder, OnePlace
<1>9. CancelMeansFailed' /\ FetchersAccounted' /\ IdsAreRequested'
  BY <1>1, <1>3 DEF CancelMeansFailed, FetchersAccounted, IdsAreRequested
<1> QED BY <1>5, <1>6, <1>7, <1>8, <1>9

\* What a step does to the pages' goroutines alone leaves all else as it is.
LEMMA PageFailsKeeps ==
  ASSUME DownloadInv, NEW p \in Pages, PageFails(p) PROVE DownloadInv'
<1> USE Typed DEF DownloadInv
<1>1. /\ Running /\ page[p] = "ask"
      /\ page' = [q \in Pages |->
                   IF q = p THEN "done"
                   ELSE IF kind \in Chained /\ page[q] = "none" THEN "done" ELSE page[q]]
      /\ failed' = IF "pages" \in cancelled THEN failed
                   ELSE [failed EXCEPT !["pages"] = @ \cup {p}]
      /\ cancelled' = IF kind \in Grouped /\ ~goesOn THEN cancelled \cup {"pages"} ELSE cancelled
      /\ UNCHANGED <<kind, goesOn, total, stage, left, ids, idsClosed, item, idle, out,
                     outClosed, got>>
  BY DEF PageFails, PageFailsTo, PageOver, Failed, Stops, envVars, idVars, outVars
<1>2. DOMAIN page' = DOMAIN page
  BY <1>1 DEF Pages
<1>3. /\ Pages' = Pages /\ Entries' = Entries /\ (\A q : EntriesOf(q)' = EntriesOf(q))
      /\ Requested(total)' = Requested(total) /\ Busy' = Busy
  BY <1>1, <1>2, Framed DEF Busy
<1>4. /\ failed' \in [pages : SUBSET Pages, items : SUBSET Entries]
      /\ failed'.items = failed.items
      /\ failed'.pages = IF "pages" \in cancelled THEN failed.pages ELSE failed.pages \cup {p}
  BY <1>1 DEF TypeOK
<1>5. TypeOK'
  BY <1>1, <1>3, <1>4 DEF TypeOK
<1>6. PagesInOrder'
  BY <1>1, <1>3 DEF PagesInOrder, Running
<1>7. Closing'
  BY <1>1, <1>3 DEF Closing
<1>8. OnePlace'
  BY <1>1, <1>3, <1>4 DEF PagesInOrder, OnePlace
<1>9. CancelMeansFailed'
  BY <1>1, <1>4 DEF CancelMeansFailed, TypeOK
<1>10. FetchersAccounted' /\ IdsAreRequested'
  BY <1>1, <1>3, <1>4 DEF FetchersAccounted, IdsAreRequested
<1> QED BY <1>5, <1>6, <1>7, <1>8, <1>9, <1>10

LEMMA PageEndsKeeps ==
  ASSUME DownloadInv, NEW p \in Pages, PageEnds(p) PROVE DownloadInv'
<1> USE Typed DEF DownloadInv
<1>1. /\ Running /\ page[p] = "push" /\ left[p] = {}
      /\ page' = [q \in Pages |->
                   IF kind \in Chained /\ ChainGoesOn(p) /\ q = p + 1 THEN "ask"
                   ELSE IF q = p \/ (kind \in Chained /\ q > p /\ ~ChainGoesOn(p)) THEN "done"
                   ELSE page[q]]
      /\ UNCHANGED <<kind, goesOn, total, stage, left, ids, idsClosed, item, idle, out,
                     outClosed, cancelled, failed, got>>
  BY DEF PageEnds, NextPage, envVars, idVars, outVars
<1>2. DOMAIN page' = DOMAIN page
  BY <1>1 DEF Pages
<1>3. /\ Pages' = Pages /\ Entries' = Entries /\ (\A q : EntriesOf(q)' = EntriesOf(q))
      /\ Requested(total)' = Requested(total) /\ Busy' = Busy
  BY <1>1, <1>2, Framed DEF Busy
<1>4. kind \in Chained =>
        /\ Requested(total) = Pages
        /\ \A q \in Pages : q > p => page[q] = "none"
        /\ \A q \in Pages : q < p => page[q] = "done"
  BY <1>1 DEF PagesInOrder, Requested, Chained, Counted, First
<1>5. TypeOK'
  BY <1>1, <1>3 DEF TypeOK
<1>6. PagesInOrder'
  <2>1. left' \in [Pages -> SUBSET Entries] /\ stage' # "start"
    BY <1>1, <1>3 DEF PagesInOrder, Running
  <2>2. \A q \in Pages : page'[q] # "push" => left'[q] = {}
    BY <1>1, <1>4 DEF PagesInOrder
  <2>3. \A q \in Pages \ Requested(total) : page'[q] \in {"none", "done"}
    BY <1>1, <1>4 DEF PagesInOrder
  <2>4. kind \in Chained =>
          \A q \in Pages : \A r \in Pages : q < r /\ page'[q] # "done" => page'[r] = "none"
    BY <1>1, <1>4
  <2> QED BY <1>1, <1>3, <2>1, <2>2, <2>3, <2>4 DEF PagesInOrder
<1>7. Closing'
  BY <1>1, <1>3 DEF Closing
<1>8. OnePlace'
  <2>1. \A q \in Pages : page'[q] \in {"none", "ask"} => page[q] \in {"none", "ask"}
    BY <1>1, <1>4
  <2> QED BY <1>1, <1>3, <2>1 DEF OnePlace
<1>9. CancelMeansFailed' /\ FetchersAccounted' /\ IdsAreRequested'
  BY <1>1, <1>3 DEF CancelMeansFailed, FetchersAccounted, IdsAreRequested
<1> QED BY <1>5, <1>6, <1>7, <1>8, <1>9

LEMMA PageSendsKeeps ==
  ASSUME DownloadInv, NEW p \in Pages, PageSends(p) PROVE DownloadInv'
<1> USE Typed DEF DownloadInv
<1>1. PICK e \in left[p] :
        /\ Running /\ kind = "flexera" /\ page[p] = "push"
        /\ left' = [left EXCEPT ![p] = @ \ {e}] /\ ids' = ids \cup {e}
        /\ UNCHANGED <<kind, goesOn, total, stage, page, idsClosed, item, idle, out,
                       outClosed, cancelled, failed, got>>
  BY DEF PageSends, envVars, outVars
<1>2. /\ Pages' = Pages /\ Entries' = Entries /\ (\A q : EntriesOf(q)' = EntriesOf(q))
      /\ Requested(total)' = Requested(total) /\ Busy' = Busy
  BY <1>1, Framed DEF Busy
<1>3. e \in Entries /\ e[1] = p /\ ~idsClosed
  BY <1>1, LeftOf DEF Closing
<1>4. TypeOK'
  BY <1>1, <1>2, <1>3 DEF TypeOK, PagesInOrder
<1>5. PagesInOrder'
  BY <1>1, <1>2 DEF PagesInOrder, Running
<1>6. Closing'
  BY <1>1, <1>2 DEF Closing
<1>7. OnePlace'
  BY <1>1, <1>2, <1>3 DEF PagesInOrder, OnePlace
<1>8. CancelMeansFailed' /\ FetchersAccounted'
  BY <1>1, <1>2, <1>3 DEF CancelMeansFailed, FetchersAccounted
<1>9. IdsAreRequested'
  BY <1>1, <1>2, <1>3 DEF IdsAreRequested, PagesInOrder
<1> QED BY <1>4, <1>5, <1>6, <1>7, <1>8, <1>9

LEMMA PagesEndKeeps ==
  ASSUME DownloadInv, PagesEnd PROVE DownloadInv'
<1> USE Typed DEF DownloadInv
<1>1. /\ Running /\ \A p \in Pages : page[p] = "done"
      /\ IF kind \in TwoStage THEN idsClosed' = TRUE /\ outClosed' = outClosed
                              ELSE outClosed' = TRUE /\ idsClosed' = idsClosed
      /\ cancelled' = IF kind = "flexera" /\ "pages" \in cancelled THEN {"pages", "items"}
                      ELSE cancelled
      /\ UNCHANGED <<kind, goesOn, total, stage, page, left, ids, item, idle, out, failed, got>>
  BY DEF PagesEnd, WaitReturned, envVars
<1>2. /\ Pages' = Pages /\ Entries' = Entries /\ (\A q : EntriesOf(q)' = EntriesOf(q))
      /\ Requested(total)' = Requested(total) /\ Busy' = Busy
  BY <1>1, Framed DEF Busy
<1>3. TypeOK'
  BY <1>1, <1>2 DEF TypeOK
<1>4. PagesInOrder' /\ OnePlace' /\ IdsAreRequested'
  BY <1>1, <1>2 DEF PagesInOrder, OnePlace, IdsAreRequested
<1>5. Closing'
  BY <1>1, <1>2 DEF Closing, Running, TwoStage
<1>6. CancelMeansFailed' /\ FetchersAccounted'
  BY <1>1, <1>2 DEF CancelMeansFailed, FetchersAccounted, TwoStage
<1> QED BY <1>3, <1>4, <1>5, <1>6

-----------------------------------------------------------------------------
\* What becomes of the busy ones when an entry goes on.
LEMMA BusyStep ==
  ASSUME TypeOK, NEW e \in Entries, NEW s \in {"none", "ask", "push", "done"},
         item' = [item EXCEPT ![e] = s]
  PROVE  /\ s \in {"ask", "push"} /\ e \in Busy => Busy' = Busy
         /\ s \in {"ask", "push"} /\ e \notin Busy =>
              Busy' = Busy \cup {e} /\ Cardinality(Busy') = Cardinality(Busy) + 1
         /\ s = "done" /\ e \in Busy =>
              Busy' = Busy \ {e} /\ Cardinality(Busy') = Cardinality(Busy) - 1
<1>1. DOMAIN item = Entries /\ DOMAIN item' = Entries
  BY Typed
<1>2. Busy' = IF s \in {"ask", "push"} THEN Busy \cup {e} ELSE Busy \ {e}
  BY <1>1 DEF Busy
<1>3. ASSUME s \in {"ask", "push"}, e \in Busy PROVE Busy' = Busy
  BY <1>2, <1>3
<1>4. ASSUME s \in {"ask", "push"}, e \notin Busy
      PROVE  Busy' = Busy \cup {e} /\ Cardinality(Busy') = Cardinality(Busy) + 1
  <2>1. Busy' = Busy \cup {e}
    BY <1>2, <1>4
  <2>2. Cardinality(Busy \cup {e}) = Cardinality(Busy) + 1
    BY <1>4, Typed, FS_AddElement
  <2> QED BY <2>1, <2>2
<1>5. ASSUME s = "done", e \in Busy
      PROVE  Busy' = Busy \ {e} /\ Cardinality(Busy') = Cardinality(Busy) - 1
  <2>1. Busy' = Busy \ {e}
    BY <1>2, <1>5
  <2>2. Cardinality(Busy \ {e}) = Cardinality(Busy) - 1
    BY <1>5, Typed, FS_RemoveElement
  <2> QED BY <2>1, <2>2
<1> QED BY <1>3, <1>4, <1>5

LEMMA FetcherTakesKeeps ==
  ASSUME DownloadInv, FetcherTakes PROVE DownloadInv'
<1> USE Typed DEF DownloadInv
<1>1. PICK e \in Entries :
        /\ Running /\ kind = "flexera" /\ idle > 0 /\ idle' = idle - 1
        /\ item[e] = "none" /\ item' = [item EXCEPT ![e] = "ask"]
        /\ e \notin out \cup failed.items /\ got[e] = 0
        /\ e[1] \in Pages /\ page[e[1]] \notin {"none", "ask"}
        /\ \/ e \in ids /\ ids' = ids \ {e} /\ left' = left
           \/ /\ e \in left[e[1]] /\ left' = [left EXCEPT ![e[1]] = @ \ {e}]
              /\ ids' = ids
        /\ UNCHANGED <<kind, goesOn, total, stage, page, idsClosed, out, outClosed,
                       cancelled, failed, got>>
  <2>1. CASE \E e \in ids : ids' = ids \ {e} /\ Asked({e}) /\ UNCHANGED left
    <3>1. PICK e \in ids : ids' = ids \ {e} /\ Asked({e}) /\ UNCHANGED left
      BY <2>1
    <3>2. e \in Entries
      BY DEF TypeOK
    <3>3. item' = [item EXCEPT ![e] = "ask"]
      BY <3>1 DEF Asked
    <3> QED BY <3>1, <3>2, <3>3 DEF FetcherTakes, OnePlace, envVars, outVars
  <2>2. CASE \E p \in Pages : \E e \in left[p] :
               left' = [left EXCEPT ![p] = @ \ {e}] /\ Asked({e}) /\ UNCHANGED ids
    <3> PICK p \in Pages : \E e \in left[p] :
               left' = [left EXCEPT ![p] = @ \ {e}] /\ Asked({e}) /\ UNCHANGED ids
      BY <2>2
    <3>1. PICK e \in left[p] :
               left' = [left EXCEPT ![p] = @ \ {e}] /\ Asked({e}) /\ UNCHANGED ids
      OBVIOUS
    <3>2. e \in Entries /\ e[1] = p
      BY LeftOf
    <3>3. item' = [item EXCEPT ![e] = "ask"]
      BY <3>1 DEF Asked
    <3> QED BY <3>1, <3>2, <3>3 DEF FetcherTakes, OnePlace, PagesInOrder, envVars, outVars
  <2> QED BY <2>1, <2>2 DEF FetcherTakes
<1>2. /\ Pages' = Pages /\ Entries' = Entries /\ (\A q : EntriesOf(q)' = EntriesOf(q))
      /\ Requested(total)' = Requested(total)
  BY <1>1, Framed
<1>3. Busy' = Busy \cup {e} /\ Cardinality(Busy') = Cardinality(Busy) + 1
  <2>1. e \notin Busy
    BY <1>1 DEF Busy
  <2> QED BY <1>1, <2>1, BusyStep
<1>4. idle' \in 0 .. Fetchers
  BY <1>1, DownloadAssumption DEF TypeOK
<1>5. TypeOK'
  BY <1>1, <1>2, <1>4 DEF TypeOK, PagesInOrder
<1>6. PagesInOrder'
  BY <1>1, <1>2 DEF PagesInOrder, Running
<1>7. Closing'
  <2>1. kind \in TwoStage /\ kind \notin Spawning /\ ~outClosed
    BY <1>1 DEF Closing, TwoStage, Spawning
  <2> QED BY <1>1, <1>2, <2>1 DEF Closing
<1>8. OnePlace'
  BY <1>1, <1>2 DEF OnePlace, PagesInOrder, TypeOK
<1>9. FetchersAccounted'
  <2>1. idle' + Cardinality(Busy)' = idle + Cardinality(Busy)
    BY <1>1, <1>3 DEF TypeOK
  <2>2. cancelled = {} => (idsClosed' /\ ids' = {})
                          \/ idle + Cardinality(Busy) + Cardinality(failed.items) >= Fetchers
    BY <1>1, <1>2 DEF FetchersAccounted, Closing, PagesInOrder
  <2>3. idle' + Cardinality(Busy)' + Cardinality(failed.items)' =
          idle + Cardinality(Busy) + Cardinality(failed.items)
    BY <1>1, <2>1
  <2> QED BY <1>1, <2>1, <2>2, <2>3 DEF FetchersAccounted
<1>10. CancelMeansFailed' /\ IdsAreRequested'
  BY <1>1, <1>2 DEF CancelMeansFailed, IdsAreRequested
<1> QED BY <1>5, <1>6, <1>7, <1>8, <1>9, <1>10

LEMMA FetcherEndsKeeps ==
  ASSUME DownloadInv, FetcherEnds PROVE DownloadInv'
<1> USE Typed DEF DownloadInv
<1>1. /\ Running /\ kind = "flexera" /\ idle > 0 /\ idsClosed /\ ids = {}
      /\ idle' = idle - 1
      /\ UNCHANGED <<kind, goesOn, total, stage, page, left, ids, idsClosed, item, out,
                     outClosed, cancelled, failed, got>>
  BY DEF FetcherEnds, envVars, idVars, outVars
<1>2. /\ Pages' = Pages /\ Entries' = Entries /\ (\A q : EntriesOf(q)' = EntriesOf(q))
      /\ Requested(total)' = Requested(total) /\ Busy' = Busy
  BY <1>1, Framed DEF Busy
<1>3. idle' \in 0 .. Fetchers
  BY <1>1, DownloadAssumption DEF TypeOK
<1>4. TypeOK'
  BY <1>1, <1>2, <1>3 DEF TypeOK
<1>5. PagesInOrder' /\ OnePlace'
  BY <1>1, <1>2 DEF PagesInOrder, OnePlace
<1>6. Closing'
  BY <1>1, <1>2 DEF Closing, TypeOK
<1>7. FetchersAccounted'
  <2>1. idle' + Cardinality(Busy) <= idle + Cardinality(Busy)
    BY <1>1 DEF TypeOK
  <2>2. idle + Cardinality(Busy) <= Fetchers
    BY <1>1 DEF FetchersAccounted
  <2>3. idle' + Cardinality(Busy) <= Fetchers
    BY <1>1, <2>1, <2>2, DownloadAssumption DEF TypeOK
  <2> QED BY <1>1, <1>2, <2>3 DEF FetchersAccounted
<1>8. CancelMeansFailed' /\ IdsAreRequested'
  BY <1>1, <1>2 DEF CancelMeansFailed, IdsAreRequested
<1> QED BY <1>4, <1>5, <1>6, <1>7, <1>8

LEMMA CallerTakesKeeps ==
  ASSUME DownloadInv, NEW p \in Pages, CallerTakes(p) PROVE DownloadInv'
<1> USE Typed DEF DownloadInv
<1>1. PICK S \in SUBSET left[p] :
        /\ stage = "collect"
        /\ left' = [left EXCEPT ![p] = @ \ S]
        /\ item' = [e \in Entries |-> IF e \in S THEN "ask" ELSE item[e]]
        /\ UNCHANGED <<kind, goesOn, total, stage, page, ids, idsClosed, idle, out, outClosed,
                       cancelled, failed, got>>
  <2>1. \A S \in IF kind = "redhat" THEN {left[p]} ELSE {{e} : e \in left[p]} :
          S \in SUBSET left[p]
    OBVIOUS
  <2>2. DOMAIN item = Entries
    OBVIOUS
  <2> QED BY <2>1, <2>2 DEF CallerTakes, Asked, envVars, idVars, outVars
<1>2. /\ Pages' = Pages /\ Entries' = Entries /\ (\A q : EntriesOf(q)' = EntriesOf(q))
      /\ Requested(total)' = Requested(total)
  BY <1>1, Framed
<1>3. /\ kind \in Spawning /\ kind # "flexera" /\ kind \in TwoStage /\ ~outClosed
      /\ page[p] = "push" \/ left[p] = {}
  BY <1>1 DEF Closing, PagesInOrder, Spawning, TwoStage
<1>4. \A e \in S : e \in Entries /\ e[1] = p
  BY <1>1, LeftOf
<1>5. TypeOK'
  BY <1>1, <1>2 DEF TypeOK, PagesInOrder
<1>6. PagesInOrder'
  BY <1>1, <1>2 DEF PagesInOrder
<1>7. Closing'
  BY <1>1, <1>2, <1>3 DEF Closing
<1>8. OnePlace'
  <2>1. \A e \in S : e \in left[e[1]] /\ page[e[1]] = "push" /\ e \notin left'[e[1]]
    BY <1>1, <1>3, <1>4 DEF PagesInOrder
  <2>2. \A e \in Entries \ S : item'[e] = item[e]
    BY <1>1
  <2>3. \A e \in S : item'[e] = "ask"
    BY <1>1, <1>4
  <2>4. \A e \in Entries : e \in left'[e[1]] => e \in left[e[1]]
    BY <1>1 DEF PagesInOrder
  <2> QED BY <1>1, <1>2, <1>4, <2>1, <2>2, <2>3, <2>4 DEF OnePlace
<1>9. CancelMeansFailed' /\ FetchersAccounted' /\ IdsAreRequested'
  BY <1>1, <1>2, <1>3 DEF CancelMeansFailed, FetchersAccounted, IdsAreRequested
<1> QED BY <1>5, <1>6, <1>7, <1>8, <1>9

LEMMA CallerReturnsKeeps ==
  ASSUME DownloadInv, CallerReturns PROVE DownloadInv'
<1> USE Typed DEF DownloadInv
<1>1. /\ stage = "collect" /\ idsClosed /\ stage' = "consume"
      /\ UNCHANGED <<kind, goesOn, total, page, left, ids, idsClosed, item, idle, out,
                     outClosed, cancelled, failed, got>>
  BY DEF CallerReturns, envVars, idVars, outVars
<1>2. /\ Pages' = Pages /\ Entries' = Entries /\ (\A q : EntriesOf(q)' = EntriesOf(q))
      /\ Requested(total)' = Requested(total) /\ Busy' = Busy
  BY <1>1, Framed DEF Busy
<1>3. TypeOK'
  BY <1>1, <1>2 DEF TypeOK
<1>4. PagesInOrder' /\ Closing' /\ OnePlace'
  BY <1>1, <1>2 DEF PagesInOrder, Closing, OnePlace
<1>5. CancelMeansFailed' /\ FetchersAccounted' /\ IdsAreRequested'
  BY <1>1, <1>2 DEF CancelMeansFailed, FetchersAccounted, IdsAreRequested
<1> QED BY <1>3, <1>4, <1>5

LEMMA ItemAnsweredKeeps ==
  ASSUME DownloadInv, NEW e \in Entries, ItemAnswered(e) PROVE DownloadInv'
<1> USE Typed DEF DownloadInv
<1>1. /\ Running /\ item[e] = "ask" /\ item' = [item EXCEPT ![e] = "push"]
      /\ UNCHANGED <<kind, goesOn, total, stage, page, left, ids, idsClosed, idle, out,
                     outClosed, cancelled, failed, got>>
  BY DEF ItemAnswered, envVars, idVars, outVars
<1>2. /\ Pages' = Pages /\ Entries' = Entries /\ (\A q : EntriesOf(q)' = EntriesOf(q))
      /\ Requested(total)' = Requested(total)
  BY <1>1, Framed
<1>3. e \in Busy /\ Busy' = Busy
  <2>1. e \in Busy
    BY <1>1 DEF Busy
  <2> QED BY <1>1, <2>1, BusyStep
<1>4. TypeOK'
  BY <1>1, <1>2 DEF TypeOK
<1>5. PagesInOrder'
  BY <1>1, <1>2 DEF PagesInOrder
<1>6. Closing'
  <2>1. kind \in TwoStage
    BY <1>1 DEF Closing
  <2> QED BY <1>1, <1>2, <1>3, <2>1 DEF Closing
<1>7. OnePlace'
  BY <1>1, <1>2 DEF OnePlace
<1>8. CancelMeansFailed' /\ FetchersAccounted' /\ IdsAreRequested'
  BY <1>1, <1>2, <1>3 DEF CancelMeansFailed, FetchersAccounted, IdsAreRequested
<1> QED BY <1>4, <1>5, <1>6, <1>7, <1>8

LEMMA ItemFailsKeeps ==
  ASSUME DownloadInv, NEW e \in Entries, ItemFails(e) PROVE DownloadInv'
<1> USE Typed DEF DownloadInv
<1>1. /\ Running /\ item[e] = "ask" /\ item' = [item EXCEPT ![e] = "done"]
      /\ failed' = IF "items" \in cancelled THEN failed
                   ELSE [failed EXCEPT !["items"] = @ \cup {e}]
      /\ cancelled' = IF kind \in Grouped /\ ~goesOn THEN cancelled \cup {"items"} ELSE cancelled
      /\ UNCHANGED <<kind, goesOn, total, stage, page, left, ids, idsClosed, idle, out,
                     outClosed, got>>
  BY DEF ItemFails, Failed, Stops, envVars, idVars, outVars
<1>2. /\ Pages' = Pages /\ Entries' = Entries /\ (\A q : EntriesOf(q)' = EntriesOf(q))
      /\ Requested(total)' = Requested(total)
  BY <1>1, Framed
<1>3. /\ failed' \in [pages : SUBSET Pages, items : SUBSET Entries]
      /\ failed'.pages = failed.pages
      /\ failed'.items = IF "items" \in cancelled THEN failed.items ELSE failed.items \cup {e}
  BY <1>1 DEF TypeOK
<1>4. e \in Busy /\ Busy' = Busy \ {e} /\ Cardinality(Busy') = Cardinality(Busy) - 1
  <2>1. e \in Busy
    BY <1>1 DEF Busy
  <2> QED BY <1>1, <2>1, BusyStep
<1>5. TypeOK'
  BY <1>1, <1>2, <1>3 DEF TypeOK
<1>6. PagesInOrder'
  BY <1>1, <1>2 DEF PagesInOrder
<1>7. Closing'
  <2>1. kind \in TwoStage
    BY <1>1 DEF Closing
  <2> QED BY <1>1, <1>2, <1>4, <2>1 DEF Closing
<1>8. OnePlace'
  BY <1>1, <1>2, <1>3 DEF OnePlace, TypeOK
<1>9. CancelMeansFailed'
  BY <1>1, <1>3 DEF CancelMeansFailed, TypeOK
<1>10. FetchersAccounted'
  <2> SUFFICES ASSUME kind = "flexera"
               PROVE  /\ idle + Cardinality(Busy') <= Fetchers
                      /\ cancelled' = {} =>
                           \/ idsClosed /\ ids = {}
                           \/ idle + Cardinality(Busy') + Cardinality(failed'.items) >= Fetchers
    BY <1>1 DEF FetchersAccounted
  <2>1. idle \in Nat /\ Fetchers \in Nat
    BY DownloadAssumption DEF TypeOK
  <2>2. idle + Cardinality(Busy') <= Fetchers
    BY <1>4, <2>1 DEF FetchersAccounted
  <2>3. ASSUME cancelled' = {} PROVE Cardinality(failed'.items) = Cardinality(failed.items) + 1
    <3>1. "items" \notin cancelled
      BY <1>1, <2>3
    <3>2. e \notin failed.items
      BY <1>1 DEF OnePlace
    <3>3. Cardinality(failed.items \cup {e}) = Cardinality(failed.items) + 1
      BY <3>2, FS_AddElement
    <3> QED BY <1>3, <3>1, <3>3
  <2>4. cancelled' = {} => cancelled = {}
    BY <1>1
  <2> QED BY <1>4, <2>1, <2>2, <2>3, <2>4 DEF FetchersAccounted
<1>11. IdsAreRequested'
  BY <1>1, <1>2 DEF IdsAreRequested
<1> QED BY <1>5, <1>6, <1>7, <1>8, <1>9, <1>10, <1>11

\* An entry leaves its goroutine, for the channel or for the runner.
LEMMA ItemSendsKeeps ==
  ASSUME DownloadInv, NEW e \in Entries, ItemSends(e) PROVE DownloadInv'
<1> USE Typed DEF DownloadInv
<1>1. /\ Running /\ item[e] = "push" /\ item' = [item EXCEPT ![e] = "done"]
      /\ Cardinality(out) < Room /\ out' = out \cup {e} /\ idle' = idle + 1
      /\ UNCHANGED <<kind, goesOn, total, stage, page, left, ids, idsClosed,
                     outClosed, cancelled, failed, got>>
  BY DEF ItemSends, envVars, idVars
<1>2. /\ Pages' = Pages /\ Entries' = Entries /\ (\A q : EntriesOf(q)' = EntriesOf(q))
      /\ Requested(total)' = Requested(total)
  BY <1>1, Framed
<1>3. kind = "flexera"
  <2>1. Cardinality(out) \in Nat
    BY FS_Subset, FS_CardinalityType DEF TypeOK
  <2> QED BY <1>1, <2>1 DEF Room
<1>4. e \in Busy /\ Busy' = Busy \ {e} /\ Cardinality(Busy') = Cardinality(Busy) - 1
  <2>1. e \in Busy
    BY <1>1 DEF Busy
  <2> QED BY <1>1, <2>1, BusyStep
<1>5. /\ idle' + Cardinality(Busy') = idle + Cardinality(Busy)
      /\ idle' \in 0 .. Fetchers
  <2>1. idle \in Nat /\ Fetchers \in Nat
    BY DownloadAssumption DEF TypeOK
  <2>2. Cardinality(Busy') \in Nat
    BY <1>4, FS_RemoveElement, FS_CardinalityType
  <2>3. idle + Cardinality(Busy) <= Fetchers
    BY <1>3 DEF FetchersAccounted
  <2> QED BY <1>1, <1>4, <2>1, <2>2, <2>3
<1>6. TypeOK'
  BY <1>1, <1>2, <1>5 DEF TypeOK
<1>7. PagesInOrder'
  BY <1>1, <1>2 DEF PagesInOrder
<1>8. Closing'
  <2>1. kind \in TwoStage /\ kind \notin Spawning /\ ~outClosed
    BY <1>3, <1>4 DEF Closing, TwoStage, Spawning
  <2> QED BY <1>1, <1>2, <1>3, <2>1 DEF Closing
<1>9. OnePlace'
  BY <1>1, <1>2 DEF OnePlace
<1>10. FetchersAccounted'
  BY <1>1, <1>5 DEF FetchersAccounted
<1>11. CancelMeansFailed' /\ IdsAreRequested'
  BY <1>1, <1>2 DEF CancelMeansFailed, IdsAreRequested
<1> QED BY <1>6, <1>7, <1>8, <1>9, <1>10, <1>11

LEMMA ItemsEndKeeps ==
  ASSUME DownloadInv, ItemsEnd PROVE DownloadInv'
<1> USE Typed DEF DownloadInv
<1>1. /\ kind \in TwoStage /\ stage = "consume" /\ idle = 0 /\ Busy = {}
      /\ outClosed' = TRUE
      /\ cancelled' = IF kind = "flexera" /\ "items" \in cancelled THEN {"pages", "items"}
                      ELSE cancelled
      /\ UNCHANGED <<kind, goesOn, total, stage, page, left, ids, idsClosed, item, idle, out,
                     failed, got>>
  BY DEF ItemsEnd, CloseItems, WaitReturned, envVars, idVars
<1>2. /\ Pages' = Pages /\ Entries' = Entries /\ (\A q : EntriesOf(q)' = EntriesOf(q))
      /\ Requested(total)' = Requested(total) /\ Busy' = Busy
  BY <1>1, Framed DEF Busy
<1>3. TypeOK'
  BY <1>1, <1>2 DEF TypeOK
<1>4. PagesInOrder' /\ OnePlace' /\ IdsAreRequested'
  BY <1>1, <1>2 DEF PagesInOrder, OnePlace, IdsAreRequested
<1>5. Closing'
  BY <1>1, <1>2 DEF Closing
<1>6. CancelMeansFailed' /\ FetchersAccounted'
  BY <1>1, <1>2 DEF CancelMeansFailed, FetchersAccounted
<1> QED BY <1>3, <1>4, <1>5, <1>6

LEMMA ReceiveKeeps ==
  ASSUME DownloadInv, NEW e \in Entries, Receive(e) PROVE DownloadInv'
<1> USE Typed DEF DownloadInv
<1>1. /\ stage = "consume" /\ got' = [got EXCEPT ![e] = @ + 1] /\ got[e] = 0
      /\ UNCHANGED <<kind, goesOn, total, stage, page, ids, idsClosed, outClosed, cancelled,
                     failed>>
  BY DEF Receive, OnePlace, PagesInOrder, envVars, idVars
<1>2. /\ Pages' = Pages /\ Entries' = Entries /\ (\A q : EntriesOf(q)' = EntriesOf(q))
      /\ Requested(total)' = Requested(total)
  BY <1>1, Framed
<1>3. CASE e \in out /\ out' = out \ {e} /\ UNCHANGED <<left, item, idle>>
  <2> USE <1>1, <1>2, <1>3
  <2>1. Busy' = Busy
    BY DEF Busy
  <2>2. TypeOK' /\ PagesInOrder'
    BY DEF TypeOK, PagesInOrder
  <2>3. Closing' /\ OnePlace'
    BY <2>1 DEF Closing, OnePlace, TypeOK
  <2>4. CancelMeansFailed' /\ FetchersAccounted' /\ IdsAreRequested'
    BY <2>1 DEF CancelMeansFailed, FetchersAccounted, IdsAreRequested
  <2> QED BY <2>2, <2>3, <2>4
<1>4. CASE /\ item[e] = "push" /\ item' = [item EXCEPT ![e] = "done"]
           /\ idle' = IF kind = "flexera" THEN idle + 1 ELSE idle
           /\ UNCHANGED <<left, out>>
  <2> USE <1>1, <1>2, <1>4
  <2>1. e \in Busy /\ Busy' = Busy \ {e} /\ Cardinality(Busy') = Cardinality(Busy) - 1
    <3>1. e \in Busy
      BY DEF Busy
    <3> QED BY <3>1, BusyStep
  <2>2. /\ kind = "flexera" => idle' + Cardinality(Busy') = idle + Cardinality(Busy)
        /\ idle' \in 0 .. Fetchers
    <3>1. idle \in 0 .. Fetchers /\ Fetchers \in Nat
      BY DownloadAssumption DEF TypeOK
    <3>2. Cardinality(Busy') \in Nat
      BY <2>1, FS_RemoveElement, FS_CardinalityType
    <3>3. kind = "flexera" => idle + Cardinality(Busy) <= Fetchers
      BY DEF FetchersAccounted
    <3> QED BY <2>1, <3>1, <3>2, <3>3
  <2>3. TypeOK' /\ PagesInOrder'
    BY <2>2 DEF TypeOK, PagesInOrder
  <2>4. kind \in TwoStage /\ ~outClosed
    BY <2>1 DEF Closing
  <2>5. Closing'
    BY <2>4 DEF Closing
  <2>6. OnePlace'
    BY DEF OnePlace, TypeOK
  <2>7. CancelMeansFailed' /\ FetchersAccounted' /\ IdsAreRequested'
    BY <2>2 DEF CancelMeansFailed, FetchersAccounted, IdsAreRequested
  <2> QED BY <2>3, <2>5, <2>6, <2>7
<1>5. CASE /\ kind \notin TwoStage /\ e \in left[e[1]]
           /\ left' = [left EXCEPT ![e[1]] = @ \ {e}] /\ UNCHANGED <<item, idle, out>>
  <2> USE <1>1, <1>2, <1>5
  <2>1. Busy' = Busy /\ kind # "flexera" /\ e[1] \in Pages
    BY DEF Busy, TwoStage
  <2>2. TypeOK' /\ PagesInOrder'
    BY <2>1 DEF TypeOK, PagesInOrder
  <2>3. Closing' /\ OnePlace'
    BY <2>1 DEF Closing, OnePlace, PagesInOrder, TypeOK
  <2>4. CancelMeansFailed' /\ FetchersAccounted' /\ IdsAreRequested'
    BY <2>1 DEF CancelMeansFailed, FetchersAccounted, IdsAreRequested
  <2> QED BY <2>2, <2>3, <2>4
<1> QED BY <1>3, <1>4, <1>5 DEF Receive

LEMMA RunEndsKeeps ==
  ASSUME DownloadInv, RunEnds PROVE DownloadInv'
<1> USE Typed DEF DownloadInv
<1>1. /\ stage = "consume" /\ stage' \in Exits
      /\ UNCHANGED <<kind, goesOn, total, page, left, ids, idsClosed, item, idle, out,
                     outClosed, cancelled, failed, got>>
  BY DEF RunEnds, envVars, idVars, outVars
<1>2. /\ Pages' = Pages /\ Entries' = Entries /\ (\A q : EntriesOf(q)' = EntriesOf(q))
      /\ Requested(total)' = Requested(total) /\ Busy' = Busy
  BY <1>1, Framed DEF Busy
<1>3. TypeOK'
  BY <1>1, <1>2 DEF TypeOK
<1>4. PagesInOrder' /\ Closing' /\ OnePlace'
  BY <1>1, <1>2 DEF PagesInOrder, Closing, OnePlace, Exits
<1>5. CancelMeansFailed' /\ FetchersAccounted' /\ IdsAreRequested'
  BY <1>1, <1>2 DEF CancelMeansFailed, FetchersAccounted, IdsAreRequested
<1> QED BY <1>3, <1>4, <1>5

LEMMA StutterKeeps ==
  ASSUME DownloadInv, UNCHANGED vars PROVE DownloadInv'
<1>1. UNCHANGED <<kind, goesOn, total, stage, page, left, ids, idsClosed, item, idle, out,
                  outClosed, cancelled, failed, got>>
  BY DEF vars, envVars, idVars, outVars
<1>2. /\ Pages' = Pages /\ Entries' = Entries /\ (\A q : EntriesOf(q)' = EntriesOf(q))
      /\ Requested(total)' = Requested(total) /\ Busy' = Busy
  BY <1>1, Framed DEF Busy
<1> USE <1>1, <1>2 DEF DownloadInv
<1>3. TypeOK' /\ PagesInOrder'
  BY DEF TypeOK, PagesInOrder
<1>4. Closing' /\ OnePlace'
  BY DEF Closing, OnePlace
<1>5. CancelMeansFailed' /\ FetchersAccounted' /\ IdsAreRequested'
  BY DEF CancelMeansFailed, FetchersAccounted, IdsAreRequested
<1> QED BY <1>3, <1>4, <1>5

LEMMA NextDownloadInv == DownloadInv /\ [Next]_vars => DownloadInv'
BY FirstFailsKeeps, StartKeeps, PageAnsweredKeeps, PageFailsKeeps, PageSendsKeeps,
   PageEndsKeeps, PagesEndKeeps, FetcherTakesKeeps, FetcherEndsKeeps, CallerTakesKeeps,
   CallerReturnsKeeps, ItemAnsweredKeeps, ItemFailsKeeps, ItemSendsKeeps, ItemsEndKeeps,
   ReceiveKeeps, RunEndsKeeps, StutterKeeps DEF Next

LEMMA AlwaysDownloadInv == Spec => []DownloadInv
BY InitDownloadInv, NextDownloadInv, PTL DEF Spec

-----------------------------------------------------------------------------
(* runner.go, api/client.go of each provider: whatever fails, nobody sends on a closed
   channel, no entry is received twice, and flexera's pages are blocked only when the
   server lists more than it had counted.                                    *)
THEOREM ChannelsAreSafe == Spec => []Inv
<1>1. ASSUME DownloadInv PROVE NoSendOnClosed
  <2> USE <1>1, Typed DEF DownloadInv
  <2>1. idsClosed => \A p \in Pages : left[p] = {}
    BY DEF Closing, PagesInOrder
  <2>2. outClosed => \A e \in Entries : item[e] # "push"
    BY DEF Closing, Busy
  <2>3. outClosed => (kind \notin TwoStage => \A p \in Pages : left[p] = {})
    BY DEF Closing, PagesInOrder
  <2> QED BY <2>1, <2>2, <2>3 DEF NoSendOnClosed
<1>2. ASSUME DownloadInv PROVE EachEntryOnce
  <2> SUFFICES ASSUME NEW e \in Entries
               PROVE  got[e] \in 0 .. 1 /\ (e \in ids \cup out \cup left[e[1]] \cup Busy => got[e] = 0)
    BY DEF EachEntryOnce
  <2> USE <1>2, Typed DEF DownloadInv
  <2>1. got[e] \in 0 .. 1
    BY SMTT(30) DEF OnePlace, TypeOK
  <2>2. e \in Busy => item[e] \in {"ask", "push"}
    BY DEF Busy
  <2> QED BY <2>1, <2>2 DEF OnePlace
<1>3. ASSUME DownloadInv PROVE BlockedOnlyOverCount
  <2> DEFINE listed == UNION {EntriesOf(p) : p \in Requested(total)}
  <2> SUFFICES ASSUME kind = "flexera", Cardinality(ids) = total,
                      NEW p \in Pages, NEW e \in left[p]
               PROVE  Cardinality(listed) > total
    BY DEF BlockedOnlyOverCount, Room
  <2> USE <1>3, Typed DEF DownloadInv
  <2>1. e \in Entries /\ e[1] = p
    BY LeftOf
  <2>2. Requested(total) \subseteq Pages
    BY DEF Requested
  <2>3. ids \subseteq listed
    BY DEF IdsAreRequested, TypeOK
  <2>4. e \in listed
    BY <2>1 DEF PagesInOrder
  <2>5. e \notin ids
    BY <2>1 DEF OnePlace
  <2>6. listed \subseteq Entries
    BY <2>2
  <2>7. IsFiniteSet(listed) /\ Cardinality(listed) \in Nat
    BY <2>6, FS_Subset, FS_CardinalityType
  <2> HIDE DEF listed
  <2>8. Cardinality(ids \cup {e}) = total + 1 /\ Cardinality(ids \cup {e}) <= Cardinality(listed)
    <3>1. IsFiniteSet(ids)
      BY <2>3, <2>7, FS_Subset
    <3>2. Cardinality(ids \cup {e}) = Cardinality(ids) + 1
      BY <2>5, <3>1, FS_AddElement
    <3>3. ids \cup {e} \in SUBSET listed
      BY <2>3, <2>4
    <3> QED BY <2>7, <3>2, <3>3, FS_Subset
  <2>9. total \in Nat
    BY DownloadAssumption DEF TypeOK
  <2> QED BY <2>7, <2>8, <2>9
<1>4. DownloadInv => Inv
  BY <1>1, <1>2, <1>3 DEF DownloadInv, Inv
<1> QED BY <1>4, AlwaysDownloadInv, PTL

-----------------------------------------------------------------------------
\* Where an entry may be that the runner has not received, and what it was lost to.
Pending(e) == page[e[1]] \in {"none", "ask"} \/ e \in left[e[1]] \cup ids \cup out \cup Busy
Lost(e) ==
  \/ e \in failed.items \/ e[1] \in failed.pages
  \/ e[1] \notin Requested(total)
  \/ kind \in Chained /\ \E p \in failed.pages : p < e[1]
  \/ kind \in Grouped /\ ~goesOn /\ (failed.pages # {} \/ failed.items # {})
NothingVanishes == \A e \in Entries : Pending(e) \/ got[e] = 1 \/ Lost(e)

\* Red Hat's server lists nothing behind a page that is not full.
PagesAreFull ==
  "redhat" \in Kinds =>
    \A p, q \in DOMAIN Listed["redhat"] :
      p < q /\ Cardinality(Listed["redhat"][p]) < PageSize => Listed["redhat"][q] = {}

\* A failure stays one.
LEMMA LostStays ==
  ASSUME DownloadInv, DownloadInv', kind' = kind, goesOn' = goesOn, total' = total,
         failed.pages \subseteq failed'.pages, failed.items \subseteq failed'.items
  PROVE  Pages' = Pages /\ Entries' = Entries /\ \A e \in Entries : Lost(e) => Lost(e)'
<1>1. DOMAIN page' = DOMAIN page
  BY DEF DownloadInv, TypeOK
<1>2. Pages' = Pages /\ Entries' = Entries /\ Requested(total)' = Requested(total)
  BY <1>1, Framed
<1> QED BY <1>2 DEF Lost

\* Steps that fail nothing and start no page.
LEMMA NothingVanishesInOrder ==
  ASSUME DownloadInv, DownloadInv', NothingVanishes, stage # "start",
         UNCHANGED <<kind, goesOn, total, failed>>,
         \A e \in Entries : Pending(e) => Pending(e)' \/ got'[e] = 1,
         \A e \in Entries : got[e] = 1 => got'[e] = 1
  PROVE  NothingVanishes'
BY LostStays DEF NothingVanishes

LEMMA PageStepLosesNothing ==
  ASSUME PagesAreFull, DownloadInv, DownloadInv', NothingVanishes, NEW p \in Pages,
         PageAnswered(p) \/ PageSends(p) \/ PageEnds(p) \/ CallerTakes(p)
  PROVE  NothingVanishes'
<1> USE Typed DEF DownloadInv
<1>1. stage # "start" /\ UNCHANGED <<kind, goesOn, total, failed, got, out>>
  BY DEF PageAnswered, PageSends, PageEnds, CallerTakes, Running, envVars, outVars
<1>2. CASE PageAnswered(p)
  <2>1. /\ page' = [page EXCEPT ![p] = "push"] /\ left' = [left EXCEPT ![p] = EntriesOf(p)]
        /\ ids' = ids /\ item' = item
    BY <1>2 DEF PageAnswered, idVars
  <2>2. \A e \in Entries : Pending(e) => Pending(e)'
    BY <1>1, <2>1 DEF Pending, Busy, PagesInOrder
  <2> QED BY <1>1, <2>2, NothingVanishesInOrder
<1>3. CASE PageSends(p)
  <2>1. PICK e \in left[p] : /\ left' = [left EXCEPT ![p] = @ \ {e}] /\ ids' = ids \cup {e}
                             /\ page' = page /\ item' = item
    BY <1>3 DEF PageSends
  <2>2. \A f \in Entries : Pending(f) => Pending(f)'
    BY <1>1, <2>1 DEF Pending, Busy, PagesInOrder
  <2> QED BY <1>1, <2>2, NothingVanishesInOrder
<1>4. CASE PageEnds(p)
  <2>1. /\ page[p] = "push"
        /\ page' = [q \in Pages |->
                     IF kind \in Chained /\ ChainGoesOn(p) /\ q = p + 1 THEN "ask"
                     ELSE IF q = p \/ (kind \in Chained /\ q > p /\ ~ChainGoesOn(p)) THEN "done"
                     ELSE page[q]]
        /\ left' = left /\ ids' = ids /\ item' = item
    BY <1>4 DEF PageEnds, NextPage, idVars
  <2>2. ASSUME NEW e \in Entries, e[1] > p, kind \in Chained, ~ChainGoesOn(p) PROVE FALSE
    <3>1. e \in EntriesOf(e[1]) /\ p + 1 \in Pages
      BY <2>2, EntryFacts
    <3>2. kind = "redhat" /\ Cardinality(Listed[kind][p]) < PageSize
      <4>1. IsFiniteSet(Listed[kind][p])
        BY DownloadAssumption
      <4>2. Cardinality(Listed[kind][p]) \in Nat /\ PageSize \in Nat
        BY <4>1, FS_CardinalityType, DownloadAssumption
      <4> QED BY <2>2, <3>1, <4>2 DEF ChainGoesOn
    <3>3. Listed[kind][e[1]] = {}
      BY <2>2, <3>2 DEF PagesAreFull
    <3> QED BY <3>1, <3>3 DEF EntriesOf
  <2>3. \A e \in Entries : Pending(e) => Pending(e)'
    BY <1>1, <2>1, <2>2 DEF Pending, Busy
  <2> QED BY <1>1, <2>3, NothingVanishesInOrder
<1>5. CASE CallerTakes(p)
  <2>1. PICK S \in SUBSET left[p] :
          /\ left' = [left EXCEPT ![p] = @ \ S] /\ page' = page /\ ids' = ids
          /\ item' = [e \in Entries |-> IF e \in S THEN "ask" ELSE item[e]]
    <3>1. \A S \in IF kind = "redhat" THEN {left[p]} ELSE {{e} : e \in left[p]} :
            S \in SUBSET left[p]
      OBVIOUS
    <3>2. DOMAIN item = Entries
      OBVIOUS
    <3> QED BY <1>5, <3>1, <3>2 DEF CallerTakes, Asked, envVars, idVars
  <2>2. \A e \in Entries : Pending(e) => Pending(e)'
    BY <1>1, <2>1 DEF Pending, Busy, PagesInOrder
  <2> QED BY <1>1, <2>2, NothingVanishesInOrder
<1> QED BY <1>2, <1>3, <1>4, <1>5

LEMMA ItemStepLosesNothing ==
  ASSUME DownloadInv, DownloadInv', NothingVanishes, NEW e \in Entries,
         ItemAnswered(e) \/ ItemSends(e) \/ Receive(e)
  PROVE  NothingVanishes'
<1> USE Typed DEF DownloadInv
<1>1. stage # "start" /\ UNCHANGED <<kind, goesOn, total, failed, page, ids>>
  BY DEF ItemAnswered, ItemSends, Receive, Running, envVars, idVars
<1>2. CASE ItemAnswered(e)
  <2>1. item' = [item EXCEPT ![e] = "push"] /\ UNCHANGED <<left, out, got>>
    BY <1>2 DEF ItemAnswered, outVars
  <2>2. \A f \in Entries : Pending(f) => Pending(f)'
    BY <1>1, <2>1 DEF Pending, Busy
  <2> QED BY <1>1, <2>1, <2>2, NothingVanishesInOrder
<1>3. CASE ItemSends(e)
  <2>1. item' = [item EXCEPT ![e] = "done"] /\ out' = out \cup {e} /\ UNCHANGED <<left, got>>
    BY <1>3 DEF ItemSends
  <2>2. \A f \in Entries : Pending(f) => Pending(f)'
    BY <1>1, <2>1 DEF Pending, Busy
  <2> QED BY <1>1, <2>1, <2>2, NothingVanishesInOrder
<1>4. CASE Receive(e)
  <2>1. got' = [got EXCEPT ![e] = @ + 1] /\ got[e] = 0 /\ got'[e] = 1
    BY <1>4 DEF Receive, OnePlace, PagesInOrder, TypeOK
  <2>2. \A f \in Entries \ {e} : /\ item'[f] = item[f] /\ (f \in left[f[1]] => f \in left'[f[1]])
                                 /\ (f \in out => f \in out') /\ got'[f] = got[f]
    BY <1>4 DEF Receive, PagesInOrder, TypeOK
  <2>3. DOMAIN item' = Entries
    BY <1>4 DEF Receive
  <2>4. \A f \in Entries \ {e} : Pending(f) => Pending(f)'
    BY <1>1, <2>2, <2>3 DEF Pending, Busy
  <2> QED BY <1>1, <2>1, <2>2, <2>4, NothingVanishesInOrder
<1> QED BY <1>2, <1>3, <1>4

LEMMA FetcherLosesNothing ==
  ASSUME DownloadInv, DownloadInv', NothingVanishes,
         FetcherTakes \/ FetcherEnds \/ PagesEnd \/ CallerReturns \/ ItemsEnd \/ RunEnds
  PROVE  NothingVanishes'
<1> USE Typed DEF DownloadInv
<1>1. stage # "start" /\ UNCHANGED <<kind, goesOn, total, failed, page, got, out>>
  BY DEF FetcherTakes, FetcherEnds, PagesEnd, CallerReturns, ItemsEnd, CloseItems, RunEnds,
         Running, envVars, outVars
<1>2. CASE FetcherTakes
  <2>1. PICK e \in Entries :
          /\ item' = [item EXCEPT ![e] = "ask"]
          /\ ids \ {e} \subseteq ids'
          /\ \A f \in Entries \ {e} : f \in left[f[1]] => f \in left'[f[1]]
    <3>1. CASE \E e \in ids : ids' = ids \ {e} /\ Asked({e}) /\ UNCHANGED left
      <4>1. PICK e \in ids : ids' = ids \ {e} /\ Asked({e}) /\ UNCHANGED left
        BY <3>1
      <4>2. e \in Entries /\ item' = [item EXCEPT ![e] = "ask"]
        BY <4>1 DEF Asked, TypeOK
      <4> QED BY <4>1, <4>2
    <3>2. CASE \E p \in Pages : \E e \in left[p] :
                 left' = [left EXCEPT ![p] = @ \ {e}] /\ Asked({e}) /\ UNCHANGED ids
      <4> PICK p \in Pages : \E e \in left[p] :
                 left' = [left EXCEPT ![p] = @ \ {e}] /\ Asked({e}) /\ UNCHANGED ids
        BY <3>2
      <4>1. PICK e \in left[p] :
                 left' = [left EXCEPT ![p] = @ \ {e}] /\ Asked({e}) /\ UNCHANGED ids
        OBVIOUS
      <4>2. e \in Entries /\ item' = [item EXCEPT ![e] = "ask"]
        BY <4>1, LeftOf DEF Asked
      <4> QED BY <4>1, <4>2 DEF PagesInOrder
    <3> QED BY <1>2, <3>1, <3>2 DEF FetcherTakes
  <2>2. \A f \in Entries : Pending(f) => Pending(f)'
    BY <1>1, <2>1 DEF Pending, Busy
  <2> QED BY <1>1, <2>2, NothingVanishesInOrder
<1>3. CASE FetcherEnds \/ PagesEnd \/ CallerReturns \/ ItemsEnd \/ RunEnds
  <2>1. UNCHANGED <<left, ids, item>>
    BY <1>3 DEF FetcherEnds, PagesEnd, CallerReturns, ItemsEnd, CloseItems, RunEnds, idVars
  <2>2. \A f \in Entries : Pending(f) => Pending(f)'
    BY <1>1, <2>1 DEF Pending, Busy
  <2> QED BY <1>1, <2>2, NothingVanishesInOrder
<1> QED BY <1>2, <1>3

LEMMA StartLosesNothing ==
  ASSUME DownloadInv, DownloadInv', FirstFails \/ Start PROVE NothingVanishes'
<1> USE Typed DEF DownloadInv
<1>1. /\ \A e \in Entries : page[e[1]] = "none"
      /\ DOMAIN page' = DOMAIN page /\ kind' = kind /\ Pages' = Pages /\ Entries' = Entries
  <2>1. DOMAIN page' = DOMAIN page /\ kind' = kind
    BY DEF FirstFails, Start, envVars, Pages
  <2> QED BY <2>1, Framed DEF FirstFails, Start, PagesInOrder
<1>2. CASE FirstFails
  BY <1>1, <1>2 DEF FirstFails, NothingVanishes, Pending
<1>3. CASE Start
  <2>1. PICK n \in IF kind \in Counted THEN Counts ELSE {0} :
          /\ total' = n
          /\ page' = [p \in Pages |-> IF p \notin Requested(n) THEN "done"
                                      ELSE IF kind \in Chained /\ p > 1 THEN "none" ELSE "ask"]
    BY <1>3 DEF Start
  <2>2. Requested(total)' = Requested(n)
    BY <1>1, <2>1 DEF Requested, NumPages
  <2> QED BY <1>1, <2>1, <2>2 DEF NothingVanishes, Pending, Lost
<1> QED BY <1>2, <1>3

LEMMA PageFailureIsCounted ==
  ASSUME DownloadInv, DownloadInv', NothingVanishes, NEW p \in Pages, PageFails(p)
  PROVE  NothingVanishes'
<1> USE Typed DEF DownloadInv
<1>1. /\ page[p] = "ask"
      /\ page' = [q \in Pages |->
                   IF q = p THEN "done"
                   ELSE IF kind \in Chained /\ page[q] = "none" THEN "done" ELSE page[q]]
      /\ failed' = IF "pages" \in cancelled THEN failed
                   ELSE [failed EXCEPT !["pages"] = @ \cup {p}]
      /\ UNCHANGED <<kind, goesOn, total, left, ids, item, out, got>>
  BY DEF PageFails, PageFailsTo, PageOver, Failed, envVars, idVars, outVars
<1>2. /\ failed'.items = failed.items
      /\ failed'.pages = IF "pages" \in cancelled THEN failed.pages ELSE failed.pages \cup {p}
  BY <1>1 DEF TypeOK
<1>3. Pages' = Pages /\ Entries' = Entries /\ \A e \in Entries : Lost(e) => Lost(e)'
  BY <1>1, <1>2, LostStays
<1>4. ASSUME NEW e \in Entries, Pending(e), ~Pending(e)' PROVE Lost(e)'
  <2>1. e[1] = p \/ (kind \in Chained /\ page[e[1]] = "none")
    BY <1>1, <1>3, <1>4 DEF Pending, Busy
  <2>2. kind \in Chained /\ page[e[1]] = "none" => p < e[1]
    BY <1>1 DEF PagesInOrder
  <2>3. CASE "pages" \notin cancelled
    BY <1>1, <1>2, <2>1, <2>2, <2>3 DEF Lost
  <2>4. CASE "pages" \in cancelled
    BY <1>1, <1>2, <2>4 DEF Lost, CancelMeansFailed
  <2> QED BY <2>3, <2>4
<1> QED BY <1>1, <1>3, <1>4 DEF NothingVanishes

LEMMA ItemFailureIsCounted ==
  ASSUME DownloadInv, DownloadInv', NothingVanishes, NEW e \in Entries, ItemFails(e)
  PROVE  NothingVanishes'
<1> USE Typed DEF DownloadInv
<1>1. /\ item' = [item EXCEPT ![e] = "done"]
      /\ failed' = IF "items" \in cancelled THEN failed
                   ELSE [failed EXCEPT !["items"] = @ \cup {e}]
      /\ UNCHANGED <<kind, goesOn, total, page, left, ids, out, got>>
  BY DEF ItemFails, Failed, envVars, idVars, outVars
<1>2. /\ failed'.pages = failed.pages
      /\ failed'.items = IF "items" \in cancelled THEN failed.items ELSE failed.items \cup {e}
  BY <1>1 DEF TypeOK
<1>3. Pages' = Pages /\ Entries' = Entries /\ \A f \in Entries : Lost(f) => Lost(f)'
  BY <1>1, <1>2, LostStays
<1>4. ASSUME NEW f \in Entries, Pending(f), ~Pending(f)' PROVE Lost(f)'
  <2>1. f = e
    BY <1>1, <1>3, <1>4 DEF Pending, Busy
  <2>2. CASE "items" \notin cancelled
    BY <1>2, <2>1, <2>2 DEF Lost
  <2>3. CASE "items" \in cancelled
    BY <1>1, <1>2, <2>3 DEF Lost, CancelMeansFailed
  <2> QED BY <2>2, <2>3
<1> QED BY <1>1, <1>3, <1>4 DEF NothingVanishes

LEMMA NextLosesNothing ==
  ASSUME PagesAreFull, DownloadInv, DownloadInv', NothingVanishes, [Next]_vars
  PROVE  NothingVanishes'
<1>1. CASE UNCHANGED vars
  <2>1. UNCHANGED <<kind, goesOn, total, page, left, ids, item, out, failed, got>>
    BY <1>1 DEF vars, envVars, idVars, outVars
  <2>2. Entries' = Entries /\ Requested(total)' = Requested(total) /\ Busy' = Busy
    BY <2>1, Framed DEF Busy
  <2>3. \A e \in Entries : (Pending(e) => Pending(e)') /\ (Lost(e) => Lost(e)')
    BY <2>1, <2>2 DEF Pending, Lost
  <2> QED BY <2>1, <2>2, <2>3 DEF NothingVanishes
<1>2. CASE Next
  BY <1>2, StartLosesNothing, PageStepLosesNothing, PageFailureIsCounted, ItemStepLosesNothing,
     ItemFailureIsCounted, FetcherLosesNothing DEF Next
<1> QED BY <1>1, <1>2

\* Nothing is pending when the runner has emptied the closed channel, unless all of
\* flexera's fetchers have failed.
Explained(e) ==
  \/ got[e] = 1 \/ Lost(e)
  \/ kind = "flexera" /\ Cardinality(failed.items) >= Fetchers
LEMMA ExplainedIsExplained ==
  LossIsExplained <=> (stage = "exit 0" => \A e \in Entries : Explained(e))
BY DEF LossIsExplained, Explained, Lost
LEMMA WhatIsMissingWasLost ==
  ASSUME DownloadInv, NothingVanishes, outClosed, out = {}, stage = "consume",
         NEW e \in Entries
  PROVE  Explained(e)
<1> USE Typed DEF DownloadInv
<1>1. SUFFICES ASSUME Pending(e), ~Lost(e)
               PROVE  kind = "flexera" /\ Cardinality(failed.items) >= Fetchers
  BY DEF NothingVanishes, Explained
<1>2. ASSUME \A p \in Pages : page[p] = "done", ids = {}, Busy = {} PROVE FALSE
  BY <1>1, <1>2 DEF Pending, PagesInOrder
<1>3. kind \in TwoStage
  <2>1. ASSUME kind \notin TwoStage PROVE FALSE
    <3>1. (\A p \in Pages : page[p] = "done") /\ ids = {} /\ Busy = {}
      BY <2>1 DEF Closing, Busy, TwoStage
    <3> QED BY <1>2, <3>1
  <2> QED BY <2>1
<1>4. idle = 0 /\ Busy = {} /\ Cardinality(Busy) = 0
  BY <1>3, FS_EmptySet DEF Closing
<1>5. kind = "flexera"
  <2>1. ASSUME kind \in Spawning PROVE FALSE
    <3>1. (\A p \in Pages : page[p] = "done") /\ ids = {}
      BY <2>1 DEF Closing, Spawning
    <3> QED BY <1>2, <1>4, <3>1
  <2> QED BY <1>3, <2>1 DEF TwoStage
<1>6. cancelled = {}
  BY <1>1 DEF CancelMeansFailed, Lost
<1>7. ~(idsClosed /\ ids = {})
  BY <1>2, <1>4 DEF Closing
<1> QED BY <1>4, <1>5, <1>6, <1>7 DEF FetchersAccounted

LEMMA LossStaysExplained ==
  ASSUME DownloadInv, DownloadInv', NothingVanishes, LossIsExplained, [Next]_vars
  PROVE  LossIsExplained'
<1> USE Typed DEF DownloadInv
<1>1. SUFFICES ASSUME stage' = "exit 0" PROVE LossIsExplained'
  BY DEF LossIsExplained
<1>2. CASE stage # "exit 0"
  <2>1. RunEnds
    BY <1>1, <1>2 DEF Next, FirstFails, Start, PageAnswered, PageFails, PageFailsTo, PageSends,
       PageEnds, PagesEnd, FetcherTakes, FetcherEnds, CallerTakes, CallerReturns, ItemAnswered,
       ItemFails, ItemSends, ItemsEnd, CloseItems, Receive, vars, envVars
  <2>2. UNCHANGED <<kind, goesOn, total, page, failed, got>> /\ Entries' = Entries
    BY <2>1, Framed DEF RunEnds, envVars
  <2>3. Requested(total)' = Requested(total)
    BY <2>2 DEF Requested, Pages, NumPages
  <2>4. \A e \in Entries : Explained(e)
    BY <2>1, WhatIsMissingWasLost DEF RunEnds
  <2>5. \A e \in Entries : Explained(e)'
    BY <2>2, <2>3, <2>4 DEF Explained, Lost
  <2>6. (stage = "exit 0" => \A e \in Entries : Explained(e))'
    BY <2>2, <2>5
  <2> QED BY <2>6, ExplainedIsExplained, PTL
<1>3. CASE stage = "exit 0"
  <2>1. UNCHANGED <<kind, goesOn, total, page, failed, got>>
    BY <1>3 DEF Next, FirstFails, Start, PageAnswered, PageFails, PageFailsTo, PageSends,
       PageEnds, PagesEnd, FetcherTakes, FetcherEnds, CallerTakes, CallerReturns, ItemAnswered,
       ItemFails, ItemSends, ItemsEnd, CloseItems, Receive, RunEnds, Running, vars, envVars
  <2>2. Entries' = Entries /\ Requested(total)' = Requested(total)
    BY <2>1, Framed
  <2>3. \A e \in Entries : Explained(e)
    BY <1>3, ExplainedIsExplained
  <2>4. \A e \in Entries : Explained(e)'
    BY <2>1, <2>2, <2>3 DEF Explained, Lost
  <2>5. (stage = "exit 0" => \A e \in Entries : Explained(e))'
    BY <2>2, <2>4
  <2> QED BY <2>5, ExplainedIsExplained, PTL
<1> QED BY <1>2, <1>3

(* runner.go, api/client.go of each provider: what a run that ended well has not received
   was lost to a failure the clients log, whatever the server lists and whichever requests
   fail, if Red Hat's server fills its pages: its client takes a short one for the last. *)
THEOREM LossesAreFailures ==
  ASSUME PagesAreFull PROVE Spec => []LossIsExplained
<1> DEFINE LossInv == DownloadInv /\ NothingVanishes /\ LossIsExplained
<1>1. Init => LossInv
  <2> SUFFICES ASSUME Init PROVE LossInv
    OBVIOUS
  <2>1. DownloadInv
    BY InitDownloadInv
  <2>2. NothingVanishes /\ LossIsExplained
    BY <2>1, Typed DEF DownloadInv, PagesInOrder, NothingVanishes, Pending, LossIsExplained, Init
  <2> QED BY <2>1, <2>2
<1>2. LossInv /\ [Next]_vars => LossInv'
  BY NextDownloadInv, NextLosesNothing, LossStaysExplained
<1>3. LossInv => LossIsExplained
  OBVIOUS
<1> HIDE DEF LossInv
<1> QED BY <1>1, <1>2, <1>3, PTL DEF Spec
=============================================================================
