------------------------------ MODULE LoadFeed ------------------------------
(* cvefeed/dictionary.go, LoadFeed: a goroutine per file, and one each that collects
   the feeds and the errors they send.  What the dictionary has of a CVE is given by
   the file it was taken from.                                                *)
EXTENDS Integers, FiniteSets

CONSTANTS Files,  \* all that can be loaded
          Ids,    \* identifiers of CVEs, without the empty one that is not taken
          Has     \* file -> the identifiers it has an item with a configuration for

ASSUME HasAssumption == Has \in [Files -> SUBSET Ids]

VARIABLES paths,     \* the files LoadFeed was called with
          loader,    \* file -> what its goroutine does
          dictChan,  \* the files whose feeds are in the channel, which holds one
          errChan,   \* the files whose errors are in the other
          collector, \* what the goroutine of the feeds does; the errors' one likewise
          errCollector,
          dict,      \* identifier -> file
          errs       \* files whose errors have been collected

loadVars == <<paths, loader, dictChan, errChan, collector, errCollector, dict, errs>>

\* LoadFeed is called
LoadStarted(S) ==
  /\ paths' = S
  /\ loader' = [f \in Files |-> IF f \in S THEN "load" ELSE "none"]
  /\ dictChan' = {} /\ errChan' = {} /\ errs' = {}
  /\ collector' = "run" /\ errCollector' = "run"
  /\ dict' = <<>>
LoadInit(S) ==
  /\ paths = S
  /\ loader = [f \in Files |-> IF f \in S THEN "load" ELSE "none"]
  /\ dictChan = {} /\ errChan = {} /\ errs = {}
  /\ collector = "run" /\ errCollector = "run"
  /\ dict = <<>>

LoaderGoes(f, from, to) == loader[f] = from /\ loader' = [loader EXCEPT ![f] = to]

\* loadJSONFile: the file cannot be opened, unpacked or decoded, or is parsed
LoadFile(f) ==
  /\ \E outcome \in {"loaded", "failed"} : LoaderGoes(f, "load", outcome)
  /\ UNCHANGED <<paths, dictChan, errChan, collector, errCollector, dict, errs>>
SendFeed(f) ==
  /\ LoaderGoes(f, "loaded", "sent") /\ dictChan = {}
  /\ dictChan' = {f}
  /\ UNCHANGED <<paths, errChan, collector, errCollector, dict, errs>>
SendError(f) ==
  /\ LoaderGoes(f, "failed", "reported") /\ errChan = {}
  /\ errChan' = {f}
  /\ UNCHANGED <<paths, dictChan, collector, errCollector, dict, errs>>

\* a later feed replaces what an earlier one said of a CVE
Merged(f) == [id \in DOMAIN dict \cup Has[f] |-> IF id \in Has[f] THEN f ELSE dict[id]]
Collect ==
  \E f \in dictChan :
    /\ collector = "run"
    /\ dictChan' = {}
    /\ dict' = Merged(f)
    /\ UNCHANGED <<paths, loader, errChan, collector, errCollector, errs>>
CollectError ==
  \E f \in errChan :
    /\ errCollector = "run"
    /\ errChan' = {}
    /\ errs' = errs \cup {f}
    /\ UNCHANGED <<paths, loader, dictChan, collector, errCollector, dict>>

\* wg.Wait has returned and both channels are closed
AllSent == \A f \in paths : loader[f] \in {"sent", "reported"}
CollectorEnds ==
  /\ AllSent /\ dictChan = {} /\ collector = "run"
  /\ collector' = "done"
  /\ UNCHANGED <<paths, loader, dictChan, errChan, errCollector, dict, errs>>
ErrCollectorEnds ==
  /\ AllSent /\ errChan = {} /\ errCollector = "run"
  /\ errCollector' = "done"
  /\ UNCHANGED <<paths, loader, dictChan, errChan, collector, dict, errs>>

\* LoadFeed returns dict, and an error unless errs is empty
Loaded == AllSent /\ collector = "done" /\ errCollector = "done"

LoadStep ==
  \/ \E f \in paths : LoadFile(f) \/ SendFeed(f) \/ SendError(f)
  \/ Collect \/ CollectError \/ CollectorEnds \/ ErrCollectorEnds

-----------------------------------------------------------------------------
(* What LoadFeed returns has every CVE of every file that could be loaded, as one of
   the files that have it says, and tells of every file that could not: nothing is
   left in a channel and no later feed takes away what an earlier one brought.  *)
LoadComplete ==
  Loaded =>
    LET good == {f \in paths : loader[f] = "sent"} IN
    /\ DOMAIN dict = UNION {Has[f] : f \in good}
    /\ \A id \in DOMAIN dict : dict[id] \in good /\ id \in Has[dict[id]]
    /\ errs = paths \ good
=============================================================================
