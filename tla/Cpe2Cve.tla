------------------------------- MODULE Cpe2Cve -------------------------------
(* cmd/cpe2cve: feeds and overrides are loaded, then records are read, looked up by
   workers that share a cache, and the rows they send written.  The records that
   reach Cache.Get are the calls of CveCache; one provider has one cache, and those
   of others would be copies of it.  A row is a record and a CVE.             *)
EXTENDS CveCache, LoadFeed

CONSTANTS Workers,
          Feeds, Overrides,  \* the files of either kind
          Input,             \* the records in order; one that is no call has too few fields
          Hits               \* <<key, identifier, file>>: the name matches that configuration

ASSUME PipelineAssumption ==
  /\ Feeds \cup Overrides \subseteq Files
  /\ Hits \subseteq (Keys \cup {EmptyKey}) \X Ids \X Files
  /\ Len(Input) \in Nat /\ DOMAIN Input = 1 .. Len(Input)
  \* each record is a call of its own
  /\ \A i, j \in DOMAIN Input : Input[i] = Input[j] /\ Input[i] \in Calls => i = j

VARIABLES stage,       \* of Main
          dicts,       \* the dictionary that was loaded
          overrides,
          next,        \* the place of the record to read next
          worker,      \* what each worker does
          rec,         \* its record
          left,        \* identifiers of the matches it has not sent
          writing,     \* the row the writer has received
          writerDone,
          written,     \* row -> how many times it was written
          outBroken,   \* the output has failed, which a csv.Writer never forgets
          total        \* the counter line.total

mainVars == <<stage, dicts, overrides>>
workVars == <<worker, rec, left>>
outVars == <<writing, writerDone, written, outBroken>>
pipeVars == <<mainVars, workVars, outVars, next, total>>
cvars == <<vars, loadVars, pipeVars>>

Rows == Calls \X Ids
Stages == {"feeds", "overrides", "read", "wait", "closed", "done", "exitMinus1", "exit0", "exit1"}
Running == failure = "none" /\ stage \notin {"exitMinus1", "exit0", "exit1"}

PipeInit ==
  /\ Init /\ LoadInit(Feeds)
  /\ stage = "feeds" /\ dicts = <<>> /\ overrides = <<>>
  /\ next = 1
  /\ worker = [w \in Workers |-> "receive"]
  /\ rec = [w \in Workers |-> None]
  /\ left = [w \in Workers |-> {}]
  /\ writing = {} /\ writerDone = FALSE
  /\ written = [row \in Rows |-> 0]
  /\ outBroken = FALSE
  /\ total = 0

\* matches of a name, of what the dictionary says now
Matched(k) ==
  {id \in DOMAIN dicts : /\ <<k, id, dicts[id]>> \in Hits
                         /\ id \in DOMAIN overrides => <<k, id, overrides[id]>> \notin Hits}

-----------------------------------------------------------------------------
\* feeds that could not be loaded are logged; no CVE at all ends Main
FeedsLoaded ==
  /\ stage = "feeds" /\ Loaded
  /\ dicts' = dict
  /\ IF DOMAIN dict = {} THEN stage' = "exitMinus1" /\ UNCHANGED loadVars
     ELSE stage' = "overrides" /\ LoadStarted(Overrides)
  /\ UNCHANGED <<vars, overrides, next, workVars, outVars, total>>
\* an override that could not be loaded ends Main
OverridesLoaded ==
  /\ stage = "overrides" /\ Loaded
  /\ IF errs # {} THEN stage' = "exitMinus1" /\ UNCHANGED <<overrides, loadVars>>
     ELSE stage' = "read" /\ overrides' = dict /\ LoadStarted({})
  /\ UNCHANGED <<vars, dicts, next, workVars, outVars, total>>

\* A record is handed to a worker that waits for one.  Of a record with too few
\* fields, or of none, nothing more is heard.
ReadRecord(w) ==
  /\ stage = "read" /\ worker[w] = "receive" /\ next <= Len(Input)
  /\ next' = next + 1
  /\ LET r == Input[next] IN
     IF r \in Calls
     THEN /\ worker' = [worker EXCEPT ![w] = "get"]
          /\ rec' = [rec EXCEPT ![w] = r]
          /\ total' = total + 1
     ELSE UNCHANGED <<worker, rec, total>>
  /\ UNCHANGED <<vars, loadVars, mainVars, left, outVars>>
\* An error that persists is logged and whatever was read, nothing, handed over.
ReadError(w) ==
  /\ stage = "read" /\ worker[w] = "receive" /\ next > Len(Input)
  /\ worker' = [worker EXCEPT ![w] = "skip"]
  /\ next' = Len(Input) + 2
  /\ UNCHANGED <<vars, loadVars, mainVars, rec, left, outVars, total>>
Skip(w) ==
  /\ worker[w] = "skip"
  /\ worker' = [worker EXCEPT ![w] = "receive"]
  /\ UNCHANGED <<vars, loadVars, mainVars, next, rec, left, outVars, total>>

\* Cache.Get begins, for some list of names, and goes on
CallGet(w) ==
  /\ worker[w] = "get"
  /\ \E k \in Keys :
       LookupUncached(rec[w], k) \/ LookupHit(rec[w], k) \/ LookupMiss(rec[w], k)
  /\ UNCHANGED <<loadVars, pipeVars>>
GetGoesOn(w) ==
  /\ worker[w] = "get"
  /\ CallStep(rec[w])
  /\ UNCHANGED <<loadVars, pipeVars>>
\* the matches that are left to send; with the last one the record is done
Remain(w, ids) ==
  /\ left' = [left EXCEPT ![w] = ids]
  /\ worker' = [worker EXCEPT ![w] = IF ids = {} THEN "receive" ELSE "send"]
  /\ rec' = [rec EXCEPT ![w] = IF ids = {} THEN None ELSE @]
\* what Get returns: matched by the call itself or by the one it has waited for
Got(w) ==
  /\ worker[w] = "get" /\ pc[rec[w]] = "done"
  /\ LET by == IF held[rec[w]] = None THEN rec[w] ELSE held[rec[w]] IN
     Remain(w, Matched(req[by]))
  /\ UNCHANGED <<vars, loadVars, mainVars, next, outVars, total>>
SendRow(w) ==
  /\ worker[w] = "send" /\ writing = {} /\ ~writerDone
  /\ \E id \in left[w] : Remain(w, left[w] \ {id}) /\ writing' = {<<rec[w], id>>}
  /\ UNCHANGED <<vars, loadVars, mainVars, next, writerDone, written, outBroken, total>>
\* the channel is closed
WorkerEnds(w) ==
  /\ worker[w] = "receive" /\ stage = "wait"
  /\ worker' = [worker EXCEPT ![w] = "end"]
  /\ UNCHANGED <<vars, loadVars, mainVars, next, rec, left, outVars, total>>

\* the row is written and flushed, or the output fails, which is logged
WriteAndKeep(kept) ==
  /\ writing # {}
  /\ writing' = kept
  /\ \/ /\ ~outBroken
        /\ written' = [row \in Rows |-> written[row] + Cardinality({row} \cap writing)]
        /\ UNCHANGED outBroken
     \/ outBroken' = TRUE /\ UNCHANGED written
  /\ UNCHANGED <<vars, loadVars, mainVars, next, workVars, writerDone, total>>
\* Faulty variant: the row may be written once more.
WriteRowAgain == \E kept \in {{}, writing} : WriteAndKeep(kept)
WriteRow == WriteAndKeep({})
EndWriterIf(ends) ==
  /\ writing = {} /\ ~writerDone /\ ends
  /\ writerDone' = TRUE
  /\ UNCHANGED <<vars, loadVars, mainVars, next, workVars, writing, written, outBroken,
                 total>>
\* Faulty variant: the writer returns at the first error, too.
WriterEndsAtError == EndWriterIf(outBroken \/ stage \in {"closed", "done"})
\* procOut is closed
WriterEnds == EndWriterIf(stage \in {"closed", "done"})

MainGoes(from, to) ==
  /\ stage = from /\ stage' = to
  /\ UNCHANGED <<vars, loadVars, dicts, overrides, next, workVars, outVars, total>>
\* io.EOF, if it was not another error
CloseIn == next = Len(Input) + 1 /\ MainGoes("read", "wait")
\* Faulty variant: procOut is closed without waiting for the workers.
CloseOutUnwaited == MainGoes("wait", "closed")
\* procWG.Wait, close(procOut), and processInput returns
CloseOut == (\A w \in Workers : worker[w] = "end") /\ MainGoes("wait", "closed")
\* the memory profile, if one is asked for, is written or cannot be created
Profiled == MainGoes("closed", "done")
ProfileFails == MainGoes("closed", "exit1")
Exit == writerDone /\ MainGoes("done", "exit0")

LoadGoesOn == stage \in {"feeds", "overrides"} /\ LoadStep /\ UNCHANGED <<vars, pipeVars>>
WorkerGoesOn(w) ==
  \/ Skip(w) \/ CallGet(w) \/ GetGoesOn(w) \/ Got(w) \/ SendRow(w) \/ WorkerEnds(w)
MainGoesOn ==
  \/ FeedsLoaded \/ OverridesLoaded \/ CloseIn \/ CloseOut \/ Profiled \/ ProfileFails \/ Exit
WriterGoesOn == WriteRow \/ WriterEnds

\* The process stops when Main has exited or a call has panicked.
PipeNext ==
  /\ Running
  /\ \/ LoadGoesOn \/ MainGoesOn \/ WriterGoesOn
     \/ \E w \in Workers : ReadRecord(w) \/ ReadError(w) \/ WorkerGoesOn(w)

PipeSpec == PipeInit /\ [][PipeNext]_cvars
\* The process is scheduled and the input never blocks for good: it has another
\* record, ends or fails.
PipeFairSpec ==
  /\ PipeSpec
  /\ WF_cvars(Running /\ LoadGoesOn)
  /\ WF_cvars(Running /\ MainGoesOn)
  /\ WF_cvars(Running /\ WriterGoesOn)
  /\ WF_cvars(Running /\ \E w \in Workers : ReadRecord(w))
  /\ \A w \in Workers : WF_cvars(Running /\ WorkerGoesOn(w))

-----------------------------------------------------------------------------
PipeTypeOK ==
  /\ stage \in Stages
  /\ DOMAIN dicts \subseteq Ids /\ DOMAIN overrides \subseteq Ids
  /\ next \in 1 .. Len(Input) + 2
  /\ worker \in [Workers -> {"receive", "skip", "get", "send", "end"}]
  /\ rec \in [Workers -> Calls \cup {None}]
  /\ left \in [Workers -> SUBSET Ids]
  /\ writing \subseteq Rows /\ Cardinality(writing) <= 1 /\ writerDone \in BOOLEAN
  /\ written \in [Rows -> 0 .. 1]
  /\ outBroken \in BOOLEAN
  /\ total \in 0 .. Len(Input)

\* the rows of the records read so far
Due == {row \in Rows : pc[row[1]] # "idle" /\ row[2] \in Matched(req[row[1]])}

(* No row is written that is not due, or twice: matches that a call got from another
   call's entry are those of its own names, also after eviction.               *)
OnlyDueOnce == \A row \in Rows : written[row] <= (IF row \in Due THEN 1 ELSE 0)

(* When cpe2cve ends well, every row of every complete record has been written and
   each of them counted: the channels are closed in the order that lets the last row
   through.  Only a failing output takes rows away, and it does so without a word in
   the exit status.                                                            *)
ExitsWell ==
  stage = "exit0" =>
    /\ total = Cardinality({k \in DOMAIN Input : Input[k] \in Calls})
    /\ \A r \in Calls : (\E k \in DOMAIN Input : Input[k] = r) => pc[r] = "done"
    /\ ~outBroken => \A row \in Due : written[row] = 1

(* When the memory profile cannot be created Main does not wait for the writer, and
   the row it has received may be lost, but no more than that one.             *)
ProfileLosesOneRow ==
  stage = "exit1" /\ ~outBroken =>
    Cardinality({row \in Due : written[row] = 0}) <= 1

(* However cpe2cve ends, it has lost no row but those a broken output or a profile that
   cannot be created takes away.                                               *)
ExitsComplete == ExitsWell /\ ProfileLosesOneRow

(* Records are only looked up in dictionaries that are not empty, and with every
   override there is: a part of the feeds may be missing, of the overrides none. *)
StartsLoaded ==
  stage \in {"read", "wait", "closed", "done", "exit0", "exit1"} =>
    /\ DOMAIN dicts # {}
    /\ DOMAIN overrides = UNION {Has[f] : f \in Overrides}

(* In every state the channels and counters are of their types, loaded dictionaries are
   complete, records meet all overrides, and no row is written twice or undue. *)
PipeInv == PipeTypeOK /\ LoadComplete /\ StartsLoaded /\ OnlyDueOnce

(* Once its feeds are there cpe2cve comes to an end, unless a call of Get panics or the
   input fails for good: then the error is logged over and over.               *)
ComesToAnEnd == []<>(~Running \/ next > Len(Input) + 1)

(* Even then every call of Get returns, unless one panics, and every row that is due is
   written, as long as the output works.                                       *)
RowsComeOut == EveryCallReturns /\ []<>(\A row \in Due : written[row] = 1 \/ outBroken \/ ~Running)
=============================================================================
