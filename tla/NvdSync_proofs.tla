---------------------------- MODULE NvdSync_proofs ----------------------------
(* What holds of the synchronisation for any feeds, any number of versions, and
   any number of failures and crashes.                                         *)
EXTENDS NvdSync, TLAPS

Busy == pc # "rest"
Replacing == pc \in Moves \cup {"clean"}

\* The server announces only what it has published, and takes nothing back.
ServerAhead ==
  \A g \in Files : atStart.announced[g] <= announced[g] /\ announced[g] <= published[g]

\* What a step of the run may rely on: a meta file is replaced before the data, of
\* a CPE file the etag has been written before; outcomes are those of ended runs.
RunState ==
  /\ outcome # "none" => ~Busy
  /\ pc \in {"rest", "check", "download", "etag", "etagWrite"} => part = "meta"
  /\ pc \notin Moves => move = "rename"
  /\ pc \in {"etag", "etagWrite"} => IsCpe
  /\ pc \in {"etag", "etagWrite"} \/ Replacing => want \in Versions /\ temp \in Versions
  /\ Replacing /\ IsCpe => part = "data"
  /\ slips <= faults

\* A file that a later step of the run will not touch again, or only to check it.
CurrentFile(g) ==
  disk[g]["data"] = disk[g]["meta"] /\ disk[g]["data"] >= atStart.announced[g]

\* The files the run has gone through: those of earlier feeds and those before its
\* position in this one.  A file may be listed twice: the one at hand is left out.
Behind(i, j) == i < feed \/ (i = feed /\ j < index)
Passed(g) ==
  \E i \in 1 .. Len(Feeds) : \E j \in 1 .. Len(Feeds[i]) : Behind(i, j) /\ g = Feeds[i][j]

\* A run without errors, and with one failed call at most, has left every CVE file it has
\* passed current so far, and the meta file it goes by is no older than the run.
RunIsCurrent ==
  Busy /\ ~errors =>
    /\ slips <= 1 => \A g \in CveFiles \ {f} : Passed(g) => CurrentFile(g)
    /\ (pc = "download" \/ Replacing) /\ ~IsCpe => want >= atStart.announced[f]
FileIsVerified ==
  Replacing /\ ~IsCpe =>
    /\ temp = want
    /\ slips <= 1 /\ part = "data" => disk[f]["meta"] = want

\* The calls that have failed where the run is: a copy within the directory takes one,
\* a restore another one before it.
FailedCalls ==
  /\ pc = "backup" /\ move # "rename" => slips >= 1
  /\ pc = "restore" => slips >= 1
  /\ pc = "restore" /\ move # "rename" => slips >= 2

\* With one failed call at most, the new file finds no old one in its place, so that it
\* is the new one, neither more nor less, from the end of the copy on.
New == IF part = "meta" THEN want ELSE temp
NewInPlace ==
  slips <= 1 =>
    /\ pc = "install" => move # "over"
    /\ pc = "install" /\ move = "rename" => disk[f][part] = Absent
    /\ pc = "clean" \/ (pc = "install" /\ move = "remove") => disk[f][part] = New

\* The .bak of data that was whole is whole while the run may need it.
BackupIsWhole ==
  part = "data" /\ f \in atStart.whole =>
    /\ pc = "install" /\ slips = 0 => disk[f]["data.bak"] \in Versions
    /\ pc = "restore" /\ slips <= 1 => disk[f]["data.bak"] \in Versions
    /\ f \notin atStart.backed /\ slips <= 1 =>
         /\ pc = "install" \/ (pc = "backup" /\ move = "remove") =>
              disk[f]["data.bak"] \in Versions
         /\ pc = "backup" => move # "over"

\* What is said of the file at hand while it is replaced.
FileInv == FileIsVerified /\ FailedCalls /\ NewInPlace /\ BackupIsWhole

\* Each data file that was whole when the run began is whole, but for the one being
\* replaced; and as long as nothing has failed, no .bak is left over.
WholeOrReplaced ==
  Busy /\ slips <= 1 =>
    \A g \in atStart.whole :
      Whole(g) \/ (g = f /\ part = "data" /\ pc \in {"install", "restore"})
NoLeftover ==
  Busy /\ slips = 0 =>
    \A g \in atStart.whole \ atStart.backed :
      ~Backed(g) \/ (g = f /\ part = "data" /\ pc \in {"install", "clean"})

SyncInv ==
  /\ TypeOK /\ ServerAhead /\ RunState /\ RunIsCurrent /\ FileInv
  /\ WholeOrReplaced /\ NoLeftover /\ RollbackKeepsData /\ SuccessIsCurrent /\ AlwaysACopy

-----------------------------------------------------------------------------
LEMMA AtHand == TypeOK => f \in Files /\ (IsCpe <=> f \notin CveFiles)
<1> SUFFICES ASSUME TypeOK PROVE f \in Files
  BY DEF IsCpe, CveFiles
<1>1. feed \in 1 .. Len(Feeds) /\ index \in 1 .. Len(Feeds[feed])
  BY DEF TypeOK
<1>2. f \in {Feeds[feed][j] : j \in 1 .. Len(Feeds[feed])}
  BY <1>1 DEF f
<1> QED BY <1>1, <1>2 DEF Files

LEMMA InitSyncInv == Init => SyncInv
<1> SUFFICES ASSUME Init PROVE SyncInv
  OBVIOUS
<1> USE SyncAssumption DEF Init
<1>1. TypeOK
  <2>1. 1 \in 1 .. Len(Feeds) /\ 1 \in 1 .. Len(Feeds[1])
    OBVIOUS
  <2>2. 1 \in Versions /\ Absent \in Contents
    BY DEF Versions, Contents
  <2>3. published \in [Files -> Versions] /\ announced \in [Files -> Versions]
    BY <2>2
  <2>4. disk \in [Files -> [Slots -> Contents]]
    BY <2>2
  <2>5. atStart \in [announced : [Files -> Versions], whole : SUBSET Files, backed : SUBSET Files]
    BY <2>3
  <2>6. 0 \in 0 .. MaxFaults /\ 0 \in 0 .. MaxCrashes /\ want \in {Absent} /\ temp \in {Absent}
    OBVIOUS
  <2> QED BY <2>1, <2>3, <2>4, <2>5, <2>6 DEF TypeOK
<1>2. ServerAhead
  BY DEF ServerAhead
<1>3. ~Busy /\ ~Replacing /\ outcome = "none" /\ pc \notin Moves
  BY DEF Busy, Replacing, Moves
<1>4. AlwaysACopy /\ FileInv
  BY <1>3 DEF AlwaysACopy, FileInv, FileIsVerified, FailedCalls, NewInPlace, BackupIsWhole, Moves
<1>5. QED
  BY <1>1, <1>2, <1>3, <1>4 DEF SyncInv, RunState, RunIsCurrent,
     WholeOrReplaced, NoLeftover, RollbackKeepsData, SuccessIsCurrent, Current

\* Where the run goes from a file, and what it has passed by then.
LEMMA AdvanceMoves ==
  ASSUME TypeOK, NEW failed \in BOOLEAN, Advance(failed)
  PROVE  /\ part' = "meta" /\ want' = Absent /\ temp' = Absent
         /\ errors' = (errors \/ failed) /\ errors' \in BOOLEAN
         /\ feed' \in 1 .. Len(Feeds) /\ index' \in 1 .. Len(Feeds[feed'])
         /\ \/ pc' = "check" /\ outcome' = outcome
            \/ pc' = "rest" /\ outcome' = IF errors' THEN "error" ELSE "ok"
         /\ ~errors' => \A g \in Files : Passed(g)' => Passed(g) \/ g = f
         /\ ~errors' /\ pc' = "rest" => \A g \in Files : Passed(g) \/ g = f
<1> USE SyncAssumption DEF TypeOK, Advance, MoreFiles
<1> DEFINE last == ~failed => ~MoreFiles
<1>0. /\ Len(Feeds) \in Nat /\ \A i \in 1 .. Len(Feeds) : Len(Feeds[i]) \in Nat \ {0}
  BY SMTT(30)
<1>1. /\ part' = "meta" /\ want' = Absent /\ temp' = Absent
      /\ errors' = (errors \/ failed) /\ errors' \in BOOLEAN
      /\ \/ pc' = "check" /\ outcome' = outcome
         \/ pc' = "rest" /\ outcome' = IF errors' THEN "error" ELSE "ok"
  OBVIOUS
<1>2. feed' \in 1 .. Len(Feeds) /\ index' \in 1 .. Len(Feeds[feed'])
  BY <1>0, SMTT(30)
<1>3. ASSUME ~errors', NEW g \in Files, Passed(g)'
      PROVE  Passed(g) \/ g = f
  <2>1. PICK i \in 1 .. Len(Feeds) : \E j \in 1 .. Len(Feeds[i]) : Behind(i, j)' /\ g = Feeds[i][j]
    BY <1>3 DEF Passed
  <2>2. PICK j \in 1 .. Len(Feeds[i]) : Behind(i, j)' /\ g = Feeds[i][j]
    BY <2>1
  <2>3. Behind(i, j) \/ (i = feed /\ j = index)
    <3> HIDE DEF TypeOK, MoreFiles
    <3>1. \/ feed' = feed /\ index' = index + 1
          \/ feed' = feed + 1 /\ index' = 1 /\ ~MoreFiles
          \/ feed' = feed /\ index' = index
      BY <1>3
    <3>2. /\ feed \in Nat /\ index \in Nat /\ i \in Nat /\ j \in Nat \ {0}
          /\ Len(Feeds[feed]) \in Nat /\ j <= Len(Feeds[i])
      BY <1>0 DEF TypeOK
    <3>3. i < feed' \/ (i = feed' /\ j < index')
      BY <2>2 DEF Behind
    <3>4. CASE i = feed
      <4>1. j <= index
        BY <3>1, <3>2, <3>3, <3>4 DEF MoreFiles
      <4> QED BY <3>2, <3>4, <4>1 DEF Behind
    <3>5. CASE i # feed
      <4>1. i < feed
        BY <3>1, <3>2, <3>3, <3>5
      <4> QED BY <4>1 DEF Behind
    <3> QED BY <3>4, <3>5
  <2> QED BY <2>2, <2>3 DEF Passed, f
<1>4. ASSUME ~errors', pc' = "rest", NEW g \in Files
      PROVE  Passed(g) \/ g = f
  <2>1. PICK i \in 1 .. Len(Feeds) : g \in {Feeds[i][j] : j \in 1 .. Len(Feeds[i])}
    BY DEF Files
  <2>2. PICK j \in 1 .. Len(Feeds[i]) : g = Feeds[i][j]
    BY <2>1
  <2>3. feed = Len(Feeds) /\ index = Len(Feeds[feed])
    BY <1>0, <1>4
  <2>4. Behind(i, j) \/ (i = feed /\ j = index)
    BY <1>0, <2>3 DEF Behind
  <2> QED BY <2>2, <2>4 DEF Passed, f
<1> QED BY <1>1, <1>2, <1>3, <1>4

\* A step that leaves a file leaves the invariant, if the file is as it should be.
LEMMA AdvanceKeeps ==
  ASSUME SyncInv, Busy, NEW failed \in BOOLEAN, Advance(failed), move' = "rename",
         UNCHANGED <<published, announced, crossDevice, atStart>>,
         faults' \in 0 .. MaxFaults, crashes' = crashes,
         slips' \in 0 .. MaxFaults, slips <= slips', slips' <= faults',
         disk' \in [Files -> [Slots -> Contents]],
         \A g \in Files \ {f} : disk'[g] = disk[g],
         ~failed /\ ~errors /\ ~IsCpe /\ slips' <= 1 =>
           /\ disk'[f]["data"] = disk'[f]["meta"]
           /\ disk'[f]["data"] >= atStart.announced[f],
         f \in atStart.whole /\ slips' <= 1 => disk'[f]["data"] \in Versions,
         f \in atStart.whole \ atStart.backed /\ slips' = 0 => disk'[f]["data.bak"] = Absent
  PROVE  SyncInv'
<1> USE DEF SyncInv
<1>0. slips \in Nat /\ slips' \in Nat /\ (slips' <= 1 => slips <= 1) /\ (slips' = 0 => slips = 0)
  BY SyncAssumption DEF TypeOK
<1>1. TypeOK'
  BY AdvanceMoves DEF TypeOK, Versions
<1>2. f \in Files /\ (IsCpe <=> f \notin CveFiles) /\ CveFiles \subseteq Files
  BY AtHand DEF CveFiles
<1>3. ServerAhead'
  BY <1>2 DEF ServerAhead
<1>4. /\ pc' \in {"check", "rest"} /\ part' = "meta" /\ ~Replacing' /\ pc' \notin Moves
      /\ pc' = "check" => outcome' = "none"
      /\ pc' = "rest" => outcome' = IF errors' THEN "error" ELSE "ok"
  BY AdvanceMoves DEF Replacing, RunState, Moves
<1>5. RunState' /\ FileInv'
  BY <1>4 DEF RunState, Busy, FileInv, FileIsVerified, FailedCalls, NewInPlace, BackupIsWhole,
     Replacing, Moves
<1>6. atStart.whole \subseteq Files
  BY DEF TypeOK
<1>7. slips' <= 1 => \A g \in atStart.whole : disk'[g]["data"] \in Versions
  BY <1>0, <1>2, <1>6 DEF WholeOrReplaced, Whole
<1>8. WholeOrReplaced' /\ RollbackKeepsData' /\ AlwaysACopy'
  BY <1>0, <1>7 DEF WholeOrReplaced, RollbackKeepsData, Whole, AlwaysACopy, HasCopy
<1>9. NoLeftover'
  BY <1>0, <1>2, <1>6 DEF NoLeftover, Backed
<1>10. ~errors' /\ slips' <= 1 => \A g \in CveFiles : Passed(g) \/ g = f => CurrentFile(g)'
  BY <1>0, <1>2, AdvanceMoves DEF RunIsCurrent, CurrentFile
<1>11. RunIsCurrent'
  BY <1>2, <1>4, <1>10, AdvanceMoves DEF RunIsCurrent
<1>12. SuccessIsCurrent'
  BY <1>2, <1>4, <1>10, AdvanceMoves DEF SuccessIsCurrent, Current, CurrentFile
<1> QED BY <1>1, <1>3, <1>5, <1>8, <1>9, <1>11, <1>12

\* What the run has at hand, as long as it does not move on.
LEMMA SamePlace ==
  ASSUME UNCHANGED <<feed, index>>
  PROVE  f' = f /\ (IsCpe' <=> IsCpe) /\ \A g : Passed(g)' <=> Passed(g)
BY DEF f, IsCpe, Passed, Behind

LEMMA ServerKeeps ==
  ASSUME SyncInv, NEW g \in Files, Publish(g) \/ Announce(g)
  PROVE  SyncInv'
<1> USE DEF SyncInv
<1>1. UNCHANGED <<disk, pc, move, part, feed, index, want, temp, errors, outcome, crossDevice,
                  faults, crashes, slips, atStart>>
  BY DEF Publish, Announce, history, place
<1>2. TypeOK' /\ ServerAhead'
  <2>0. published[g] \in Versions /\ announced[g] \in Versions
    BY DEF TypeOK, Versions
  <2>1. published' \in [Files -> Versions] /\ announced' \in [Files -> Versions]
    <3>1. CASE Publish(g)
      <4>1. published[g] + 1 \in Versions
        BY <2>0, <3>1 DEF Publish, Versions
      <4> QED BY <3>1, <4>1 DEF Publish, TypeOK
    <3>2. CASE Announce(g)
      BY <2>0, <3>2 DEF Announce, TypeOK
    <3> QED BY <3>1, <3>2
  <2>2. TypeOK'
    BY <1>1, <2>1 DEF TypeOK
  <2>3. ServerAhead'
    <3>1. ASSUME NEW h \in Files
          PROVE  /\ atStart.announced[h] \in Int /\ announced[h] \in Int /\ published[h] \in Int
                 /\ announced'[h] = announced[h] \/ announced'[h] = published[h]
                 /\ published'[h] = published[h] \/ published'[h] = published[h] + 1
                 /\ published'[h] = published[h] \/ announced'[h] = announced[h]
      BY DEF Publish, Announce, TypeOK, Versions
    <3> QED BY <1>1, <3>1 DEF ServerAhead
  <2> QED BY <2>2, <2>3
<1>3. f' = f /\ (IsCpe' <=> IsCpe) /\ \A h : Passed(h)' <=> Passed(h)
  BY <1>1, SamePlace
<1>4. RunState' /\ FileInv'
  BY <1>1, <1>3 DEF RunState, FileInv, FileIsVerified, FailedCalls, NewInPlace, New, BackupIsWhole,
     Busy, Replacing
<1>5. RunIsCurrent' /\ RollbackKeepsData' /\ SuccessIsCurrent' /\ AlwaysACopy'
  BY <1>1, <1>3 DEF RunIsCurrent, RollbackKeepsData, SuccessIsCurrent, AlwaysACopy, HasCopy,
     Current, CurrentFile, Busy, Replacing, Whole
<1>6. WholeOrReplaced' /\ NoLeftover'
  BY <1>1, <1>3 DEF WholeOrReplaced, NoLeftover, Whole, Backed, Busy
<1> QED BY <1>2, <1>4, <1>5, <1>6

LEMMA StartKeeps == SyncInv /\ StartRun => SyncInv'
<1> SUFFICES ASSUME SyncInv, StartRun PROVE SyncInv'
  OBVIOUS
<1> USE DEF SyncInv, StartRun, remote
<1>1. 1 \in 1 .. Len(Feeds) /\ 1 \in 1 .. Len(Feeds[1]) /\ MaxFaults \in Nat
  BY SyncAssumption
<1>2. atStart' \in [announced : [Files -> Versions], whole : SUBSET Files, backed : SUBSET Files]
  BY DEF TypeOK
<1>3. TypeOK'
  <2>1. feed' \in 1 .. Len(Feeds) /\ index' \in 1 .. Len(Feeds[feed']) /\ slips' \in 0 .. MaxFaults
    BY <1>1
  <2> QED BY <1>2, <2>1 DEF TypeOK
<1>4. ServerAhead'
  BY <1>2 DEF ServerAhead, TypeOK, Versions
<1>5. /\ part' = "meta" /\ move' = "rename" /\ pc' = "check" /\ outcome' = "none"
      /\ ~Replacing' /\ pc' \notin Moves /\ slips' = 0 /\ 0 <= faults'
  BY <1>1 DEF Replacing, RunState, TypeOK, Moves
<1>6. RunState' /\ FileInv'
  BY <1>5 DEF RunState, FileInv, FileIsVerified, FailedCalls, NewInPlace, BackupIsWhole, Busy, Moves
<1>7. \A g \in Files : ~Passed(g)'
  <2>1. \A i \in 1 .. Len(Feeds) : \A j \in 1 .. Len(Feeds[i]) : ~Behind(i, j)'
    BY DEF Behind
  <2> QED BY <2>1 DEF Passed
<1>8. \A g \in atStart'.whole : Whole(g)' /\ HasCopy(g)'
  BY DEF Whole, HasCopy
<1>9. RunIsCurrent' /\ WholeOrReplaced' /\ RollbackKeepsData' /\ SuccessIsCurrent' /\ AlwaysACopy'
  BY <1>5, <1>7, <1>8 DEF RunIsCurrent, WholeOrReplaced, RollbackKeepsData, SuccessIsCurrent,
     Current, AlwaysACopy, CveFiles
<1>10. NoLeftover'
  BY <1>2 DEF NoLeftover, Backed
<1> QED BY <1>3, <1>4, <1>6, <1>9, <1>10

\* A step within a file's program keeps the invariant if it keeps what the run may
\* rely on, and of the directory what is said of the file at hand.
LEMMA StepInPlace ==
  ASSUME SyncInv, Busy, Busy',
         UNCHANGED <<published, announced, feed, index, errors, outcome, crashes,
                     crossDevice, atStart>>,
         pc' \in {"download", "etag", "etagWrite", "clean"} \cup Moves,
         move' \in {"rename", "copy", "over", "remove"},
         part' \in {"meta", "data"}, want' \in Versions, temp' \in Versions \cup {Absent},
         faults' \in 0 .. MaxFaults, slips' \in 0 .. MaxFaults, slips <= slips',
         disk' \in [Files -> [Slots -> Contents]],
         \A g \in Files \ {f} : disk'[g] = disk[g],
         ~errors /\ ~IsCpe => want' >= atStart.announced[f],
         f \in atStart.whole /\ slips' <= 1 =>
           disk'[f]["data"] \in Versions \/ (part' = "data" /\ pc' \in {"install", "restore"}),
         f \in atStart.whole \ atStart.backed /\ slips' = 0 =>
           disk'[f]["data.bak"] = Absent \/ (part' = "data" /\ pc' \in {"install", "clean"}),
         RunState', FileInv'
  PROVE  SyncInv'
<1> USE DEF SyncInv
<1>0. slips \in Nat /\ slips' \in Nat /\ (slips' <= 1 => slips <= 1) /\ (slips' = 0 => slips = 0)
  BY SyncAssumption DEF TypeOK
<1>1. f \in Files /\ f' = f /\ (IsCpe' <=> IsCpe) /\ \A g : Passed(g)' <=> Passed(g)
  BY AtHand, SamePlace
<1>2. TypeOK'
  BY DEF TypeOK
<1>3. ServerAhead'
  BY <1>1 DEF ServerAhead
<1>4. RunIsCurrent'
  BY <1>0, <1>1 DEF RunIsCurrent, CurrentFile, CveFiles
<1>5. atStart.whole \subseteq Files
  BY DEF TypeOK
<1>6. WholeOrReplaced'
  BY <1>0, <1>1, <1>5 DEF WholeOrReplaced, Whole
<1>7. NoLeftover'
  BY <1>0, <1>1, <1>5 DEF NoLeftover, Backed
<1>8. RollbackKeepsData' /\ SuccessIsCurrent'
  BY DEF RollbackKeepsData, SuccessIsCurrent, Current, RunState
<1>9. AlwaysACopy'
  <2> SUFFICES ASSUME NEW g \in atStart.whole,
                      slips' = 0 \/ (slips' = 1 /\ g \notin atStart.backed)
               PROVE  HasCopy(g)'
    BY DEF AlwaysACopy
  <2>1. CASE Whole(g)'
    BY <2>1 DEF Whole, HasCopy
  <2>2. CASE g = f /\ part' = "data" /\ pc' \in {"install", "restore"}
    BY <1>0, <1>1, <2>2 DEF FileInv, BackupIsWhole, FailedCalls, HasCopy
  <2> QED BY <1>0, <1>1, <1>6, <2>1, <2>2 DEF WholeOrReplaced
<1> QED BY <1>2, <1>3, <1>4, <1>6, <1>7, <1>8, <1>9

\* The file at hand before any of its data is replaced, and what failures count.
LEMMA FileAtHand ==
  ASSUME SyncInv
  PROVE  /\ f \in Files /\ (IsCpe <=> f \notin CveFiles)
         /\ disk \in [Files -> [Slots -> Contents]] /\ disk[f] \in [Slots -> Contents]
         /\ published[f] \in Versions /\ announced[f] \in Versions
         /\ atStart.announced[f] <= announced[f]
         /\ announced[f] <= published[f] /\ atStart.announced[f] \in Versions
         /\ Versions \subseteq Nat /\ Torn \notin Versions /\ Absent \notin Versions
         /\ faults \in 0 .. MaxFaults /\ slips \in 0 .. MaxFaults /\ slips \in Nat
         /\ slips <= faults
         /\ Busy /\ slips <= 1 /\ ~(part = "data" /\ pc \in {"install", "restore"})
              => (f \in atStart.whole => disk[f]["data"] \in Versions)
         /\ Busy /\ slips = 0 /\ ~(part = "data" /\ pc \in {"install", "clean"})
              => (f \in atStart.whole \ atStart.backed => disk[f]["data.bak"] = Absent)
<1> USE DEF SyncInv
<1>1. f \in Files /\ (IsCpe <=> f \notin CveFiles)
  BY AtHand
<1>2. faults \in 0 .. MaxFaults /\ slips \in 0 .. MaxFaults /\ slips \in Nat /\ slips <= faults
  BY SyncAssumption DEF TypeOK, RunState
<1>3. atStart.announced \in [Files -> Versions]
  BY DEF TypeOK
<1>4. Busy /\ slips <= 1 /\ ~(part = "data" /\ pc \in {"install", "restore"})
        => (f \in atStart.whole => disk[f]["data"] \in Versions)
  BY DEF WholeOrReplaced, Whole
<1>5. Busy /\ slips = 0 /\ ~(part = "data" /\ pc \in {"install", "clean"})
        => (f \in atStart.whole \ atStart.backed => disk[f]["data.bak"] = Absent)
  BY DEF NoLeftover, Backed
<1>6. Versions \subseteq Nat /\ Torn \notin Versions /\ Absent \notin Versions
  BY DEF Versions, Torn, Absent
<1> QED BY <1>1, <1>2, <1>3, <1>4, <1>5, <1>6 DEF TypeOK, ServerAhead

LEMMA Counted ==
  ASSUME SyncInv, NEW n \in {0, 1, 2},
         Slips(n) \/ (Faults(n) /\ slips' = slips) \/ UNCHANGED <<faults, slips>>
  PROVE  /\ faults' \in 0 .. MaxFaults /\ slips' \in 0 .. MaxFaults
         /\ slips' \in Nat /\ slips <= slips' /\ slips' <= faults'
         /\ Slips(n) => slips' = slips + n
<1>1. slips \in Nat /\ faults \in Nat /\ slips <= faults /\ MaxFaults \in Nat /\ faults <= MaxFaults
  BY SyncAssumption DEF SyncInv, TypeOK, RunState
<1> QED BY <1>1 DEF Slips, Faults

LEMMA FailuresKeep ==
  SyncInv /\ (RequestFails \/ CheckStumbles \/ DownloadRefused \/ EtagFails) => SyncInv'
<1> SUFFICES ASSUME SyncInv, RequestFails \/ CheckStumbles \/ DownloadRefused \/ EtagFails
             PROVE  SyncInv'
  OBVIOUS
<1>1. /\ Busy /\ Advance(TRUE) /\ slips' = slips /\ (Faults(1) \/ UNCHANGED faults)
      /\ \/ pc \in {"check", "download", "etag", "etagWrite"}
         \/ pc = "backup" /\ part = "meta" /\ move = "rename"
      /\ UNCHANGED <<published, announced, crossDevice, atStart, crashes, disk, move>>
  BY DEF RequestFails, CheckStumbles, DownloadRefused, EtagFails, Busy, remote, history
<1>2. move' = "rename"
  BY <1>1 DEF SyncInv, RunState, Moves
<1>3. faults' \in 0 .. MaxFaults /\ slips' \in 0 .. MaxFaults /\ slips <= slips' /\ slips' <= faults'
  BY <1>1, Counted
<1>4. /\ f \in atStart.whole /\ slips' <= 1 => disk'[f]["data"] \in Versions
      /\ f \in atStart.whole \ atStart.backed /\ slips' = 0 => disk'[f]["data.bak"] = Absent
  BY <1>1, FileAtHand
<1> QED BY <1>1, <1>2, <1>3, <1>4, FileAtHand, AdvanceKeeps

LEMMA UpToDateKeeps == SyncInv /\ CheckUpToDate => SyncInv'
<1> SUFFICES ASSUME SyncInv, CheckUpToDate PROVE SyncInv'
  OBVIOUS
<1>1. /\ Busy /\ Advance(FALSE) /\ pc = "check" /\ ~NeedsUpdate(f)
      /\ UNCHANGED <<published, announced, crossDevice, atStart, crashes, disk, move, faults, slips>>
  BY DEF CheckUpToDate, Busy, remote, history
<1>2. move' = "rename"
  BY <1>1 DEF SyncInv, RunState, Moves
<1>3. faults' \in 0 .. MaxFaults /\ slips' \in 0 .. MaxFaults /\ slips <= slips' /\ slips' <= faults'
  BY <1>1, Counted
<1>4. /\ f \in atStart.whole /\ slips' <= 1 => disk'[f]["data"] \in Versions
      /\ f \in atStart.whole \ atStart.backed /\ slips' = 0 => disk'[f]["data.bak"] = Absent
  BY <1>1, FileAtHand
<1>5. ~IsCpe => disk'[f]["data"] = disk'[f]["meta"] /\ disk'[f]["data"] >= atStart.announced[f]
  BY <1>1, FileAtHand DEF NeedsUpdate, NeedsUpdateCve, IsCpe
<1> QED BY <1>1, <1>2, <1>3, <1>4, <1>5, FileAtHand, AdvanceKeeps

LEMMA DownloadKeeps == SyncInv /\ (CheckOutdated \/ Download) => SyncInv'
<1> SUFFICES ASSUME SyncInv, CheckOutdated \/ Download PROVE SyncInv'
  OBVIOUS
<1>1. /\ UNCHANGED <<published, announced, feed, index, errors, outcome, crashes,
                     crossDevice, atStart, faults, slips, disk, part, move>>
      /\ pc \in {"check", "download"} /\ part = "meta" /\ move = "rename" /\ outcome = "none"
  BY DEF CheckOutdated, Download, remote, history, SyncInv, RunState, Busy, Moves
<1>2. f' = f /\ (IsCpe' <=> IsCpe)
  BY <1>1, SamePlace
<1>3. faults' \in 0 .. MaxFaults /\ slips' \in 0 .. MaxFaults /\ slips <= slips' /\ slips' <= faults'
  BY <1>1, Counted
<1>4. /\ f \in atStart.whole /\ slips' <= 1 => disk'[f]["data"] \in Versions
      /\ f \in atStart.whole \ atStart.backed /\ slips' = 0 => disk'[f]["data.bak"] = Absent
  BY <1>1, FileAtHand DEF Busy
<1>5. CASE CheckOutdated
  <2>1. pc' = "download" /\ want' \in Versions /\ want' >= atStart.announced[f] /\ temp' = temp
    BY <1>5, FileAtHand DEF CheckOutdated, Versions
  <2>2. RunState' /\ FileInv'
    BY <1>1, <1>2, <1>3, <2>1 DEF RunState, FileInv, FileIsVerified, FailedCalls, NewInPlace,
       BackupIsWhole, Replacing, Moves
  <2>3. temp' \in Versions \cup {Absent}
    BY <2>1 DEF SyncInv, TypeOK
  <2> QED BY <1>1, <1>3, <1>4, <2>1, <2>2, <2>3, FileAtHand, StepInPlace DEF Busy
<1>6. CASE Download
  <2>1. /\ pc = "download" /\ temp' = published[f] /\ temp' \in Versions
        /\ IsCpe => pc' = "etag" /\ want' = temp'
        /\ ~IsCpe => pc' = "backup" /\ want' = want /\ want = temp'
        /\ want' \in Versions
    BY <1>6, FileAtHand DEF Download, Verified
  <2>2. ~errors /\ ~IsCpe => want' >= atStart.announced[f]
    BY <2>1 DEF SyncInv, RunIsCurrent, Busy
  <2>3. RunState' /\ FileInv'
    BY <1>1, <1>2, <1>3, <2>1 DEF RunState, FileInv, FileIsVerified, FailedCalls, NewInPlace,
       BackupIsWhole, Replacing, Moves
  <2>4. pc' \in {"etag", "backup"}
    BY <2>1
  <2> QED BY <1>1, <1>3, <1>4, <2>1, <2>2, <2>3, <2>4, FileAtHand, StepInPlace DEF Busy, Moves
<1> QED BY <1>5, <1>6

\* What the run relies on while it replaces the file at hand.
LEMMA RunAtHand ==
  ASSUME SyncInv, pc \in {"etag", "etagWrite"} \/ Replacing
  PROVE  /\ Busy /\ outcome = "none" /\ part \in {"meta", "data"}
         /\ want \in Versions /\ temp \in Versions
         /\ pc \in {"etag", "etagWrite"} => IsCpe /\ part = "meta"
         /\ pc \notin Moves => move = "rename"
         /\ Replacing /\ IsCpe => part = "data"
         /\ Replacing /\ ~IsCpe => temp = want
         /\ Replacing /\ ~IsCpe /\ part = "data" /\ slips <= 1 => disk[f]["meta"] = want
         /\ ~errors /\ ~IsCpe => want >= atStart.announced[f]
<1>1. Busy
  BY DEF Busy, Replacing, Moves
<1>2. part \in {"meta", "data"}
  BY DEF SyncInv, TypeOK
<1> QED
  BY <1>1, <1>2 DEF SyncInv, RunState, RunIsCurrent, FileInv, FileIsVerified

LEMMA EtagKeeps == SyncInv /\ (EtagTruncate \/ EtagWrite) => SyncInv'
<1> SUFFICES ASSUME SyncInv, EtagTruncate \/ EtagWrite PROVE SyncInv'
  OBVIOUS
<1>1. /\ UNCHANGED <<published, announced, feed, index, errors, outcome, crashes,
                     crossDevice, atStart, faults, slips, want, temp, move>>
      /\ pc \in {"etag", "etagWrite"} /\ move = "rename"
      /\ \/ pc' = "etagWrite" /\ part' = "meta"
         \/ pc' = "backup" /\ part' = "data"
  BY RunAtHand DEF EtagTruncate, EtagWrite, remote, history, place, Moves
<1>2. f' = f /\ (IsCpe' <=> IsCpe)
  BY <1>1, SamePlace
<1>3. PICK c \in Contents : disk' = [disk EXCEPT ![f]["meta"] = c]
  BY <1>1, RunAtHand DEF EtagTruncate, EtagWrite, Contents, Spoilt
<1>4. /\ disk' \in [Files -> [Slots -> Contents]]
      /\ \A g \in Files \ {f} : disk'[g] = disk[g]
      /\ disk'[f]["data"] = disk[f]["data"] /\ disk'[f]["data.bak"] = disk[f]["data.bak"]
  BY <1>3, FileAtHand DEF Slots
<1>5. faults' \in 0 .. MaxFaults /\ slips' \in 0 .. MaxFaults /\ slips <= slips' /\ slips' <= faults'
  BY <1>1, Counted
<1>6. /\ f \in atStart.whole /\ slips' <= 1 => disk'[f]["data"] \in Versions
      /\ f \in atStart.whole \ atStart.backed /\ slips' = 0 => disk'[f]["data.bak"] = Absent
  BY <1>1, <1>4, FileAtHand DEF Busy
<1>7. RunState' /\ FileInv'
  BY <1>1, <1>2, <1>5, RunAtHand DEF RunState, FileInv, FileIsVerified, FailedCalls, NewInPlace,
     BackupIsWhole, Replacing, Moves
<1> QED BY <1>1, <1>4, <1>5, <1>6, <1>7, RunAtHand, FileAtHand, StepInPlace DEF Busy, Moves

-----------------------------------------------------------------------------
\* What a move has in hand: where it takes from, where it puts, and what it leaves.
LEMMA MoveAtHand ==
  ASSUME SyncInv, pc \in Moves
  PROVE  /\ Replacing /\ part \in Slots /\ BakOf(part) \in Slots /\ part # BakOf(part)
         /\ part = "data" => BakOf(part) = "data.bak"
         /\ part = "meta" => BakOf(part) = "meta.bak"
         /\ New \in Versions
         /\ pc = "backup" => Source = part /\ Target = BakOf(part)
         /\ pc = "install" => Source \notin Slots /\ Target = part /\ Moved = New
         /\ pc = "restore" => Source = BakOf(part) /\ Target = part
         /\ pc # "install" => Moved = disk[f][Source]
         /\ Target \in Slots /\ Target # Source /\ Moved \in Contents
<1>1. Replacing /\ part \in {"meta", "data"} /\ pc \in {"backup", "install", "restore"}
  BY RunAtHand DEF Replacing, Moves
<1>2. /\ part \in Slots /\ BakOf(part) \in Slots /\ part # BakOf(part)
      /\ part = "data" => BakOf(part) = "data.bak"
      /\ part = "meta" => BakOf(part) = "meta.bak"
  BY <1>1 DEF Slots, BakOf
<1>3. New \in Versions
  BY <1>1, RunAtHand DEF New
<1>4. /\ pc = "backup" => Source = part /\ Target = BakOf(part)
      /\ pc = "install" => Source = "temp" /\ Target = part /\ Moved = New
      /\ pc = "restore" => Source = BakOf(part) /\ Target = part
      /\ pc # "install" => Moved = disk[f][Source]
  BY <1>1 DEF Source, Target, Moved, New
<1>5. Moved \in Contents
  BY <1>1, <1>2, <1>3, <1>4, FileAtHand DEF Contents
<1> QED BY <1>1, <1>2, <1>3, <1>4, <1>5 DEF Slots

LEMMA PutFacts ==
  ASSUME SyncInv, pc \in Moves, NEW c \in Contents
  PROVE  /\ Put(c) \in [Files -> [Slots -> Contents]]
         /\ \A g \in Files \ {f} : Put(c)[g] = disk[g]
         /\ \A s \in Slots : Put(c)[f][s] = IF s = Target THEN c ELSE disk[f][s]
BY MoveAtHand, FileAtHand DEF Put

LEMMA GoneFacts ==
  ASSUME SyncInv, NEW files \in [Files -> [Slots -> Contents]]
  PROVE  /\ Gone(files) \in [Files -> [Slots -> Contents]]
         /\ \A g \in Files \ {f} : Gone(files)[g] = files[g]
         /\ \A s \in Slots : Gone(files)[f][s] = IF s = Source THEN Absent ELSE files[f][s]
BY FileAtHand DEF Gone, Contents

\* A call of xRename that returns keeps the invariant: a backup leaves the place free and
\* the old data as .bak, an install the new file, and a restore the old data again; or so
\* many calls have failed that nothing is said of them.
LEMMA MoveReturns ==
  ASSUME SyncInv, pc \in Moves, NEW ok \in BOOLEAN, Returned(ok),
         UNCHANGED <<published, announced, crossDevice, atStart, crashes>>,
         faults' \in 0 .. MaxFaults, slips' \in 0 .. MaxFaults, slips <= slips', slips' <= faults',
         disk' \in [Files -> [Slots -> Contents]],
         \A g \in Files \ {f} : disk'[g] = disk[g],
         \A s \in Slots \ {Source, Target} : disk'[f][s] = disk[f][s],
         pc = "backup" /\ slips' <= 1 => disk'[f][part] = Absent,
         pc = "backup" /\ part = "data" /\ f \in atStart.whole
           /\ (slips' = 0 \/ (slips' <= 1 /\ f \notin atStart.backed))
             => disk'[f]["data.bak"] \in Versions,
         pc = "install" /\ ok /\ slips' <= 1 => disk'[f][part] = New,
         pc = "install" /\ ~ok => slips < slips',
         pc = "restore" /\ part = "data" /\ f \in atStart.whole /\ slips' <= 1
             => disk'[f]["data"] \in Versions
  PROVE  SyncInv'
<1>0. slips \in Nat /\ slips' \in Nat /\ (slips' <= 1 => slips <= 1) /\ (slips' = 0 => slips = 0)
  BY SyncAssumption DEF SyncInv, TypeOK
<1>1. part = "meta" \/ pc = "install" =>
        disk'[f]["data.bak"] = disk[f]["data.bak"]
  BY MoveAtHand, RunAtHand DEF Slots, Moves
<1>2. part = "meta" => disk'[f]["data"] = disk[f]["data"]
  BY MoveAtHand, RunAtHand DEF Slots, Moves
<1>3. part = "data" => disk'[f]["meta"] = disk[f]["meta"]
  BY MoveAtHand, RunAtHand DEF Slots, Moves
<1>4. CASE pc = "restore"
  <2>1. Advance(TRUE) /\ move' = "rename"
    BY <1>4 DEF Returned
  <2>2. slips' # 0
    BY <1>0, <1>4 DEF SyncInv, FileInv, FailedCalls
  <2>3. f \in atStart.whole /\ slips' <= 1 => disk'[f]["data"] \in Versions
    BY <1>0, <1>2, <1>4, MoveAtHand, RunAtHand, FileAtHand
  <2> QED BY <1>4, <2>1, <2>2, <2>3, MoveAtHand, RunAtHand, AdvanceKeeps
<1>5. CASE pc \in {"backup", "install"}
  <2>1. /\ UNCHANGED <<feed, index, errors, outcome, want, temp, part>> /\ move' = "rename"
        /\ pc = "backup" => pc' = "install"
        /\ pc = "install" => pc' = IF ok THEN "clean" ELSE "restore"
    BY <1>5 DEF Returned, place
  <2>2. f' = f /\ (IsCpe' <=> IsCpe) /\ New' = New /\ Replacing /\ Replacing' /\ Busy'
    BY <1>5, <2>1, SamePlace DEF New, Replacing, Moves, Busy
  <2>3. RunState'
    BY <1>5, <2>1, <2>2, RunAtHand DEF RunState, Busy
  <2>4. FileIsVerified'
    BY <1>0, <1>3, <2>1, <2>2, RunAtHand DEF FileIsVerified
  <2>5. FailedCalls'
    BY <1>0, <1>5, <2>1 DEF FailedCalls
  <2>6. NewInPlace'
    BY <1>5, <2>1, <2>2 DEF NewInPlace
  <2>7. BackupIsWhole'
    BY <1>0, <1>1, <1>5, <2>1, <2>2 DEF BackupIsWhole, SyncInv, FileInv
  <2>8. f \in atStart.whole /\ slips' <= 1 =>
          disk'[f]["data"] \in Versions \/ (part' = "data" /\ pc' \in {"install", "restore"})
    <3>1. CASE part = "meta"
      BY <1>0, <1>2, <2>2, <3>1, RunAtHand, FileAtHand
    <3>2. CASE part = "data"
      BY <1>5, <2>1, <3>2, MoveAtHand
    <3> QED BY <2>2, <3>1, <3>2, RunAtHand
  <2>9. f \in atStart.whole \ atStart.backed /\ slips' = 0 =>
          disk'[f]["data.bak"] = Absent \/ (part' = "data" /\ pc' \in {"install", "clean"})
    <3>1. CASE part = "meta"
      BY <1>0, <1>1, <2>2, <3>1, RunAtHand, FileAtHand
    <3>2. CASE part = "data"
      BY <1>0, <1>5, <2>1, <3>2
    <3> QED BY <2>2, <3>1, <3>2, RunAtHand
  <2> QED
    BY <1>5, <2>1, <2>2, <2>3, <2>4, <2>5, <2>6, <2>7, <2>8, <2>9, RunAtHand, StepInPlace
       DEF FileInv, Moves
<1> QED BY <1>4, <1>5 DEF Moves

LEMMA RenameKeeps == SyncInv /\ Rename => SyncInv'
<1> SUFFICES ASSUME SyncInv, Rename PROVE SyncInv'
  OBVIOUS
<1>1. /\ pc \in Moves /\ Returned(TRUE) /\ disk' = Gone(Put(Moved))
      /\ UNCHANGED <<published, announced, crossDevice, atStart, crashes, faults, slips>>
  BY DEF Rename, RenameTo, Starting, remote, history
<1>2. faults' \in 0 .. MaxFaults /\ slips' \in 0 .. MaxFaults /\ slips <= slips' /\ slips' <= faults'
  BY <1>1, Counted
<1>3. /\ disk' \in [Files -> [Slots -> Contents]]
      /\ \A g \in Files \ {f} : disk'[g] = disk[g]
      /\ \A s \in Slots : disk'[f][s] = IF s = Source THEN Absent
                                        ELSE IF s = Target THEN Moved ELSE disk[f][s]
  <2>1. /\ Put(Moved) \in [Files -> [Slots -> Contents]]
        /\ \A g \in Files \ {f} : Put(Moved)[g] = disk[g]
        /\ \A s \in Slots : Put(Moved)[f][s] = IF s = Target THEN Moved ELSE disk[f][s]
    BY <1>1, MoveAtHand, PutFacts
  <2>2. /\ disk' \in [Files -> [Slots -> Contents]]
        /\ \A g \in Files \ {f} : disk'[g] = Put(Moved)[g]
        /\ \A s \in Slots : disk'[f][s] = IF s = Source THEN Absent ELSE Put(Moved)[f][s]
    BY <1>1, <2>1, GoneFacts
  <2> QED BY <2>1, <2>2
<1>4. pc = "backup" => disk'[f][part] = Absent
  BY <1>1, <1>3, MoveAtHand
<1>5. pc = "backup" /\ part = "data" /\ f \in atStart.whole /\ slips' <= 1
        => disk'[f]["data.bak"] \in Versions
  BY <1>1, <1>3, MoveAtHand, RunAtHand, FileAtHand
<1>6. pc = "install" => disk'[f][part] = New
  BY <1>1, <1>3, MoveAtHand
<1>7. pc = "restore" /\ part = "data" /\ f \in atStart.whole /\ slips' <= 1
        => disk'[f]["data"] \in Versions
  BY <1>1, <1>3, MoveAtHand DEF SyncInv, FileInv, BackupIsWhole
<1>8. slips' = 0 => slips' <= 1
  OBVIOUS
<1> QED BY <1>1, <1>2, <1>3, <1>4, <1>5, <1>6, <1>7, <1>8, MoveReturns

LEMMA NotMovedKeeps == SyncInv /\ NotMoved => SyncInv'
<1> SUFFICES ASSUME SyncInv, NotMoved PROVE SyncInv'
  OBVIOUS
<1>1. /\ pc \in Moves /\ Returned(FALSE) /\ disk' = disk
      /\ UNCHANGED <<published, announced, crossDevice, atStart, crashes>>
      /\ \/ Moved = Absent /\ UNCHANGED <<faults, slips>>
         \/ Moved # Absent /\ pc = "install" /\ Slips(1)
         \/ Moved # Absent /\ Slips(2)
  BY DEF NotMoved, Starting, Across, remote, history
<1>2. /\ faults' \in 0 .. MaxFaults /\ slips' \in 0 .. MaxFaults /\ slips <= slips' /\ slips' <= faults'
      /\ Slips(1) => slips' = slips + 1
      /\ Slips(2) => slips' = slips + 2
  <2>1. CASE Slips(1)
    BY <2>1, Counted DEF Slips, Faults
  <2>2. CASE Slips(2)
    BY <2>2, Counted DEF Slips, Faults
  <2>3. CASE UNCHANGED <<faults, slips>>
    BY <2>3, Counted DEF Slips, Faults
  <2> QED BY <1>1, <2>1, <2>2, <2>3
<1>3. pc # "install" /\ slips' <= 1 => disk[f][Source] = Absent /\ slips <= 1
  BY <1>1, <1>2, MoveAtHand, FileAtHand
<1>4. pc = "backup" /\ slips' <= 1 => disk'[f][part] = Absent
  BY <1>1, <1>3, MoveAtHand
<1>5. ~(pc = "backup" /\ part = "data" /\ f \in atStart.whole /\ slips' <= 1)
  BY <1>1, <1>3, MoveAtHand, RunAtHand, FileAtHand
<1>6. pc = "install" => slips < slips'
  BY <1>1, <1>2, MoveAtHand, FileAtHand
<1>7. ~(pc = "restore" /\ part = "data" /\ f \in atStart.whole /\ slips' <= 1)
  BY <1>1, <1>3, MoveAtHand, FileAtHand DEF SyncInv, FileInv, BackupIsWhole
<1>8. slips' = 0 => slips' <= 1
  OBVIOUS
<1> QED BY <1>1, <1>2, <1>4, <1>5, <1>6, <1>7, <1>8, FileAtHand, MoveReturns

LEMMA RemoveKeeps == SyncInv /\ RemoveSource => SyncInv'
<1> SUFFICES ASSUME SyncInv, RemoveSource PROVE SyncInv'
  OBVIOUS
<1>1. /\ pc \in Moves /\ move = "remove" /\ Returned(TRUE) /\ disk' = Gone(disk)
      /\ UNCHANGED <<published, announced, crossDevice, atStart, crashes, faults, slips>>
  BY DEF RemoveSource, remote, history
<1>2. faults' \in 0 .. MaxFaults /\ slips' \in 0 .. MaxFaults /\ slips <= slips' /\ slips' <= faults'
  BY <1>1, Counted
<1>3. /\ disk' \in [Files -> [Slots -> Contents]]
      /\ \A g \in Files \ {f} : disk'[g] = disk[g]
      /\ \A s \in Slots : disk'[f][s] = IF s = Source THEN Absent ELSE disk[f][s]
  BY <1>1, FileAtHand, GoneFacts
<1>4. pc = "backup" => disk'[f][part] = Absent /\ slips >= 1
  BY <1>1, <1>3, MoveAtHand DEF SyncInv, FileInv, FailedCalls
<1>5. pc = "backup" /\ part = "data" /\ f \in atStart.whole /\ slips' <= 1 /\ f \notin atStart.backed
        => disk'[f]["data.bak"] \in Versions
  BY <1>1, <1>3, MoveAtHand DEF SyncInv, FileInv, BackupIsWhole
<1>6. pc = "install" /\ slips' <= 1 => disk'[f][part] = New
  BY <1>1, <1>3, MoveAtHand DEF SyncInv, FileInv, NewInPlace
<1>7. pc = "restore" => slips' >= 2
  BY <1>1 DEF SyncInv, FileInv, FailedCalls
<1>8. (pc = "backup" => slips' # 0) /\ (pc = "restore" => ~(slips' <= 1))
  BY <1>1, <1>4, <1>7, FileAtHand
<1> QED BY <1>1, <1>2, <1>3, <1>4, <1>5, <1>6, <1>8, MoveReturns

LEMMA CopyFailsKeeps == SyncInv /\ CopyFails => SyncInv'
<1> SUFFICES ASSUME SyncInv, CopyFails PROVE SyncInv'
  OBVIOUS
<1>1. /\ pc \in Moves /\ move # "rename" /\ Returned(FALSE) /\ disk' = disk /\ Slips(1)
      /\ UNCHANGED <<published, announced, crossDevice, atStart, crashes>>
  BY DEF CopyFails, remote, history
<1>2. /\ faults' \in 0 .. MaxFaults /\ slips' \in 0 .. MaxFaults /\ slips <= slips' /\ slips' <= faults'
      /\ slips' = slips + 1
  BY <1>1, Counted
<1>3. pc # "install" => ~(slips' <= 1) /\ slips' # 0
  BY <1>1, <1>2, FileAtHand DEF SyncInv, FileInv, FailedCalls, Moves
<1>4. slips < slips'
  BY <1>2, FileAtHand
<1> QED BY <1>1, <1>2, <1>3, <1>4, FileAtHand, MoveReturns

\* A copy that goes on keeps the invariant.
LEMMA CopyKeeps == SyncInv /\ (CopyPart \/ CopyRest) => SyncInv'
<1> SUFFICES ASSUME SyncInv, CopyPart \/ CopyRest PROVE SyncInv'
  OBVIOUS
<1>1. /\ pc \in Moves /\ pc' = pc /\ move' \in {"copy", "over", "remove"}
      /\ UNCHANGED <<published, announced, feed, index, errors, outcome, crashes,
                     crossDevice, atStart, want, temp, part>>
      /\ Slips(1) \/ UNCHANGED <<faults, slips>>
  BY DEF CopyPart, CopyRest, Starting, Copying, remote, history, place
<1>2. /\ faults' \in 0 .. MaxFaults /\ slips' \in 0 .. MaxFaults /\ slips <= slips' /\ slips' <= faults'
      /\ slips' \in Nat /\ (slips' <= 1 => slips <= 1) /\ (slips' = 0 => slips = 0)
  BY <1>1, Counted, FileAtHand
<1>3. PICK c \in Contents : /\ disk' = Put(c)
                            /\ CopyRest /\ move = "copy" => c = Moved
  <2>1. Misfit \subseteq Contents /\ Spoilt \subseteq Contents /\ Moved \in Contents
        /\ disk[f][Target] \in Contents
    BY <1>1, MoveAtHand, FileAtHand DEF Misfit, Spoilt, Contents
  <2>2. CASE CopyPart
    <3>1. move = "rename"
      BY <2>2 DEF CopyPart, Starting
    <3> QED BY <2>1, <2>2, <3>1 DEF CopyPart
  <2>3. CASE CopyRest
    BY <2>1, <2>3 DEF CopyRest
  <2> QED BY <2>2, <2>3
<1>4. /\ disk' \in [Files -> [Slots -> Contents]]
      /\ \A g \in Files \ {f} : disk'[g] = disk[g]
      /\ \A s \in Slots : disk'[f][s] = IF s = Target THEN c ELSE disk[f][s]
  BY <1>1, <1>3, PutFacts
<1>5. f' = f /\ (IsCpe' <=> IsCpe) /\ New' = New /\ Replacing /\ Replacing' /\ Busy /\ Busy'
  BY <1>1, SamePlace DEF New, Replacing, Moves, Busy
<1>6. /\ part = "meta" \/ pc = "install" => disk'[f]["data.bak"] = disk[f]["data.bak"]
      /\ part = "meta" \/ pc = "backup" => disk'[f]["data"] = disk[f]["data"]
      /\ part = "data" => disk'[f]["meta"] = disk[f]["meta"]
  BY <1>1, <1>4, <1>5, MoveAtHand, RunAtHand DEF Slots, Moves
\* Within the directory a copy is the second try.
<1>7. (pc = "backup" => slips' >= 1) /\ (pc = "restore" => slips' >= 2)
  <2>1. CASE CopyPart
    <3>1. pc # "install" => Slips(1)
      BY <1>1, <2>1 DEF CopyPart, Across
    <3> QED BY <1>1, <3>1, Counted, FileAtHand DEF SyncInv, FileInv, FailedCalls
  <2>2. CASE CopyRest
    BY <1>1, <2>2 DEF CopyRest, Copying, SyncInv, FileInv, FailedCalls
  <2> QED BY <2>1, <2>2
<1>8. RunState'
  BY <1>1, <1>2, <1>5, RunAtHand DEF RunState, Busy, Moves
<1>9. FileIsVerified'
  BY <1>1, <1>2, <1>5, <1>6, RunAtHand DEF FileIsVerified
<1>10. FailedCalls'
  BY <1>1, <1>2, <1>7 DEF FailedCalls
<1>11. NewInPlace'
  <2> SUFFICES ASSUME slips' <= 1, pc = "install"
               PROVE  move' # "over" /\ (move' = "remove" => disk'[f][part] = New)
    BY <1>1, <1>5 DEF NewInPlace, Moves
  <2>1. CASE CopyPart
    <3>1. move = "rename" /\ disk[f][part] = Absent
      BY <1>2, <2>1 DEF CopyPart, Starting, SyncInv, FileInv, NewInPlace
    <3> QED BY <2>1, <3>1, MoveAtHand DEF CopyPart, Moves
  <2>2. CASE CopyRest
    <3>1. move = "copy" /\ move' = "remove"
      BY <1>2, <2>2 DEF CopyRest, Copying, SyncInv, FileInv, NewInPlace
    <3> QED BY <1>1, <1>3, <1>4, <2>2, <3>1, MoveAtHand
  <2> QED BY <2>1, <2>2
<1>12. BackupIsWhole'
  <2> SUFFICES ASSUME part = "data", f \in atStart.whole, slips' <= 1
               PROVE  /\ pc = "install" /\ slips' = 0 => disk'[f]["data.bak"] \in Versions
                      /\ pc # "restore"
                      /\ f \notin atStart.backed =>
                           /\ pc = "install" => disk'[f]["data.bak"] \in Versions
                           /\ pc = "backup" => /\ move' # "over"
                                               /\ move' = "remove" => disk'[f]["data.bak"] \in Versions
    BY <1>1, <1>2, <1>5 DEF BackupIsWhole
  <2>1. /\ pc = "install" /\ slips' = 0 => disk'[f]["data.bak"] \in Versions
        /\ pc = "install" /\ f \notin atStart.backed => disk'[f]["data.bak"] \in Versions
    BY <1>2, <1>6 DEF SyncInv, FileInv, BackupIsWhole
  <2>2. pc # "restore"
    BY <1>2, <1>7
  <2>3. ASSUME pc = "backup", f \notin atStart.backed
        PROVE  move' # "over" /\ (move' = "remove" => disk'[f]["data.bak"] \in Versions)
    <3>1. CASE CopyPart
      <4>1. slips = 0
        BY <1>2, <2>3, <3>1, Counted, FileAtHand DEF CopyPart, Across
      <4>2. disk[f][Target] = Absent
        BY <1>1, <1>5, <2>3, <4>1, MoveAtHand, FileAtHand
      <4> QED BY <3>1, <4>2 DEF CopyPart
    <3>2. CASE CopyRest
      <4>1. move = "copy" /\ move' = "remove"
        BY <1>2, <2>3, <3>2 DEF CopyRest, Copying, SyncInv, FileInv, BackupIsWhole
      <4>2. c = disk[f]["data"] /\ disk'[f]["data.bak"] = c
        BY <1>1, <1>3, <1>4, <2>3, <3>2, <4>1, MoveAtHand
      <4> QED BY <1>2, <1>5, <2>3, <4>1, <4>2, FileAtHand
    <3> QED BY <3>1, <3>2
  <2> QED BY <2>1, <2>2, <2>3
<1>13. f \in atStart.whole /\ slips' <= 1 =>
         disk'[f]["data"] \in Versions \/ (part' = "data" /\ pc' \in {"install", "restore"})
  BY <1>1, <1>2, <1>5, <1>6, RunAtHand, FileAtHand DEF Moves
<1>14. f \in atStart.whole \ atStart.backed /\ slips' = 0 =>
         disk'[f]["data.bak"] = Absent \/ (part' = "data" /\ pc' \in {"install", "clean"})
  BY <1>1, <1>2, <1>5, <1>6, <1>7, RunAtHand, FileAtHand DEF Moves
<1> QED
  BY <1>1, <1>2, <1>4, <1>5, <1>8, <1>9, <1>10, <1>11, <1>12, <1>13, <1>14, RunAtHand, StepInPlace
     DEF FileInv

LEMMA CleanKeeps == SyncInv /\ Clean => SyncInv'
<1> SUFFICES ASSUME SyncInv, Clean PROVE SyncInv'
  OBVIOUS
<1>1. /\ UNCHANGED <<published, announced, crashes, crossDevice, atStart, move>>
      /\ pc = "clean" /\ Replacing /\ move = "rename"
      /\ Slips(1) \/ UNCHANGED <<faults, slips>>
  BY RunAtHand DEF Clean, remote, history, Replacing, Moves
<1>2. /\ faults' \in 0 .. MaxFaults /\ slips' \in 0 .. MaxFaults /\ slips <= slips' /\ slips' <= faults'
      /\ slips' \in Nat /\ (slips' <= 1 => slips <= 1) /\ (slips' = 0 => slips = 0)
  BY <1>1, Counted, FileAtHand
<1>3. /\ disk' \in [Files -> [Slots -> Contents]]
      /\ \A g \in Files \ {f} : disk'[g] = disk[g]
      /\ disk'[f]["data"] = disk[f]["data"] /\ disk'[f]["meta"] = disk[f]["meta"]
      /\ part = "meta" => disk'[f]["data.bak"] = disk[f]["data.bak"]
      /\ part = "data" /\ slips' = 0 => disk'[f]["data.bak"] = Absent
  <2>1. CASE disk' = [disk EXCEPT ![f][BakOf(part)] = Absent]
    <3>1. BakOf(part) = IF part = "meta" THEN "meta.bak" ELSE "data.bak"
      BY DEF BakOf
    <3> QED BY <2>1, <3>1, FileAtHand DEF Slots, Contents
  <2>2. CASE disk' = disk /\ Slips(1)
    <3>1. slips' # 0
      BY <2>2, Counted, FileAtHand
    <3> QED BY <2>2, <3>1, FileAtHand
  <2> QED BY <2>1, <2>2 DEF Clean
<1>4. /\ f \in atStart.whole /\ slips' <= 1 => disk'[f]["data"] \in Versions
      /\ f \in atStart.whole \ atStart.backed /\ slips' = 0 => disk'[f]["data.bak"] = Absent
  BY <1>1, <1>2, <1>3, RunAtHand, FileAtHand
<1>5. slips <= 1 => disk[f][part] = New
  BY <1>1 DEF SyncInv, FileInv, NewInPlace
<1>6. CASE part = "meta"
  <2>1. /\ UNCHANGED <<feed, index, want, temp, errors, outcome>>
        /\ pc' = "backup" /\ part' = "data" /\ ~IsCpe
    BY <1>1, <1>6, RunAtHand DEF Clean
  <2>2. f' = f /\ (IsCpe' <=> IsCpe)
    BY <2>1, SamePlace
  <2>3. slips' <= 1 => disk'[f]["meta"] = want
    BY <1>2, <1>3, <1>5, <1>6 DEF New
  <2>4. RunState' /\ FileInv'
    BY <1>1, <1>2, <2>1, <2>2, <2>3, RunAtHand
       DEF RunState, FileInv, FileIsVerified, FailedCalls, NewInPlace, BackupIsWhole, Replacing,
           Moves, Busy
  <2> QED BY <1>1, <1>2, <1>3, <1>4, <2>1, <2>4, RunAtHand, FileAtHand, StepInPlace DEF Busy, Moves
<1>7. CASE part = "data"
  <2>1. Advance(FALSE)
    BY <1>7 DEF Clean
  <2>2. ~errors /\ ~IsCpe /\ slips' <= 1 =>
          disk'[f]["data"] = disk'[f]["meta"] /\ disk'[f]["data"] >= atStart.announced[f]
    BY <1>1, <1>2, <1>3, <1>5, <1>7, RunAtHand DEF New
  <2> QED BY <1>1, <1>2, <1>3, <1>4, <2>1, <2>2, RunAtHand, AdvanceKeeps
<1> QED BY <1>1, <1>6, <1>7, RunAtHand

LEMMA CrashKeeps == SyncInv /\ Crash => SyncInv'
<1> SUFFICES ASSUME SyncInv, Crash PROVE SyncInv'
  OBVIOUS
<1> USE DEF SyncInv, Crash, remote, history
<1>1. 1 \in 1 .. Len(Feeds) /\ 1 \in 1 .. Len(Feeds[1])
  BY SyncAssumption
<1>2. crashes' \in 0 .. MaxCrashes
  BY SyncAssumption DEF TypeOK
<1>3. TypeOK'
  BY <1>1, <1>2 DEF TypeOK
<1>4. ServerAhead' /\ ~Busy' /\ ~Replacing' /\ pc' = "rest" /\ part' = "meta" /\ pc' \notin Moves
  BY DEF ServerAhead, Busy, Replacing, Moves
<1>5. AlwaysACopy'
  BY DEF AlwaysACopy, HasCopy
<1>6. RunState' /\ FileInv'
  BY <1>4 DEF RunState, FileInv, FileIsVerified, FailedCalls, NewInPlace, BackupIsWhole
<1> QED BY <1>3, <1>4, <1>5, <1>6 DEF RunIsCurrent, WholeOrReplaced, NoLeftover,
        RollbackKeepsData, SuccessIsCurrent, Current

LEMMA StutterKeeps == SyncInv /\ UNCHANGED vars => SyncInv'
<1> SUFFICES ASSUME SyncInv, UNCHANGED vars PROVE SyncInv'
  OBVIOUS
<1> USE DEF SyncInv, vars, place
<1>1. f' = f /\ (IsCpe' <=> IsCpe) /\ \A h : Passed(h)' <=> Passed(h)
  BY SamePlace
<1>2. TypeOK' /\ ServerAhead'
  BY DEF TypeOK, ServerAhead
<1>3. RunState' /\ FileInv'
  BY <1>1 DEF RunState, FileInv, FileIsVerified, FailedCalls, NewInPlace, New, BackupIsWhole,
     Busy, Replacing
<1>4. RunIsCurrent' /\ RollbackKeepsData' /\ SuccessIsCurrent' /\ AlwaysACopy'
  BY <1>1 DEF RunIsCurrent, RollbackKeepsData, SuccessIsCurrent, AlwaysACopy, HasCopy,
     Current, CurrentFile, Busy, Replacing, Whole
<1>5. WholeOrReplaced' /\ NoLeftover'
  BY <1>1 DEF WholeOrReplaced, NoLeftover, Whole, Backed, Busy
<1> QED BY <1>2, <1>3, <1>4, <1>5

LEMMA NextSyncInv == SyncInv /\ [Next]_vars => SyncInv'
BY StartKeeps, FailuresKeep, UpToDateKeeps, DownloadKeeps, EtagKeeps, RenameKeeps, NotMovedKeeps,
   CopyKeeps, RemoveKeeps, CopyFailsKeeps, CleanKeeps, CrashKeeps, ServerKeeps, StutterKeeps
   DEF Next, FileStep

-----------------------------------------------------------------------------
(* For any feeds, however long, and any number of versions, failures and crashes, the
   disk and the run keep their types, and a run in which one call on the files has failed
   at most, and that ends, with errors or without, breaks no data file it found whole. *)
THEOREM EndedRunsBreakNothing == Spec => []Inv
<1>1. SyncInv => Inv
  BY DEF SyncInv, Inv
<1> QED BY <1>1, InitSyncInv, NextSyncInv, PTL DEF Spec

(* A run that ends without an error, though one call on the files may have failed, has made
   every CVE file whole and as new as what the server announced when it began, whatever
   earlier runs left behind and whatever the server publishes meanwhile. *)
THEOREM SuccessMeansCurrent == Spec => []SuccessIsCurrent
<1>1. SyncInv => SuccessIsCurrent
  BY DEF SyncInv
<1> QED BY <1>1, InitSyncInv, NextSyncInv, PTL DEF Spec

(* At every step of a run, and after a crash between two, each data file it found whole is
   there in a whole copy, under its name or under .bak, if no call has failed, or one has
   and the file had no .bak yet; on one device and across devices. *)
THEOREM ACopyIsKept == Spec => []AlwaysACopy
<1>1. SyncInv => AlwaysACopy
  BY DEF SyncInv
<1> QED BY <1>1, InitSyncInv, NextSyncInv, PTL DEF Spec
=============================================================================
