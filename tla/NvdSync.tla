------------------------------- MODULE NvdSync -------------------------------
(* providers/nvd: Sync.Do brings the local copies of the NVD feeds up to date.
   A CVE feed is a list of files, each with a .meta file that holds the hash of
   the data; a CPE feed is one file with an .etag.  Every write to the directory
   is a step of its own, so a fault or a crash can fall between any two.       *)
EXTENDS Integers, Sequences, FiniteSets

CONSTANTS Feeds,        \* sequence of feeds, each the sequence of its files
          CpeFiles,     \* the files that belong to CPE feeds
          MaxVersion,   \* bound: file -> versions the server publishes of it
          MaxFaults,    \* bound: failing requests and file operations
          MaxCrashes    \* bound: crashes of the process

Files == UNION {{Feeds[i][j] : j \in 1 .. Len(Feeds[i])} : i \in 1 .. Len(Feeds)}
CveFiles == Files \ CpeFiles

ASSUME SyncAssumption ==
  /\ Feeds \in Seq(Seq(Files)) \ {<<>>} /\ CpeFiles \subseteq Files
  /\ \A i \in 1 .. Len(Feeds) : Len(Feeds[i]) > 0
  /\ MaxVersion \in [Files -> Nat \ {0}] /\ MaxFaults \in Nat /\ MaxCrashes \in Nat

Absent == 0
Torn == -1               \* neither whole nor as long as its meta file says, or an empty meta file
Garbled == -2            \* of the right length, or a meta file cut inside a line: reading it fails
Spoilt == {Torn, Garbled}
Versions == Nat \ {0}
Contents == Versions \cup {Absent} \cup Spoilt
Slots == {"meta", "meta.bak", "data", "data.bak"}
BakOf(part) == IF part = "meta" THEN "meta.bak" ELSE "data.bak"

VARIABLES
  published,    \* the server's data file
  announced,    \* the version the server's meta file describes
  disk,         \* the local directory: contents of each file's slots
  pc, part,     \* the step of the run, and the file it replaces: meta or data
  move,         \* the step of the xRename at hand
  feed, index,  \* position of the run in Feeds
  want, temp,   \* the version the run is after, and the one it downloaded
  errors,       \* some feed failed in this run
  outcome,      \* how the last run ended
  crossDevice,  \* the temporary directory is on another device than LocalDir
  faults, crashes,
  slips,        \* history: system calls of this run's replacements that failed
  atStart       \* history: what was announced, what was whole, what had a .bak at the start

remote == <<published, announced>>
history == <<atStart, crossDevice>>
place == <<part, feed, index, want, temp, errors, outcome>>
vars == <<published, announced, disk, pc, move, place, crossDevice, faults, crashes, slips,
          atStart>>

f == Feeds[feed][index]
IsCpe == f \in CpeFiles

Init ==
  /\ published = [g \in Files |-> 1] /\ announced = [g \in Files |-> 1]
  /\ disk = [g \in Files |-> [s \in Slots |-> Absent]]
  /\ pc = "rest" /\ move = "rename" /\ part = "meta" /\ feed = 1 /\ index = 1
  /\ want = Absent /\ temp = Absent
  /\ errors = FALSE /\ outcome = "none"
  /\ crossDevice \in BOOLEAN
  /\ faults = 0 /\ crashes = 0 /\ slips = 0
  /\ atStart = [announced |-> announced, whole |-> {}, backed |-> {}]

-----------------------------------------------------------------------------
(* The server replaces a data file first and its meta file some time later.  *)
Publish(g) ==
  /\ published[g] < MaxVersion[g]
  /\ published' = [published EXCEPT ![g] = @ + 1]
  /\ UNCHANGED <<announced, disk, pc, move, place, faults, crashes, slips, history>>

Announce(g) ==
  /\ announced[g] < published[g]
  /\ announced' = [announced EXCEPT ![g] = published[g]]
  /\ UNCHANGED <<published, disk, pc, move, place, faults, crashes, slips, history>>

-----------------------------------------------------------------------------
Whole(g) == disk[g]["data"] \in Versions
Backed(g) == disk[g]["data.bak"] # Absent

StartRun ==
  /\ pc = "rest"
  /\ pc' = "check" /\ feed' = 1 /\ index' = 1
  /\ errors' = FALSE /\ outcome' = "none" /\ slips' = 0
  /\ atStart' = [announced |-> announced, whole |-> {g \in Files : Whole(g)},
                 backed |-> {g \in Files : Backed(g)}]
  /\ UNCHANGED <<remote, disk, move, part, want, temp, crossDevice, faults, crashes>>

MoreFiles == index < Len(Feeds[feed])

(* CVE.Sync goes on to its next file unless this one failed; Sync.Do goes on
   to the next feed in any case and reports the errors at the end.           *)
Advance(failed) ==
  /\ errors' = (errors \/ failed)
  /\ want' = Absent /\ temp' = Absent /\ part' = "meta"
  /\ \/ /\ ~failed /\ MoreFiles
        /\ index' = index + 1 /\ pc' = "check" /\ UNCHANGED <<feed, outcome>>
     \/ /\ failed \/ ~MoreFiles
        /\ feed < Len(Feeds)
        /\ feed' = feed + 1 /\ index' = 1 /\ pc' = "check" /\ UNCHANGED outcome
     \/ /\ failed \/ ~MoreFiles
        /\ feed = Len(Feeds)
        /\ pc' = "rest" /\ outcome' = IF errors' THEN "error" ELSE "ok"
        /\ UNCHANGED <<feed, index>>

Faults(n) == faults + n <= MaxFaults /\ faults' = faults + n
\* n system calls fail while a file is replaced
Slips(n) == Faults(n) /\ slips' = slips + n

(* A request that fails ends the file, and so does a temporary meta file that cannot
   be written: nothing has been changed yet.                                 *)
RequestFails ==
  /\ pc \in {"check", "download"} \/ (pc = "backup" /\ part = "meta" /\ move = "rename")
  /\ Faults(1) /\ Advance(TRUE)
  /\ UNCHANGED <<remote, disk, move, crashes, slips, history>>

\* Faulty variant: equal meta files are taken for equal data.
NeedsUpdateMetaOnly(g) == disk[g]["meta"] # announced[g]

\* a missing, empty or different meta file; or data without the hash it names
NeedsUpdateCve(g) ==
  \/ disk[g]["meta"] # announced[g]
  \/ disk[g]["data"] # disk[g]["meta"]
\* the data file itself is not looked at
NeedsUpdateCpe(g) == disk[g]["meta"] # published[g]
NeedsUpdate(g) == IF g \in CpeFiles THEN NeedsUpdateCpe(g) ELSE NeedsUpdateCve(g)
(* The meta file, or the data the meta file describes, cannot be read: needsUpdate
   returns the error, in this run and in every later one.                    *)
Stumbles(g) ==
  /\ g \in CveFiles
  /\ disk[g]["meta"] = Garbled \/ (disk[g]["meta"] = announced[g] /\ disk[g]["data"] = Garbled)

CheckStumbles ==
  /\ pc = "check" /\ Stumbles(f)
  /\ Advance(TRUE)
  /\ UNCHANGED <<remote, disk, move, faults, crashes, slips, history>>

CheckUpToDate ==
  /\ pc = "check" /\ ~Stumbles(f) /\ ~NeedsUpdate(f)
  /\ Advance(FALSE)
  /\ UNCHANGED <<remote, disk, move, faults, crashes, slips, history>>

CheckOutdated ==
  /\ pc = "check" /\ ~Stumbles(f) /\ NeedsUpdate(f)
  /\ pc' = "download" /\ want' = announced[f]
  /\ UNCHANGED <<remote, disk, move, part, feed, index, temp, errors, outcome, faults,
                 crashes, slips, history>>

\* Faulty variant: the size and the hash are not compared.
Unverified == TRUE

(* The CVE download is refused unless its size and hash are those of the meta
   file read before; the CPE download brings its own etag.                   *)
Verified == IsCpe \/ published[f] = want

DownloadRefused ==
  /\ pc = "download" /\ ~Verified
  /\ Advance(TRUE)
  /\ UNCHANGED <<remote, disk, move, faults, crashes, slips, history>>

Download ==
  /\ pc = "download" /\ Verified
  /\ temp' = published[f]
  /\ \/ IsCpe /\ pc' = "etag" /\ want' = published[f]
     \/ ~IsCpe /\ pc' = "backup" /\ UNCHANGED want
  /\ UNCHANGED <<remote, disk, move, part, feed, index, errors, outcome, faults,
                 crashes, slips, history>>

-----------------------------------------------------------------------------
(* The etag is written in place: WriteFile truncates the file, then writes.  *)
EtagTruncate ==
  /\ pc = "etag" /\ pc' = "etagWrite"
  /\ disk' = [disk EXCEPT ![f]["meta"] = Torn]
  /\ UNCHANGED <<remote, move, place, faults, crashes, slips, history>>

EtagWrite ==
  /\ pc = "etagWrite" /\ pc' = "backup" /\ part' = "data"
  /\ disk' = [disk EXCEPT ![f]["meta"] = want]
  /\ UNCHANGED <<remote, move, feed, index, want, temp, errors, outcome, faults,
                 crashes, slips, history>>

EtagFails ==
  /\ pc \in {"etag", "etagWrite"}
  /\ Faults(1) /\ Advance(TRUE)
  /\ UNCHANGED <<remote, disk, move, crashes, slips, history>>

-----------------------------------------------------------------------------
(* Replacing a file takes up to three calls of xRename: its old contents are moved to
   .bak and the temporary file to its place; after an error the .bak is moved back.
   xRename renames, which is atomic.  When that fails, across devices or for any other
   reason, it copies and removes, into a target it creates but does not truncate.   *)
Moves == {"backup", "install", "restore"}
Source == IF pc = "install" THEN "temp" ELSE IF pc = "backup" THEN part ELSE BakOf(part)
Target == IF pc = "backup" THEN BakOf(part) ELSE part
Moved == IF pc = "install" THEN IF part = "meta" THEN want ELSE temp ELSE disk[f][Source]
Across == pc = "install" /\ crossDevice
Starting == pc \in Moves /\ move = "rename"
Copying == pc \in Moves /\ move \in {"copy", "over"}

\* the disk with c in the target, and the source gone or not
Put(c) == [disk EXCEPT ![f][Target] = c]
Gone(files) == [files EXCEPT ![f] = [s \in Slots |-> IF s = Source THEN Absent ELSE @[s]]]

\* Faulty variant: the error is returned with the .bak left where it is.
RestoreSkipped(ok) ==
  /\ move' = "rename"
  /\ \/ pc = "backup" /\ pc' = "install" /\ UNCHANGED place
     \/ pc = "install" /\ ok /\ pc' = "clean" /\ UNCHANGED place
     \/ pc = "install" /\ ~ok /\ Advance(TRUE)
(* What xRename returns is looked at after the install only.                 *)
Returned(ok) ==
  /\ move' = "rename"
  /\ \/ pc = "backup" /\ pc' = "install" /\ UNCHANGED place
     \/ pc = "install" /\ pc' = (IF ok THEN "clean" ELSE "restore") /\ UNCHANGED place
     \/ pc = "restore" /\ Advance(TRUE)

RenameTo(files) ==
  /\ Starting /\ ~Across /\ Moved # Absent
  /\ disk' = files /\ Returned(TRUE)
  /\ UNCHANGED <<remote, faults, crashes, slips, history>>
\* Faulty variant: the old file is removed, not renamed.
BackupRemoved == RenameTo(Gone(IF pc = "backup" THEN disk ELSE Put(Moved)))
Rename == RenameTo(Gone(Put(Moved)))

\* neither renamed nor copied: the source is not there, or a file cannot be opened
NotMoved ==
  /\ Starting
  /\ IF Moved = Absent THEN UNCHANGED <<faults, slips>> ELSE Slips(IF Across THEN 1 ELSE 2)
  /\ Returned(FALSE)
  /\ UNCHANGED <<remote, disk, crashes, history>>

\* what a file can hold that has another length than its meta file says
Misfit == IF pc = "install" /\ part = "data" THEN {Torn} ELSE Spoilt
\* A part has been copied, or nothing yet.
CopyPart ==
  /\ Starting /\ Moved # Absent
  /\ IF Across THEN UNCHANGED <<faults, slips>> ELSE Slips(1)
  /\ \E c \in IF disk[f][Target] = Absent THEN Misfit ELSE {disk[f][Target]} \cup Spoilt :
       disk' = Put(c)
  /\ move' = IF disk[f][Target] = Absent THEN "copy" ELSE "over"
  /\ UNCHANGED <<remote, pc, place, crashes, history>>
\* The end of a longer file that was there is still there.
CopyRest ==
  /\ Copying
  /\ \E c \in IF move = "copy" THEN {Moved} ELSE {Moved} \cup Misfit : disk' = Put(c)
  /\ move' = "remove"
  /\ UNCHANGED <<remote, pc, place, faults, crashes, slips, history>>
RemoveSource ==
  /\ pc \in Moves /\ move = "remove"
  /\ disk' = Gone(disk) /\ Returned(TRUE)
  /\ UNCHANGED <<remote, faults, crashes, slips, history>>
\* The copy stops half-way, or its source cannot be removed.
CopyFails ==
  /\ pc \in Moves /\ move # "rename"
  /\ Slips(1) /\ Returned(FALSE)
  /\ UNCHANGED <<remote, disk, crashes, history>>

\* the .bak of what was replaced is removed; that it cannot be is not looked at
Clean ==
  /\ pc = "clean"
  /\ \/ disk' = [disk EXCEPT ![f][BakOf(part)] = Absent] /\ UNCHANGED <<faults, slips>>
     \/ disk[f][BakOf(part)] # Absent /\ Slips(1) /\ UNCHANGED disk
  /\ \/ /\ part = "meta"
        /\ pc' = "backup" /\ part' = "data"
        /\ UNCHANGED <<feed, index, want, temp, errors, outcome>>
     \/ part = "data" /\ Advance(FALSE)
  /\ UNCHANGED <<remote, move, crashes, history>>

(* The process may die anywhere; what is on disk stays as it is.             *)
Crash ==
  /\ pc # "rest" /\ crashes < MaxCrashes
  /\ crashes' = crashes + 1
  /\ pc' = "rest" /\ move' = "rename" /\ outcome' = "crashed" /\ part' = "meta"
  /\ feed' = 1 /\ index' = 1 /\ want' = Absent /\ temp' = Absent /\ errors' = FALSE
  /\ UNCHANGED <<remote, disk, faults, slips, history>>

-----------------------------------------------------------------------------
FileStep ==
  \/ RequestFails \/ CheckStumbles \/ CheckUpToDate \/ CheckOutdated
  \/ DownloadRefused \/ Download
  \/ EtagTruncate \/ EtagWrite \/ EtagFails
  \/ Rename \/ NotMoved \/ CopyPart \/ CopyRest \/ RemoveSource \/ CopyFails \/ Clean
Next ==
  \/ StartRun \/ FileStep \/ Crash
  \/ \E g \in Files : Publish(g) \/ Announce(g)

Spec == Init /\ [][Next]_vars

(* nvdsync is run again and again, each run goes on (its requests end with the context
   of its -timeout), and the server announces what it has published.         *)
Fairness ==
  /\ WF_vars(StartRun) /\ WF_vars(FileStep)
  /\ \A g \in Files : WF_vars(Announce(g))
FairSpec == Spec /\ Fairness

-----------------------------------------------------------------------------
\* The variables have the types their declarations give them.
TypeOK ==
  /\ published \in [Files -> Versions] /\ announced \in [Files -> Versions]
  /\ disk \in [Files -> [Slots -> Contents]]
  /\ pc \in {"rest", "check", "download", "etag", "etagWrite", "clean"} \cup Moves
  /\ move \in {"rename", "copy", "over", "remove"}
  /\ part \in {"meta", "data"}
  /\ feed \in 1 .. Len(Feeds) /\ index \in 1 .. Len(Feeds[feed])
  /\ want \in Versions \cup {Absent} /\ temp \in Versions \cup {Absent}
  /\ errors \in BOOLEAN /\ crossDevice \in BOOLEAN
  /\ outcome \in {"none", "ok", "error", "crashed"}
  /\ faults \in 0 .. MaxFaults /\ crashes \in 0 .. MaxCrashes /\ slips \in 0 .. MaxFaults
  /\ atStart \in [announced : [Files -> Versions], whole : SUBSET Files, backed : SUBSET Files]

(* After a run without errors, in which one system call on the files has failed at most,
   every file of the given ones is whole and the one its meta file describes, no older
   than what the server announced when the run began: whatever earlier runs, crashes and
   failures left behind, and whichever call it was.  A second failure can leave the old
   file in place, and a copy over a longer one spoils it without an error.      *)
Current(files) ==
  outcome = "ok" /\ slips <= 1 =>
    \A g \in files : /\ disk[g]["data"] = disk[g]["meta"]
                     /\ disk[g]["data"] >= atStart.announced[g]
SuccessIsCurrent == Current(CveFiles)
CpeSuccessIsCurrent == Current(CpeFiles)

(* A run that ends, with or without errors, and in which one system call has failed at
   most, leaves every data file that was whole when it began whole: a failed replacement
   is rolled back.                                                           *)
RollbackKeepsData ==
  outcome \in {"ok", "error"} /\ slips <= 1 => \A g \in atStart.whole : Whole(g)

(* In every state the disk, the temporary files and the run are of their types, and no
   run that has ended after one failing call has broken a data file it found whole.  *)
Inv == TypeOK /\ RollbackKeepsData

(* In every state of a run, wherever it crashes, and across devices too, a data file that
   was whole at its start is there in a whole copy, under its name or as .bak, as long as
   no system call has failed, or one has and no .bak was left over at the start.  A copy
   over one that was may be the end of it: the backup's source is removed, and a crash
   then leaves neither.                                                      *)
HasCopy(g) == disk[g]["data"] \in Versions \/ disk[g]["data.bak"] \in Versions
AlwaysACopy ==
  \A g \in atStart.whole :
    slips = 0 \/ (slips = 1 /\ g \notin atStart.backed) => HasCopy(g)

(* Once the server stops changing and faults end, runs bring a CVE file to the server's
   version and keep it there, whatever a crash left behind, unless it or one before it in
   its feed is spoilt in such a way that needsUpdate fails on it for ever.   *)
UpToDate(g) == disk[g]["data"] = published[g] /\ disk[g]["meta"] = published[g]
Stuck(g) ==
  \E i \in 1 .. Len(Feeds) : \E k \in 1 .. Len(Feeds[i]) :
    Feeds[i][k] = g /\ \E j \in 1 .. k : Stumbles(Feeds[i][j])
Converges == \A g \in CveFiles : <>[]UpToDate(g) \/ <>[]Stuck(g)
=============================================================================
