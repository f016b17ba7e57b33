----------------------------- MODULE SnapshotStore -----------------------------
(***************************************************************************)
(* The archive engine of the backup server and the files it works on: one  *)
(* execution of a job from StartBackupJob to CommitSnapshot, its deferred  *)
(* clean-up, and what a crash between any two file operations leaves to    *)
(* the next execution of the same job.                                     *)
(*                                                                         *)
(* Sources: internal/backup/service.go (ExecuteJob and below),             *)
(* internal/storage/storage.go and the job and snapshot statements of      *)
(* internal/persistence.  One application instance is modelled: partial    *)
(* and cache directories are named by the job, final directories lie under *)
(* the instance, and BackupQueue's InstanceLock shows that an instance has *)
(* one running engine at a time.                                           *)
(*                                                                         *)
(* A crash is the end of the process, not of the machine: what was written *)
(* stays written.                                                          *)
(***************************************************************************)
EXTENDS Integers, FiniteSets

CONSTANTS
  Jobs,         (* Backup jobs of the instance.                            *)
  Stamps,       (* Values of storageTimestamp.                             *)
  NoJob,        (* No job; also the empty suffix of a directory name.      *)
  NoDir,        (* No directory.                                           *)
  MaxExecs,     (* Bounds: executions of jobs,                             *)
  MaxMishaps,   (* crashes and failed removals                             *)
  MaxTouches    (* and changes the user makes to the stored files.         *)

(***************************************************************************)
(* A final directory is named by the capture time or, when that name is    *)
(* taken, by the capture time and shortID(job), taken to be unique.        *)
(***************************************************************************)
Dirs == Stamps \X (Jobs \cup {NoJob})

ASSUME StoreAssumption ==
  /\ NoJob \notin Jobs /\ NoDir \notin Dirs
  /\ MaxExecs \in Nat /\ MaxMishaps \in Nat /\ MaxTouches \in Nat

VARIABLES
  \* Control database.
  jobStatus,   (* backup_jobs.status; NONE before the row exists.          *)
  row,         (* The row of snapshots for snapshotID(job).                *)
  \* Document directory and cache.
  partial,     (* _partial/<job>: the directory and its snapshot.zip.      *)
  cache,       (* <cacheRoot>/<job>: absent, empty, or with file-index.    *)
  store,       (* The final directories.                                   *)
  \* Locals of ExecuteJob.
  pc, job, stamp, attempt, loc,
  \* Auxiliary.
  execs,       (* Number of executions so far: the current one's number.   *)
  used,        (* Capture times of a job's executions.                     *)
  touched,     (* Directories the user has changed.                        *)
  cut,         (* Jobs whose last execution did not finish its clean-up.   *)
  touches, mishaps

dbVars == <<jobStatus, row>>
localVars == <<job, stamp, attempt>>
auxVars == <<execs, used, touched, cut, touches, mishaps>>
storeVars == <<dbVars, partial, cache, store, pc, localVars, loc, auxVars>>

(***************************************************************************)
(* A file is absent, incomplete or altered, or what execution n completed: *)
(* the archive whose digest is n, or the manifest that records digest n.   *)
(***************************************************************************)
NoFile == 0
Torn == -1
Files == {NoFile, Torn} \cup (Nat \ {0})

DirStates == [there : BOOLEAN, zip : Files, manifest : Files, tmp : BOOLEAN]
PartialStates == [there : BOOLEAN, zip : Files]
RowStates == [dir : Dirs \cup {NoDir}, digest : Nat,
              verification : {"NONE", "VERIFIED", "FAILED"}]

Absent == [there |-> FALSE, zip |-> NoFile, manifest |-> NoFile, tmp |-> FALSE]
NoPartial == [there |-> FALSE, zip |-> NoFile]
NoRow == [dir |-> NoDir, digest |-> NoFile, verification |-> "NONE"]

Init ==
  /\ jobStatus = [j \in Jobs |-> "NONE"]
  /\ row = [j \in Jobs |-> NoRow]
  /\ partial = [j \in Jobs |-> NoPartial]
  /\ cache = [j \in Jobs |-> "ABSENT"]
  /\ store = [d \in Dirs |-> Absent]
  /\ pc = "idle" /\ job = NoJob /\ stamp = NoJob /\ attempt = 0 /\ loc = NoDir
  /\ execs = 0
  /\ used = [j \in Jobs |-> {}]
  /\ touched = {} /\ cut = {} /\ touches = 0 /\ mishaps = 0

--------------------------------------------------------------------------------
(* The job row as the queue moves it. *)

Open(j) == jobStatus[j] \in {"QUEUED", "RUNNING"}
Executing(j) == pc # "idle" /\ job = j

(* The unique index on open jobs of an instance. *)
SetQueued(j) ==
  /\ \A i \in Jobs \ {j} : ~Open(i)
  /\ jobStatus' = [jobStatus EXCEPT ![j] = "QUEUED"]
  /\ UNCHANGED <<row, partial, cache, store, pc, localVars, loc, auxVars>>

CreateBackupJob(j) == jobStatus[j] = "NONE" /\ SetQueued(j)

(* RequeueExpiredTasks: the process that executed the job is gone. *)
RequeueJob(j) == jobStatus[j] = "RUNNING" /\ ~Executing(j) /\ SetQueued(j)

(* RetryTask and ResetTaskForManualRetry. *)
RetryJob(j) == jobStatus[j] = "FAILED" /\ SetQueued(j)

(* CancelTask, PausePlanForScope and UpdatePlan close a queued job. *)
CancelJob(j) ==
  /\ jobStatus[j] = "QUEUED"
  /\ jobStatus' = [jobStatus EXCEPT ![j] = "FAILED"]
  /\ UNCHANGED <<row, partial, cache, store, pc, localVars, loc, auxVars>>

--------------------------------------------------------------------------------
(* ExecuteJob. *)

StartBackupJob(j) ==
  /\ pc = "idle" /\ jobStatus[j] = "QUEUED"
  /\ execs < MaxExecs /\ used[j] # Stamps
  /\ jobStatus' = [jobStatus EXCEPT ![j] = "RUNNING"]
  /\ pc' = "partial" /\ job' = j /\ attempt' = 0 /\ execs' = execs + 1
  /\ UNCHANGED <<row, partial, cache, store, stamp, loc, used, touched, cut,
                 touches, mishaps>>

(* CreatePartial, after the source was resolved and probed. *)
CreatePartial ==
  /\ pc = "partial"
  /\ partial' = [partial EXCEPT ![job].there = TRUE]
  /\ pc' = "cache"
  /\ UNCHANGED <<dbVars, cache, store, localVars, loc, auxVars>>

(* The cache directory, and capturedAt: two executions of a job never have *)
(* the same millisecond, two jobs may.                                     *)
MakeCache ==
  /\ pc = "cache"
  /\ \E s \in Stamps \ used[job] :
       stamp' = s /\ used' = [used EXCEPT ![job] = @ \cup {s}]
  /\ cache' = [cache EXCEPT ![job] = IF @ = "ABSENT" THEN "EMPTY" ELSE @]
  /\ pc' = "create"
  /\ UNCHANGED <<dbVars, partial, store, job, attempt, loc, execs, touched, cut,
                 touches, mishaps>>

(* CreateArchive opens snapshot.zip with O_EXCL. *)
CreateArchive ==
  /\ pc = "create"
  /\ IF partial[job].zip = NoFile
     THEN partial' = [partial EXCEPT ![job].zip = Torn] /\ pc' = "index"
     ELSE pc' = "cleanCache" /\ UNCHANGED partial
  /\ UNCHANGED <<dbVars, cache, store, localVars, loc, auxVars>>

(* The file index is opened with O_EXCL too; its removal is deferred       *)
(* before that, so an index in the way is removed.                         *)
OpenIndex ==
  /\ pc = "index"
  /\ IF cache[job] = "INDEX"
     THEN cache' = [cache EXCEPT ![job] = "EMPTY"] /\ pc' = "cleanCache"
     ELSE cache' = [cache EXCEPT ![job] = "INDEX"] /\ pc' = "write"
  /\ UNCHANGED <<dbVars, partial, store, localVars, loc, auxVars>>

(* Mutant: the zip writer is not closed. *)
WriteUnclosed ==
  /\ pc = "write"
  /\ cache' = [cache EXCEPT ![job] = "EMPTY"]
  /\ pc' = "seal"
  /\ UNCHANGED <<dbVars, partial, store, localVars, loc, auxVars>>

(* writeArchive up to the closed archive. *)
WriteArchive ==
  /\ pc = "write"
  /\ partial' = [partial EXCEPT ![job].zip = execs]
  /\ cache' = [cache EXCEPT ![job] = "EMPTY"]
  /\ pc' = "seal"
  /\ UNCHANGED <<dbVars, store, localVars, loc, auxVars>>

(* writeWithRetry: a source that changed while it was read gets a second   *)
(* attempt, every other error and a second change end the execution.       *)
SourceChanged ==
  /\ pc = "write" /\ attempt = 0
  /\ cache' = [cache EXCEPT ![job] = "EMPTY"]
  /\ pc' = "discard"
  /\ UNCHANGED <<dbVars, partial, store, localVars, loc, auxVars>>

WriteFails ==
  /\ pc = "write"
  /\ cache' = [cache EXCEPT ![job] = "EMPTY"]
  /\ pc' = "cleanCache"
  /\ UNCHANGED <<dbVars, partial, store, localVars, loc, auxVars>>

DiscardArchive ==
  /\ pc = "discard"
  /\ partial' = [partial EXCEPT ![job].zip = NoFile]
  /\ attempt' = 1 /\ pc' = "create"
  /\ UNCHANGED <<dbVars, cache, store, job, stamp, loc, auxVars>>

(* SyncArchive, Digest and the settings row. *)
SealArchive ==
  /\ pc = "seal"
  /\ pc' = "location"
  /\ UNCHANGED <<dbVars, partial, cache, store, localVars, loc, auxVars>>

(* Mutant: no look whether the name is taken. *)
PlainName == <<stamp, NoJob>>

(* CommitArchive, first half: the name and the directory.  MkdirAll also   *)
(* succeeds on a directory that exists.                                    *)
FinalName ==
  IF store[<<stamp, NoJob>>].there THEN <<stamp, job>> ELSE <<stamp, NoJob>>

MakeLocation ==
  /\ pc = "location"
  /\ loc' = FinalName
  /\ store' = [store EXCEPT ![FinalName].there = TRUE]
  /\ pc' = "rename"
  /\ UNCHANGED <<dbVars, partial, cache, localVars, auxVars>>

(* Mutant: the row is written before the manifest. *)
RenameThenCommit ==
  /\ pc = "rename" /\ store[loc].there
  /\ store' = [store EXCEPT ![loc].zip = partial[job].zip]
  /\ partial' = [partial EXCEPT ![job].zip = NoFile]
  /\ pc' = "row"
  /\ UNCHANGED <<dbVars, cache, localVars, loc, auxVars>>

(* CommitArchive, second half: the rename replaces what is there.  Its     *)
(* failure returns no location, so the directory just made is not removed. *)
RenameArchive ==
  /\ pc = "rename" /\ store[loc].there
  /\ store' = [store EXCEPT ![loc].zip = partial[job].zip]
  /\ partial' = [partial EXCEPT ![job].zip = NoFile]
  /\ pc' = "manifest"
  /\ UNCHANGED <<dbVars, cache, localVars, loc, auxVars>>

RenameFails ==
  /\ pc = "rename"
  /\ store[loc].there => mishaps < MaxMishaps
  /\ mishaps' = IF store[loc].there THEN mishaps + 1 ELSE mishaps
  /\ loc' = NoDir /\ pc' = "cleanCache"
  /\ UNCHANGED <<dbVars, partial, cache, store, localVars, execs, used, touched,
                 cut, touches>>

(* WriteManifest: the temporary file with O_EXCL, then its rename. *)
OpenManifest ==
  /\ pc = "manifest" /\ store[loc].there /\ ~store[loc].tmp
  /\ store' = [store EXCEPT ![loc].tmp = TRUE]
  /\ pc' = "publish"
  /\ UNCHANGED <<dbVars, partial, cache, localVars, loc, auxVars>>

RenameManifest ==
  /\ pc = "publish" /\ store[loc].tmp
  /\ store' = [store EXCEPT ![loc].tmp = FALSE, ![loc].manifest = execs]
  /\ pc' = "verify"
  /\ UNCHANGED <<dbVars, partial, cache, localVars, loc, auxVars>>

(* QuickVerify(location, size, sha256): the manifest is there, the archive *)
(* has the digest.                                                         *)
QuickVerify(d, digest) ==
  store[d].there /\ store[d].manifest # NoFile /\ store[d].zip = digest

VerifyCommitted ==
  /\ pc = "verify"
  /\ pc' = IF QuickVerify(loc, execs) THEN "row" ELSE "cleanLocation"
  /\ UNCHANGED <<dbVars, partial, cache, store, localVars, loc, auxVars>>

(* Mutant: committed is not set, the deferred removal still runs. *)
CommitUnnoted ==
  /\ pc = "row" /\ jobStatus[job] = "RUNNING"
  /\ row' = [row EXCEPT ![job] = [dir |-> loc, digest |-> execs,
                                  verification |-> "VERIFIED"]]
  /\ jobStatus' = [jobStatus EXCEPT ![job] = "SUCCEEDED"]
  /\ pc' = "cleanLocation"
  /\ UNCHANGED <<partial, cache, store, localVars, loc, auxVars>>

(* CommitSnapshot: row and job in one transaction; the deferred removal of *)
(* the location is off.                                                    *)
CommitSnapshot ==
  /\ pc = "row" /\ jobStatus[job] = "RUNNING"
  /\ row' = [row EXCEPT ![job] = [dir |-> loc, digest |-> execs,
                                  verification |-> "VERIFIED"]]
  /\ jobStatus' = [jobStatus EXCEPT ![job] = "SUCCEEDED"]
  /\ loc' = NoDir /\ pc' = "cleanCache"
  /\ UNCHANGED <<partial, cache, store, localVars, auxVars>>

(* Mutant: the removal of the partial directory is deferred too late. *)
DeferredLate ==
  CASE pc \in {"partial", "cache"} -> "fail"
    [] pc \in {"create", "index", "discard", "seal", "location"} -> "cleanCache"
    [] OTHER -> "cleanLocation"

(* An error at any other step, a passed deadline included: the deferred    *)
(* calls registered so far run.  MkdirAll has no error for a cache         *)
(* directory that exists.                                                  *)
Deferred ==
  CASE pc = "partial" -> "fail"
    [] pc = "cache" -> "cleanPartial"
    [] pc \in {"create", "index", "discard", "seal", "location"} -> "cleanCache"
    [] OTHER -> "cleanLocation"

StepFails ==
  /\ pc \in {"partial", "cache", "create", "index", "discard", "seal",
             "location", "manifest", "publish", "verify", "row"}
  /\ pc = "cache" => cache[job] = "ABSENT"
  /\ pc' = Deferred
  /\ UNCHANGED <<dbVars, partial, cache, store, localVars, loc, auxVars>>

--------------------------------------------------------------------------------
(* The deferred calls, last registered first, and FailBackupJob. *)

(* Mutant: the directory of a failed execution is kept. *)
KeepLocation ==
  /\ pc = "cleanLocation"
  /\ loc' = NoDir /\ pc' = "cleanCache"
  /\ UNCHANGED <<dbVars, partial, cache, store, localVars, auxVars>>

(* RemoveDirectory(location) of a snapshot that was not committed. *)
CleanLocation ==
  /\ pc = "cleanLocation"
  /\ store' = [store EXCEPT ![loc] = Absent]
  /\ loc' = NoDir /\ pc' = "cleanCache"
  /\ UNCHANGED <<dbVars, partial, cache, localVars, auxVars>>

(* RemoveAll stops half way: any of the files may be gone. *)
CleanLocationFails ==
  /\ pc = "cleanLocation" /\ mishaps < MaxMishaps
  /\ \E zip \in {NoFile, store[loc].zip},
        manifest \in {NoFile, store[loc].manifest},
        tmp \in {FALSE, store[loc].tmp} :
       store' = [store EXCEPT ![loc] = [there |-> @.there, zip |-> zip,
                                        manifest |-> manifest, tmp |-> tmp]]
  /\ mishaps' = mishaps + 1
  /\ loc' = NoDir /\ pc' = "cleanCache"
  /\ UNCHANGED <<dbVars, partial, cache, localVars, execs, used, touched, cut,
                 touches>>

CleanCache ==
  /\ pc = "cleanCache"
  /\ cache' = [cache EXCEPT ![job] = "ABSENT"]
  /\ pc' = "cleanPartial"
  /\ UNCHANGED <<dbVars, partial, store, localVars, loc, auxVars>>

CleanPartial ==
  /\ pc = "cleanPartial"
  /\ partial' = [partial EXCEPT ![job] = NoPartial]
  /\ cut' = cut \ {job}
  /\ pc' = "fail"
  /\ UNCHANGED <<dbVars, cache, store, localVars, loc, execs, used, touched,
                 touches, mishaps>>

CleanPartialFails ==
  /\ pc = "cleanPartial" /\ mishaps < MaxMishaps
  /\ mishaps' = mishaps + 1 /\ cut' = cut \cup {job}
  /\ pc' = "fail"
  /\ UNCHANGED <<dbVars, partial, cache, store, localVars, loc, execs, used,
                 touched, touches>>

(* Back in ExecuteJob: FailBackupJob unless the snapshot was committed. *)
FailBackupJob ==
  /\ pc = "fail"
  /\ jobStatus' = [jobStatus EXCEPT ![job] = IF @ = "RUNNING" THEN "FAILED"
                                                              ELSE @]
  /\ pc' = "idle" /\ job' = NoJob /\ stamp' = NoJob /\ attempt' = 0
  /\ UNCHANGED <<row, partial, cache, store, loc, auxVars>>

--------------------------------------------------------------------------------
(* The process dies and a new one starts.  Nothing on disk is reconciled. *)
Crash ==
  /\ mishaps < MaxMishaps
  /\ mishaps' = mishaps + 1
  /\ cut' = IF pc = "idle" THEN cut ELSE cut \cup {job}
  /\ pc' = "idle" /\ job' = NoJob /\ stamp' = NoJob /\ attempt' = 0
  /\ loc' = NoDir
  /\ UNCHANGED <<dbVars, partial, cache, store, execs, used, touched, touches>>

(* The user manages the drive: deletes a directory, alters an archive,     *)
(* deletes a manifest.                                                     *)
UserTouches(d) ==
  /\ store[d].there /\ touches < MaxTouches
  /\ \E left \in { Absent, [store[d] EXCEPT !.manifest = NoFile],
                   [store[d] EXCEPT !.zip = IF @ = NoFile THEN @ ELSE Torn] } :
       store' = [store EXCEPT ![d] = left]
  /\ touched' = touched \cup {d} /\ touches' = touches + 1
  /\ UNCHANGED <<dbVars, partial, cache, pc, localVars, loc, execs, used, cut,
                 mishaps>>

QueueStep == \E j \in Jobs : \/ CreateBackupJob(j) \/ RequeueJob(j)
                             \/ RetryJob(j) \/ CancelJob(j)

EngineStep ==
  \/ \E j \in Jobs : StartBackupJob(j)
  \/ CreatePartial \/ MakeCache \/ CreateArchive \/ OpenIndex \/ WriteArchive
  \/ SourceChanged \/ WriteFails \/ DiscardArchive \/ SealArchive
  \/ MakeLocation \/ RenameArchive \/ RenameFails \/ OpenManifest
  \/ RenameManifest \/ VerifyCommitted \/ CommitSnapshot \/ StepFails
  \/ CleanLocation \/ CleanLocationFails \/ CleanCache \/ CleanPartial
  \/ CleanPartialFails \/ FailBackupJob

StoreNext == QueueStep \/ EngineStep \/ Crash \/ \E d \in Dirs : UserTouches(d)

StoreSpec == Init /\ [][StoreNext]_storeVars

--------------------------------------------------------------------------------
Statuses == {"NONE", "QUEUED", "RUNNING", "FAILED", "SUCCEEDED"}
Steps == {"idle", "partial", "cache", "create", "index", "write", "discard",
          "seal", "location", "rename", "manifest", "publish", "verify", "row",
          "cleanLocation", "cleanCache", "cleanPartial", "fail"}

(* Types of the rows, the directories and the locals of the engine. *)
StoreTypeOK ==
  /\ jobStatus \in [Jobs -> Statuses]
  /\ row \in [Jobs -> RowStates] /\ partial \in [Jobs -> PartialStates]
  /\ cache \in [Jobs -> {"ABSENT", "EMPTY", "INDEX"}]
  /\ store \in [Dirs -> DirStates]
  /\ pc \in Steps /\ job \in Jobs \cup {NoJob} /\ loc \in Dirs \cup {NoDir}
  /\ stamp \in Stamps \cup {NoJob} /\ attempt \in {0, 1}
  /\ execs \in Nat /\ used \in [Jobs -> SUBSET Stamps]
  /\ touched \in SUBSET Dirs /\ cut \in SUBSET Jobs
  /\ touches \in Nat /\ mishaps \in Nat

HasRow(j) == row[j] # NoRow

(* What a final directory holds. *)
Contents(d, zip, manifest, tmp) ==
  /\ store[d].there /\ store[d].zip = zip /\ store[d].manifest = manifest
  /\ store[d].tmp <=> tmp

(***************************************************************************)
(* What a row of the library promises: unless the user changed it, its     *)
(* directory holds the complete archive with the recorded digest and the   *)
(* manifest of the same execution, whatever crashed or failed since and    *)
(* whatever later executions wrote (CommitArchive, RemoveDirectory).       *)
(***************************************************************************)
SnapshotsComplete ==
  \A j \in Jobs : HasRow(j) /\ row[j].dir \notin touched =>
    Contents(row[j].dir, row[j].digest, row[j].digest, FALSE)

(***************************************************************************)
(* CommitArchive only looks whether the plain name is taken, and MkdirAll  *)
(* and Rename accept what exists.  Still an archive is only ever moved     *)
(* into an empty directory that no untouched snapshot owns.                *)
(***************************************************************************)
FreshLocation ==
  pc = "rename" =>
    /\ store[loc].zip = NoFile /\ store[loc].manifest = NoFile /\ ~store[loc].tmp
    /\ \A j \in Jobs : row[j].dir = loc => loc \in touched

(***************************************************************************)
(* A manifest never describes another archive than the one beside it,      *)
(* directories of crashed and failed executions included: WriteManifest    *)
(* comes after the rename of a closed archive.                             *)
(***************************************************************************)
ManifestsTrue ==
  \A d \in Dirs \ touched :
    store[d].manifest # NoFile => store[d].zip \in {NoFile, store[d].manifest}

(***************************************************************************)
(* A file index is only left beside an archive in the partial directory,   *)
(* because the cache is removed first.  So OpenIndex, which would fail on  *)
(* a left index, never meets one: CreateArchive stops before.              *)
(***************************************************************************)
IndexHasArchive ==
  /\ \A j \in Jobs : cache[j] = "INDEX" => partial[j].zip # NoFile
  /\ pc = "index" => cache[job] = "EMPTY"

(***************************************************************************)
(* What an execution finds of an earlier one: files of a job that is not   *)
(* being executed, and an archive in the way of CreateArchive, come from   *)
(* an execution that a crash or a failed removal cut short.  An execution  *)
(* that fails in the ordinary way leaves nothing to its retry.             *)
(***************************************************************************)
LeftoversExplained ==
  /\ \A j \in Jobs \ cut :
       ~Executing(j) => partial[j] = NoPartial /\ cache[j] = "ABSENT"
  /\ pc = "create" /\ partial[job].zip # NoFile => job \in cut /\ attempt = 0

(***************************************************************************)
(* Directories under the instance that no row names and no execution is    *)
(* writing are never collected, but each costs a crash or a failed removal *)
(* or rename: retries and ordinary errors add none.                        *)
(***************************************************************************)
Orphans ==
  {d \in Dirs : store[d].there /\ loc # d /\ \A j \in Jobs : row[j].dir # d}

OrphansBounded == Cardinality(Orphans) <= mishaps

--------------------------------------------------------------------------------
(* The inductive invariant. *)

(* The locals of ExecuteJob at each step. *)
AtLocation == {"rename", "manifest", "publish", "verify", "row", "cleanLocation"}
BeforeLocation == {"create", "index", "write", "discard", "seal", "location"}
BeforeCommit == {"partial", "cache"} \cup BeforeLocation \cup AtLocation

EngineLocals ==
  /\ pc = "idle" <=> job = NoJob
  /\ pc \in AtLocation <=> loc # NoDir
  /\ pc \in BeforeLocation \cup AtLocation => stamp \in used[job]
  /\ loc # NoDir => loc \in {<<stamp, NoJob>>, <<stamp, job>>}
  /\ pc # "idle" => execs > 0
  /\ touched # {} => touches > 0

(* Jobs and rows: a row is written with the success of its job, names a    *)
(* directory of that job and was made by an execution before this one.     *)
JobRows ==
  /\ \A j \in Jobs : HasRow(j) <=> jobStatus[j] = "SUCCEEDED"
  /\ \A j \in Jobs : HasRow(j) =>
       /\ row[j].dir \in Stamps \X {j, NoJob}
       /\ row[j].digest \in 1 .. execs
       /\ pc \in BeforeCommit => row[j].digest < execs
  /\ pc \in BeforeCommit => jobStatus[job] = "RUNNING"
  /\ pc # "idle" => jobStatus[job] \in {"RUNNING", "SUCCEEDED"}

(* The name with a suffix belongs to one execution. *)
NamesUsed ==
  /\ \A d \in Dirs : store[d].there \/ store[d] = Absent
  /\ \A s \in Stamps, j \in Jobs :
       store[<<s, j>>] # Absent =>
         s \in used[j] /\ ~(pc \in BeforeLocation /\ job = j /\ stamp = s)

(* The partial directory and the cache of the running job. *)
PartialState ==
  /\ pc \in {"partial", "fail"} /\ job \notin cut =>
       partial[job] = NoPartial /\ cache[job] = "ABSENT"
  /\ pc = "cache" /\ job \notin cut =>
       partial[job].zip = NoFile /\ cache[job] = "ABSENT"
  /\ pc = "cleanPartial" => cache[job] = "ABSENT"
  /\ pc = "create" => cache[job] # "ABSENT"
  /\ pc \in {"index", "write", "discard"} => partial[job].zip = Torn
  /\ pc \in {"partial", "cache", "discard"} => attempt = 0
  /\ pc \in {"seal", "location", "rename"} => partial[job].zip = execs
  /\ pc \in {"discard", "seal", "location", "rename"} => cache[job] = "EMPTY"

(* The final directory being filled, step by step, unless the user is at   *)
(* work in it.                                                             *)
LocationState ==
  /\ loc # NoDir => /\ store[loc].zip \in {NoFile, Torn, execs}
                    /\ \A j \in Jobs : row[j].dir = loc => loc \in touched
  /\ pc \in AtLocation \ {"cleanLocation"} /\ loc \notin touched =>
       Contents(loc, IF pc = "rename" THEN NoFile ELSE execs,
                IF pc \in {"verify", "row"} THEN execs ELSE NoFile,
                pc = "publish")

StoreInv ==
  /\ StoreTypeOK /\ EngineLocals /\ JobRows /\ NamesUsed /\ PartialState
  /\ LocationState /\ SnapshotsComplete /\ FreshLocation /\ ManifestsTrue
  /\ IndexHasArchive /\ LeftoversExplained

--------------------------------------------------------------------------------
(***************************************************************************)
(* The store implements SnapshotPromise: the snapshot of a job is what its *)
(* row names, complete when QuickVerify accepts it.                        *)
(***************************************************************************)
Verified(j) == QuickVerify(row[j].dir, row[j].digest)

Shown(j) == IF ~HasRow(j) THEN "ABSENT"
            ELSE IF Verified(j) THEN "COMPLETE" ELSE "SPOILED"

Library == [j \in Jobs |-> Shown(j)]

Promise == INSTANCE SnapshotPromise WITH library <- Library, acts <- touches

(* Snapshots appear whole and once, and only the user spoils them. *)
PromiseKept == Promise!Spec
================================================================================
