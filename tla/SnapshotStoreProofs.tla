-------------------------- MODULE SnapshotStoreProofs --------------------------
(***************************************************************************)
(* Proofs about SnapshotStore and SnapshotLibrary: the inductive invariant *)
(* of the store, the safety properties that are its parts, the refinement  *)
(* of SnapshotPromise and the bound on orphans; then the requests of the   *)
(* library, which keep that invariant and have parts of their own.         *)
(* One lemma per part of an invariant, with one step per action.           *)
(***************************************************************************)
EXTENDS SnapshotLibrary, FiniteSetTheorems, TLAPS

(* The locals of ExecuteJob have their proper types at the steps that use  *)
(* them.                                                                   *)
JobTyped ==
  /\ pc # "idle" => job \in Jobs
  /\ loc # NoDir => loc \in Dirs
  /\ pc \in BeforeLocation \cup AtLocation => stamp \in Stamps
  /\ pc \in AtLocation => loc \in Dirs

(* The invariant types the locals of ExecuteJob. *)
LEMMA TypedLocals == StoreInv => JobTyped
  BY DEF StoreInv, StoreTypeOK, EngineLocals, JobTyped, BeforeLocation,
         AtLocation

(* Creating, filling and clearing files of a final directory               *)
(* (CommitArchive, WriteManifest, RemoveDirectory) keeps the type of a     *)
(* directory.                                                              *)
LEMMA DirUpdates ==
  ASSUME NEW r \in DirStates, NEW f \in Files, NEW g \in Files,
      NEW b \in BOOLEAN
  PROVE  /\ [r EXCEPT !.there = b] \in DirStates
         /\ [r EXCEPT !.zip = f] \in DirStates
         /\ [r EXCEPT !.manifest = f] \in DirStates
         /\ [r EXCEPT !.tmp = b] \in DirStates
         /\ [there |-> r.there, zip |-> f, manifest |-> g,
             tmp |-> b] \in DirStates
         /\ r.zip \in Files /\ r.manifest \in Files /\ r.tmp \in BOOLEAN
         /\ Absent \in DirStates
  BY DEF DirStates, Absent, Files

(* The same for the partial directory (CreatePartial, CreateArchive,       *)
(* DiscardArchive).                                                        *)
LEMMA PartialUpdates ==
  ASSUME NEW r \in PartialStates, NEW f \in Files
  PROVE  /\ [r EXCEPT !.there = TRUE] \in PartialStates
         /\ [r EXCEPT !.zip = f] \in PartialStates
         /\ r.zip \in Files /\ NoPartial \in PartialStates
  BY DEF PartialStates, NoPartial, Files

(* What a file can be. *)
LEMMA FileKinds == {NoFile, Torn} \subseteq Files /\ (Nat \ {0}) \subseteq Files
  BY DEF Files

(* Only the running execution works in a directory whose name has its job  *)
(* as suffix (CommitArchive), and it has noted its capture time.           *)
LEMMA LocationNames ==
  ASSUME StoreInv, NEW s \in Stamps, NEW j \in Jobs, loc = <<s, j>>
  PROVE  s \in used[j] /\ j = job /\ s = stamp
<1>1. loc # NoDir
  BY StoreAssumption DEF Dirs
<1>2. loc \in {<<stamp, NoJob>>, <<stamp, job>>} /\ pc \in AtLocation
  BY <1>1 DEF StoreInv, EngineLocals
<1>3. stamp \in used[job]
  BY <1>2 DEF StoreInv, EngineLocals
<1> QED
  BY <1>2, <1>3, StoreAssumption

(* Every step keeps the types. *)
LEMMA TypeStep ==
  StoreInv /\ [StoreNext]_storeVars => StoreTypeOK'
<1> SUFFICES ASSUME StoreInv, [StoreNext]_storeVars
             PROVE  StoreTypeOK'
  OBVIOUS
<1>0. EngineLocals
  BY DEF StoreInv
<1>t. JobTyped /\ StoreTypeOK
  BY TypedLocals DEF StoreInv
<1>1. CASE \E j \in Jobs : CreateBackupJob(j)
  BY <1>t, <1>1
  DEF CreateBackupJob, SetQueued, Open, StoreTypeOK, Statuses, dbVars,
      localVars, auxVars
<1>2. CASE \E j \in Jobs : RequeueJob(j)
  BY <1>t, <1>2
  DEF RequeueJob, SetQueued, Open, StoreTypeOK, Statuses, dbVars, localVars,
      auxVars
<1>3. CASE \E j \in Jobs : RetryJob(j)
  BY <1>t, <1>3
  DEF RetryJob, SetQueued, Open, StoreTypeOK, Statuses, dbVars, localVars,
      auxVars
<1>4. CASE \E j \in Jobs : CancelJob(j)
  BY <1>t, <1>4
  DEF CancelJob, Open, StoreTypeOK, Statuses, dbVars, localVars, auxVars
<1>5. CASE \E j \in Jobs : StartBackupJob(j)
  BY <1>t, <1>5
  DEF StartBackupJob, StoreTypeOK, Statuses, Steps, dbVars, localVars
<1>6. CASE CreatePartial
  BY <1>t, <1>6, PartialUpdates, FileKinds
  DEF CreatePartial, StoreTypeOK, Steps, dbVars, localVars, auxVars
<1>7. CASE MakeCache
  BY <1>t, <1>7 DEF MakeCache, StoreTypeOK, JobTyped, Steps, dbVars, localVars
<1>8. CASE CreateArchive
  <2>1. job \in Jobs /\ Torn \in Files
    BY <1>t, <1>8, FileKinds DEF CreateArchive, JobTyped
  <2>2. [partial[job] EXCEPT !.zip = Torn] \in PartialStates
    BY <1>t, <2>1, PartialUpdates DEF StoreTypeOK
  <2>3. partial' \in [Jobs -> PartialStates]
    BY <1>t, <1>8, <2>1, <2>2 DEF CreateArchive, StoreTypeOK
  <2> QED
    BY <1>t, <1>8, <2>3
    DEF CreateArchive, StoreTypeOK, Steps, dbVars, localVars, auxVars
<1>9. CASE OpenIndex
  BY <1>t, <1>9 DEF OpenIndex, StoreTypeOK, Steps, dbVars, localVars, auxVars
<1>10. CASE WriteArchive
  <2>1. job \in Jobs /\ execs \in Files
    BY <1>0, <1>t, <1>10, FileKinds DEF WriteArchive, StoreTypeOK, EngineLocals
  <2>2. partial' \in [Jobs -> PartialStates]
    BY <1>t, <1>10, <2>1, PartialUpdates DEF WriteArchive, StoreTypeOK
  <2> QED
    BY <1>t, <1>10, <2>1, <2>2
    DEF WriteArchive, StoreTypeOK, Steps, dbVars, localVars, auxVars
<1>11. CASE SourceChanged
  BY <1>t, <1>11
  DEF SourceChanged, StoreTypeOK, Steps, dbVars, localVars, auxVars
<1>12. CASE WriteFails
  BY <1>t, <1>12 DEF WriteFails, StoreTypeOK, Steps, dbVars, localVars, auxVars
<1>13. CASE DiscardArchive
  BY <1>t, <1>13, PartialUpdates, FileKinds
  DEF DiscardArchive, StoreTypeOK, Steps, dbVars, localVars, auxVars
<1>14. CASE SealArchive
  BY <1>t, <1>14 DEF SealArchive, StoreTypeOK, Steps, dbVars, localVars, auxVars
<1>15. CASE MakeLocation
  BY <1>t, <1>15, DirUpdates, FileKinds
  DEF MakeLocation, StoreTypeOK, JobTyped, Steps, BeforeLocation, dbVars,
      localVars, auxVars, FinalName, Dirs
<1>16. CASE RenameArchive
  BY <1>t, <1>16, DirUpdates, PartialUpdates, FileKinds
  DEF RenameArchive, StoreTypeOK, JobTyped, Steps, dbVars, localVars, auxVars
<1>17. CASE RenameFails
  BY <1>t, <1>17 DEF RenameFails, StoreTypeOK, Steps, dbVars, localVars
<1>18. CASE OpenManifest
  BY <1>t, <1>18, DirUpdates, FileKinds
  DEF OpenManifest, StoreTypeOK, Steps, dbVars, localVars, auxVars
<1>19. CASE RenameManifest
  <2>1. loc \in Dirs /\ execs \in Files
    BY <1>0, <1>t, <1>19, FileKinds
    DEF RenameManifest, StoreTypeOK, EngineLocals, AtLocation
  <2>2. [[store[loc] EXCEPT !.tmp = FALSE] EXCEPT !.manifest =
          execs] \in DirStates
    BY <1>t, <2>1, DirUpdates DEF StoreTypeOK
  <2>3. store' \in [Dirs -> DirStates]
    BY <1>t, <1>19, <2>1, <2>2 DEF RenameManifest, StoreTypeOK
  <2> QED
    BY <1>t, <1>19, <2>1, <2>3
    DEF RenameManifest, StoreTypeOK, Steps, dbVars, localVars, auxVars
<1>20. CASE VerifyCommitted
  BY <1>t, <1>20
  DEF VerifyCommitted, QuickVerify, StoreTypeOK, Steps, dbVars, localVars,
      auxVars
<1>21. CASE CommitSnapshot
  BY <1>t, <1>21, DirUpdates, FileKinds
  DEF CommitSnapshot, StoreTypeOK, Statuses, Steps, dbVars, localVars, auxVars,
      RowStates
<1>22. CASE StepFails
  BY <1>t, <1>22
  DEF StepFails, Deferred, StoreTypeOK, Steps, dbVars, localVars, auxVars
<1>23. CASE CleanLocation
  BY <1>t, <1>23, DirUpdates, FileKinds
  DEF CleanLocation, StoreTypeOK, Steps, dbVars, localVars, auxVars
<1>24. CASE CleanLocationFails
  <2>1. PICK zip \in {NoFile, store[loc].zip}, manifest \in {NoFile,
          store[loc].manifest},
             tmp \in {FALSE, store[loc].tmp} :
           store' = [store EXCEPT ![loc] = [there |-> @.there, zip |-> zip,
                                            manifest |-> manifest, tmp |-> tmp]]
    BY <1>24 DEF CleanLocationFails
  <2>2. loc \in Dirs
    BY <1>t, <1>24 DEF CleanLocationFails, JobTyped, AtLocation
  <2>3. zip \in Files /\ manifest \in Files /\ tmp \in BOOLEAN
    BY <1>t, <2>2, DirUpdates, FileKinds DEF StoreTypeOK
  <2>4. [there |-> store[loc].there, zip |-> zip, manifest |-> manifest,
          tmp |-> tmp] \in DirStates
    BY <1>t, <2>2, <2>3, DirUpdates DEF StoreTypeOK
  <2>5. store' \in [Dirs -> DirStates]
    BY <1>t, <2>1, <2>2, <2>4 DEF StoreTypeOK
  <2> QED
    BY <1>t, <1>24, <2>5
    DEF CleanLocationFails, StoreTypeOK, Steps, dbVars, localVars
<1>25. CASE CleanCache
  BY <1>t, <1>25 DEF CleanCache, StoreTypeOK, Steps, dbVars, localVars, auxVars
<1>26. CASE CleanPartial
  BY <1>t, <1>26, PartialUpdates, FileKinds
  DEF CleanPartial, StoreTypeOK, Steps, dbVars, localVars
<1>27. CASE CleanPartialFails
  BY <1>t, <1>27
  DEF CleanPartialFails, StoreTypeOK, JobTyped, Steps, dbVars, localVars
<1>28. CASE FailBackupJob
  BY <1>t, <1>28
  DEF FailBackupJob, StoreTypeOK, Statuses, Steps, dbVars, localVars, auxVars
<1>29. CASE Crash
  BY <1>t, <1>29 DEF Crash, StoreTypeOK, JobTyped, Steps, dbVars, localVars
<1>30. CASE \E d \in Dirs : UserTouches(d)
  <2>1. PICK d \in Dirs : UserTouches(d)
    BY <1>30
  <2>2. Torn \in Files /\ NoFile \in Files
    BY FileKinds
  <2>3. /\ Absent \in DirStates /\
          [store[d] EXCEPT !.manifest = NoFile] \in DirStates
        /\ [store[d] EXCEPT !.zip = IF @ =
            NoFile THEN @ ELSE Torn] \in DirStates
    BY <1>t, <2>2, DirUpdates DEF StoreTypeOK
  <2>4. store' \in [Dirs -> DirStates]
    BY <1>t, <2>1, <2>3 DEF UserTouches, StoreTypeOK
  <2> QED
    BY <1>t, <2>1, <2>4 DEF UserTouches, StoreTypeOK, dbVars, localVars
<1>31. CASE UNCHANGED storeVars
  BY <1>t, <1>31 DEF storeVars, StoreTypeOK, dbVars, localVars, auxVars
<1> QED
  BY <1>1, <1>2, <1>3, <1>4, <1>5, <1>6, <1>7, <1>8, <1>9, <1>10, <1>11, <1>12,
     <1>13, <1>14, <1>15, <1>16,
     <1>17, <1>18, <1>19, <1>20, <1>21, <1>22, <1>23, <1>24, <1>25, <1>26,
         <1>27, <1>28, <1>29, <1>30, <1>31
  DEF StoreNext, QueueStep, EngineStep

(* Every step of ExecuteJob keeps its locals in agreement with the step it *)
(* has reached.                                                            *)
LEMMA LocalsStep ==
  StoreInv /\ [StoreNext]_storeVars => EngineLocals'
<1> SUFFICES ASSUME StoreInv, [StoreNext]_storeVars
             PROVE  EngineLocals'
  OBVIOUS
<1>0. EngineLocals
  BY DEF StoreInv
<1>t. JobTyped /\ StoreTypeOK
  BY TypedLocals DEF StoreInv
<1>1. CASE \E j \in Jobs : CreateBackupJob(j)
  BY <1>0, <1>1
  DEF CreateBackupJob, SetQueued, Open, EngineLocals, dbVars, localVars, auxVars
<1>2. CASE \E j \in Jobs : RequeueJob(j)
  BY <1>0, <1>2
  DEF RequeueJob, SetQueued, Open, EngineLocals, dbVars, localVars, auxVars
<1>3. CASE \E j \in Jobs : RetryJob(j)
  BY <1>0, <1>3
  DEF RetryJob, SetQueued, Open, EngineLocals, dbVars, localVars, auxVars
<1>4. CASE \E j \in Jobs : CancelJob(j)
  BY <1>0, <1>4 DEF CancelJob, Open, EngineLocals, dbVars, localVars, auxVars
<1>5. CASE \E j \in Jobs : StartBackupJob(j)
  BY <1>0, <1>t, <1>5, StoreAssumption
  DEF StartBackupJob, EngineLocals, StoreTypeOK, BeforeLocation, AtLocation,
      dbVars, localVars
<1>6. CASE CreatePartial
  BY <1>0, <1>6
  DEF CreatePartial, EngineLocals, BeforeLocation, AtLocation, dbVars,
      localVars, auxVars
<1>7. CASE MakeCache
  BY <1>0, <1>t, <1>7
  DEF MakeCache, EngineLocals, StoreTypeOK, AtLocation, dbVars, localVars
<1>8. CASE CreateArchive
  BY <1>0, <1>8
  DEF CreateArchive, EngineLocals, BeforeLocation, AtLocation, dbVars,
      localVars, auxVars
<1>9. CASE OpenIndex
  BY <1>0, <1>9
  DEF OpenIndex, EngineLocals, BeforeLocation, AtLocation, dbVars, localVars,
      auxVars
<1>10. CASE WriteArchive
  BY <1>0, <1>10
  DEF WriteArchive, EngineLocals, BeforeLocation, AtLocation, dbVars, localVars,
      auxVars
<1>11. CASE SourceChanged
  BY <1>0, <1>11
  DEF SourceChanged, EngineLocals, BeforeLocation, AtLocation, dbVars,
      localVars, auxVars
<1>12. CASE WriteFails
  BY <1>0, <1>12
  DEF WriteFails, EngineLocals, BeforeLocation, AtLocation, dbVars, localVars,
      auxVars
<1>13. CASE DiscardArchive
  BY <1>0, <1>13
  DEF DiscardArchive, EngineLocals, BeforeLocation, AtLocation, dbVars,
      localVars, auxVars
<1>14. CASE SealArchive
  BY <1>0, <1>14
  DEF SealArchive, EngineLocals, BeforeLocation, AtLocation, dbVars, localVars,
      auxVars
<1>15. CASE MakeLocation
  BY <1>0, <1>t, <1>15, StoreAssumption
  DEF MakeLocation, FinalName, EngineLocals, JobTyped, Dirs, BeforeLocation,
      AtLocation, dbVars, localVars, auxVars
<1>16. CASE RenameArchive
  BY <1>0, <1>16
  DEF RenameArchive, EngineLocals, AtLocation, dbVars, localVars, auxVars
<1>17. CASE RenameFails
  BY <1>0, <1>17 DEF RenameFails, EngineLocals, AtLocation, dbVars, localVars
<1>18. CASE OpenManifest
  BY <1>0, <1>18
  DEF OpenManifest, EngineLocals, AtLocation, dbVars, localVars, auxVars
<1>19. CASE RenameManifest
  BY <1>0, <1>19
  DEF RenameManifest, EngineLocals, AtLocation, dbVars, localVars, auxVars
<1>20. CASE VerifyCommitted
  BY <1>0, <1>20
  DEF VerifyCommitted, QuickVerify, EngineLocals, AtLocation, dbVars, localVars,
      auxVars
<1>21. CASE CommitSnapshot
  BY <1>0, <1>21
  DEF CommitSnapshot, EngineLocals, AtLocation, dbVars, localVars, auxVars
<1>22. CASE StepFails
  BY <1>0, <1>22
  DEF StepFails, Deferred, EngineLocals, BeforeLocation, AtLocation, dbVars,
      localVars, auxVars
<1>23. CASE CleanLocation
  BY <1>0, <1>23
  DEF CleanLocation, EngineLocals, AtLocation, dbVars, localVars, auxVars
<1>24. CASE CleanLocationFails
  BY <1>0, <1>24
  DEF CleanLocationFails, EngineLocals, AtLocation, dbVars, localVars
<1>25. CASE CleanCache
  BY <1>0, <1>25
  DEF CleanCache, EngineLocals, BeforeLocation, AtLocation, dbVars, localVars,
      auxVars
<1>26. CASE CleanPartial
  BY <1>0, <1>26
  DEF CleanPartial, EngineLocals, BeforeLocation, AtLocation, dbVars, localVars
<1>27. CASE CleanPartialFails
  BY <1>0, <1>27
  DEF CleanPartialFails, EngineLocals, BeforeLocation, AtLocation, dbVars,
      localVars
<1>28. CASE FailBackupJob
  BY <1>0, <1>28
  DEF FailBackupJob, EngineLocals, BeforeLocation, AtLocation, dbVars,
      localVars, auxVars
<1>29. CASE Crash
  BY <1>0, <1>29
  DEF Crash, EngineLocals, BeforeLocation, AtLocation, dbVars, localVars
<1>30. CASE \E d \in Dirs : UserTouches(d)
  BY <1>0, <1>t, <1>30
  DEF UserTouches, EngineLocals, StoreTypeOK, dbVars, localVars
<1>31. CASE UNCHANGED storeVars
  BY <1>0, <1>31 DEF storeVars, EngineLocals, dbVars, localVars, auxVars
<1> QED
  BY <1>1, <1>2, <1>3, <1>4, <1>5, <1>6, <1>7, <1>8, <1>9, <1>10, <1>11, <1>12,
     <1>13, <1>14, <1>15, <1>16,
     <1>17, <1>18, <1>19, <1>20, <1>21, <1>22, <1>23, <1>24, <1>25, <1>26,
         <1>27, <1>28, <1>29, <1>30, <1>31
  DEF StoreNext, QueueStep, EngineStep

(* Every step keeps job rows and snapshot rows in agreement:               *)
(* CommitSnapshot writes both in one transaction, and only a QUEUED or     *)
(* FAILED job is requeued, retried or cancelled.                           *)
LEMMA JobRowsStep ==
  StoreInv /\ [StoreNext]_storeVars => JobRows'
<1> SUFFICES ASSUME StoreInv, [StoreNext]_storeVars
             PROVE  JobRows'
  OBVIOUS
<1>0. EngineLocals /\ JobRows
  BY DEF StoreInv
<1>t. JobTyped /\ StoreTypeOK
  BY TypedLocals DEF StoreInv
<1>1. CASE \E j \in Jobs : CreateBackupJob(j)
  BY <1>0, <1>1
  DEF CreateBackupJob, SetQueued, Open, JobRows, HasRow, dbVars, localVars,
      auxVars
<1>2. CASE \E j \in Jobs : RequeueJob(j)
  BY <1>0, <1>2, StoreAssumption
  DEF RequeueJob, SetQueued, Open, Executing, JobRows, HasRow, EngineLocals,
      dbVars, localVars, auxVars
<1>3. CASE \E j \in Jobs : RetryJob(j)
  BY <1>0, <1>3
  DEF RetryJob, SetQueued, Open, JobRows, HasRow, dbVars, localVars, auxVars
<1>4. CASE \E j \in Jobs : CancelJob(j)
  BY <1>0, <1>4, StoreAssumption
  DEF CancelJob, Open, Executing, JobRows, HasRow, EngineLocals, dbVars,
      localVars, auxVars
<1>5. CASE \E j \in Jobs : StartBackupJob(j)
  BY <1>0, <1>t, <1>5
  DEF StartBackupJob, JobRows, HasRow, StoreTypeOK, dbVars, localVars
<1>6. CASE CreatePartial
  BY <1>0, <1>6
  DEF CreatePartial, JobRows, HasRow, BeforeCommit, dbVars, localVars, auxVars
<1>7. CASE MakeCache
  BY <1>0, <1>7 DEF MakeCache, JobRows, HasRow, BeforeCommit, dbVars, localVars
<1>8. CASE CreateArchive
  BY <1>0, <1>8
  DEF CreateArchive, JobRows, HasRow, BeforeLocation, BeforeCommit, dbVars,
      localVars, auxVars
<1>9. CASE OpenIndex
  BY <1>0, <1>9
  DEF OpenIndex, JobRows, HasRow, BeforeLocation, BeforeCommit, dbVars,
      localVars, auxVars
<1>10. CASE WriteArchive
  BY <1>0, <1>10
  DEF WriteArchive, JobRows, HasRow, BeforeLocation, BeforeCommit, dbVars,
      localVars, auxVars
<1>11. CASE SourceChanged
  BY <1>0, <1>11
  DEF SourceChanged, JobRows, HasRow, BeforeLocation, BeforeCommit, dbVars,
      localVars, auxVars
<1>12. CASE WriteFails
  BY <1>0, <1>12
  DEF WriteFails, JobRows, HasRow, BeforeLocation, BeforeCommit, dbVars,
      localVars, auxVars
<1>13. CASE DiscardArchive
  BY <1>0, <1>13
  DEF DiscardArchive, JobRows, HasRow, BeforeLocation, BeforeCommit, dbVars,
      localVars, auxVars
<1>14. CASE SealArchive
  BY <1>0, <1>14
  DEF SealArchive, JobRows, HasRow, BeforeLocation, BeforeCommit, dbVars,
      localVars, auxVars
<1>15. CASE MakeLocation
  BY <1>0, <1>15
  DEF MakeLocation, FinalName, JobRows, HasRow, BeforeLocation, BeforeCommit,
      dbVars, localVars, auxVars
<1>16. CASE RenameArchive
  BY <1>0, <1>16
  DEF RenameArchive, JobRows, HasRow, AtLocation, BeforeCommit, dbVars,
      localVars, auxVars
<1>17. CASE RenameFails
  BY <1>0, <1>17
  DEF RenameFails, JobRows, HasRow, AtLocation, BeforeCommit, dbVars, localVars
<1>18. CASE OpenManifest
  BY <1>0, <1>18
  DEF OpenManifest, JobRows, HasRow, AtLocation, BeforeCommit, dbVars,
      localVars, auxVars
<1>19. CASE RenameManifest
  BY <1>0, <1>19
  DEF RenameManifest, JobRows, HasRow, AtLocation, BeforeCommit, dbVars,
      localVars, auxVars
<1>20. CASE VerifyCommitted
  BY <1>0, <1>20
  DEF VerifyCommitted, QuickVerify, JobRows, HasRow, AtLocation, BeforeCommit,
      dbVars, localVars, auxVars
<1>21. CASE CommitSnapshot
  BY <1>0, <1>t, <1>21
  DEF CommitSnapshot, JobRows, HasRow, NoRow, StoreTypeOK, EngineLocals,
      BeforeLocation, AtLocation, BeforeCommit, dbVars, localVars, auxVars
<1>22. CASE StepFails
  BY <1>0, <1>22
  DEF StepFails, Deferred, JobRows, HasRow, BeforeLocation, AtLocation,
      BeforeCommit, dbVars, localVars, auxVars
<1>23. CASE CleanLocation
  BY <1>0, <1>23
  DEF CleanLocation, JobRows, HasRow, AtLocation, BeforeCommit, dbVars,
      localVars, auxVars
<1>24. CASE CleanLocationFails
  BY <1>0, <1>24
  DEF CleanLocationFails, JobRows, HasRow, AtLocation, BeforeCommit, dbVars,
      localVars
<1>25. CASE CleanCache
  BY <1>0, <1>25
  DEF CleanCache, JobRows, HasRow, BeforeLocation, AtLocation, BeforeCommit,
      dbVars, localVars, auxVars
<1>26. CASE CleanPartial
  BY <1>0, <1>26
  DEF CleanPartial, JobRows, HasRow, BeforeLocation, AtLocation, BeforeCommit,
      dbVars, localVars
<1>27. CASE CleanPartialFails
  BY <1>0, <1>27
  DEF CleanPartialFails, JobRows, HasRow, BeforeLocation, AtLocation,
      BeforeCommit, dbVars, localVars
<1>28. CASE FailBackupJob
  BY <1>0, <1>28
  DEF FailBackupJob, JobRows, HasRow, BeforeLocation, AtLocation, BeforeCommit,
      dbVars, localVars, auxVars
<1>29. CASE Crash
  BY <1>0, <1>29
  DEF Crash, JobRows, HasRow, BeforeLocation, AtLocation, BeforeCommit, dbVars,
      localVars
<1>30. CASE \E d \in Dirs : UserTouches(d)
  BY <1>0, <1>30 DEF UserTouches, JobRows, HasRow, dbVars, localVars
<1>31. CASE UNCHANGED storeVars
  BY <1>0, <1>31 DEF storeVars, JobRows, HasRow, dbVars, localVars, auxVars
<1> QED
  BY <1>1, <1>2, <1>3, <1>4, <1>5, <1>6, <1>7, <1>8, <1>9, <1>10, <1>11, <1>12,
     <1>13, <1>14, <1>15, <1>16,
     <1>17, <1>18, <1>19, <1>20, <1>21, <1>22, <1>23, <1>24, <1>25, <1>26,
         <1>27, <1>28, <1>29, <1>30, <1>31
  DEF StoreNext, QueueStep, EngineStep

(* Every step keeps the record of used names: a directory with a suffix    *)
(* belongs to a capture time of its job (CommitArchive).                   *)
LEMMA NamesStep ==
  StoreInv /\ [StoreNext]_storeVars => NamesUsed'
<1> SUFFICES ASSUME StoreInv, [StoreNext]_storeVars
             PROVE  NamesUsed'
  OBVIOUS
<1>0. EngineLocals /\ NamesUsed
  BY DEF StoreInv
<1>t. JobTyped /\ StoreTypeOK
  BY TypedLocals DEF StoreInv
<1>1. CASE \E j \in Jobs : CreateBackupJob(j)
  BY <1>0, <1>1
  DEF CreateBackupJob, SetQueued, Open, NamesUsed, dbVars, localVars, auxVars
<1>2. CASE \E j \in Jobs : RequeueJob(j)
  BY <1>0, <1>2
  DEF RequeueJob, SetQueued, Open, NamesUsed, dbVars, localVars, auxVars
<1>3. CASE \E j \in Jobs : RetryJob(j)
  BY <1>0, <1>3
  DEF RetryJob, SetQueued, Open, NamesUsed, dbVars, localVars, auxVars
<1>4. CASE \E j \in Jobs : CancelJob(j)
  BY <1>0, <1>4 DEF CancelJob, Open, NamesUsed, dbVars, localVars, auxVars
<1>5. CASE \E j \in Jobs : StartBackupJob(j)
  BY <1>0, <1>5 DEF StartBackupJob, NamesUsed, BeforeLocation, dbVars, localVars
<1>6. CASE CreatePartial
  BY <1>0, <1>6
  DEF CreatePartial, NamesUsed, BeforeLocation, dbVars, localVars, auxVars
<1>7. CASE MakeCache
  <2>1. PICK t \in Stamps \ used[job] : stamp' = t /\
          used' = [used EXCEPT ![job] = @ \cup {t}]
    BY <1>7 DEF MakeCache
  <2>2. job \in Jobs /\ job' = job /\ store' = store
    BY <1>t, <1>7 DEF MakeCache, JobTyped
  <2>3. \A s \in Stamps, j \in Jobs : s \in used[j] =>
          s \in used'[j] /\ ~(job = j /\ stamp' = s)
    BY <2>1, <2>2
  <2> QED
    BY <1>0, <2>2, <2>3 DEF NamesUsed
<1>8. CASE CreateArchive
  BY <1>0, <1>8
  DEF CreateArchive, NamesUsed, BeforeLocation, dbVars, localVars, auxVars
<1>9. CASE OpenIndex
  BY <1>0, <1>9
  DEF OpenIndex, NamesUsed, BeforeLocation, dbVars, localVars, auxVars
<1>10. CASE WriteArchive
  BY <1>0, <1>10
  DEF WriteArchive, NamesUsed, BeforeLocation, dbVars, localVars, auxVars
<1>11. CASE SourceChanged
  BY <1>0, <1>11
  DEF SourceChanged, NamesUsed, BeforeLocation, dbVars, localVars, auxVars
<1>12. CASE WriteFails
  BY <1>0, <1>12
  DEF WriteFails, NamesUsed, BeforeLocation, dbVars, localVars, auxVars
<1>13. CASE DiscardArchive
  BY <1>0, <1>13
  DEF DiscardArchive, NamesUsed, BeforeLocation, dbVars, localVars, auxVars
<1>14. CASE SealArchive
  BY <1>0, <1>14
  DEF SealArchive, NamesUsed, BeforeLocation, dbVars, localVars, auxVars
<1>15. CASE MakeLocation
  <2>1. /\ pc = "location" /\ pc' = "rename" /\ used' = used
        /\ job \in Jobs /\ stamp \in Stamps /\ stamp \in used[job]
    BY <1>0, <1>t, <1>15
    DEF MakeLocation, JobTyped, EngineLocals, BeforeLocation, auxVars
  <2>2. FinalName \in Dirs
    BY <2>1 DEF FinalName, Dirs
  <2>3. \A d \in Dirs : d # FinalName => store'[d] = store[d]
    BY <1>15, <2>2 DEF MakeLocation
  <2>4. store'[FinalName].there
    BY <1>t, <1>15, <2>2 DEF MakeLocation, StoreTypeOK, DirStates
  <2>5. ASSUME NEW s \in Stamps, NEW j \in Jobs, FinalName = <<s, j>>
        PROVE  s \in used[j]
    BY <2>1, <2>5, StoreAssumption DEF FinalName
  <2> QED
    BY <1>0, <2>1, <2>2, <2>3, <2>4, <2>5 DEF NamesUsed, Dirs, BeforeLocation
<1>16. CASE RenameArchive
  <2>1. pc \in AtLocation /\ pc' \notin BeforeLocation /\ loc \in Dirs /\
          used' = used
    BY <1>t, <1>16
    DEF RenameArchive, JobTyped, AtLocation, BeforeLocation, auxVars
  <2>2. \A d \in Dirs : d # loc => store'[d] = store[d]
    BY <1>16, <2>1 DEF RenameArchive
  <2>3. store'[loc].there \/ store'[loc] = Absent
    BY <1>16, <2>1 DEF RenameArchive, NamesUsed
  <2>4. \A d \in Dirs : store'[d].there \/ store'[d] = Absent
    BY <1>0, <2>2, <2>3 DEF NamesUsed
  <2>5. ASSUME NEW s \in Stamps, NEW j \in Jobs, store'[<<s, j>>] # Absent
        PROVE  s \in used'[j]
    BY <1>0, <2>1, <2>2, <2>5, LocationNames DEF NamesUsed, Dirs
  <2> QED
    BY <2>1, <2>4, <2>5 DEF NamesUsed
<1>17. CASE RenameFails
  BY <1>0, <1>17 DEF RenameFails, NamesUsed, BeforeLocation, dbVars, localVars
<1>18. CASE OpenManifest
  <2>1. pc \in AtLocation /\ pc' \notin BeforeLocation /\ loc \in Dirs /\
          used' = used
    BY <1>t, <1>18
    DEF OpenManifest, JobTyped, AtLocation, BeforeLocation, auxVars
  <2>2. \A d \in Dirs : d # loc => store'[d] = store[d]
    BY <1>18, <2>1 DEF OpenManifest
  <2>3. store'[loc].there \/ store'[loc] = Absent
    BY <1>18, <2>1 DEF OpenManifest, NamesUsed
  <2>4. \A d \in Dirs : store'[d].there \/ store'[d] = Absent
    BY <1>0, <2>2, <2>3 DEF NamesUsed
  <2>5. ASSUME NEW s \in Stamps, NEW j \in Jobs, store'[<<s, j>>] # Absent
        PROVE  s \in used'[j]
    BY <1>0, <2>1, <2>2, <2>5, LocationNames DEF NamesUsed, Dirs
  <2> QED
    BY <2>1, <2>4, <2>5 DEF NamesUsed
<1>19. CASE RenameManifest
  <2>1. pc \in AtLocation /\ pc' \notin BeforeLocation /\ loc \in Dirs /\
          used' = used
    BY <1>t, <1>19
    DEF RenameManifest, JobTyped, AtLocation, BeforeLocation, auxVars
  <2>2. \A d \in Dirs : d # loc => store'[d] = store[d]
    BY <1>t, <1>19, <2>1 DEF RenameManifest, StoreTypeOK
  <2>3. store'[loc].there \/ store'[loc] = Absent
    <3>1. store[loc].there
      BY <1>0, <1>19, <2>1 DEF NamesUsed, RenameManifest, Absent
    <3> QED
      BY <1>t, <1>19, <2>1, <3>1 DEF RenameManifest, StoreTypeOK, DirStates
  <2>4. \A d \in Dirs : store'[d].there \/ store'[d] = Absent
    BY <1>0, <2>2, <2>3 DEF NamesUsed
  <2>5. ASSUME NEW s \in Stamps, NEW j \in Jobs, store'[<<s, j>>] # Absent
        PROVE  s \in used'[j]
    BY <1>0, <2>1, <2>2, <2>5, LocationNames DEF NamesUsed, Dirs
  <2> QED
    BY <2>1, <2>4, <2>5 DEF NamesUsed
<1>20. CASE VerifyCommitted
  BY <1>0, <1>20
  DEF VerifyCommitted, QuickVerify, NamesUsed, BeforeLocation, dbVars,
      localVars, auxVars
<1>21. CASE CommitSnapshot
  BY <1>0, <1>21
  DEF CommitSnapshot, NamesUsed, BeforeLocation, dbVars, localVars, auxVars
<1>22. CASE StepFails
  BY <1>0, <1>22
  DEF StepFails, Deferred, NamesUsed, BeforeLocation, dbVars, localVars, auxVars
<1>23. CASE CleanLocation
  <2>1. pc \in AtLocation /\ pc' \notin BeforeLocation /\ loc \in Dirs /\
          used' = used
    BY <1>t, <1>23
    DEF CleanLocation, JobTyped, AtLocation, BeforeLocation, auxVars
  <2>2. \A d \in Dirs : d # loc => store'[d] = store[d]
    BY <1>23, <2>1 DEF CleanLocation
  <2>3. store'[loc].there \/ store'[loc] = Absent
    BY <1>0, <1>23, <2>1 DEF CleanLocation, NamesUsed
  <2>4. \A d \in Dirs : store'[d].there \/ store'[d] = Absent
    BY <1>0, <2>2, <2>3 DEF NamesUsed
  <2>5. ASSUME NEW s \in Stamps, NEW j \in Jobs, store'[<<s, j>>] # Absent
        PROVE  s \in used'[j]
    BY <1>0, <2>1, <2>2, <2>5, LocationNames DEF NamesUsed, Dirs
  <2> QED
    BY <2>1, <2>4, <2>5 DEF NamesUsed
<1>24. CASE CleanLocationFails
  <2>1. pc \in AtLocation /\ pc' \notin BeforeLocation /\ loc \in Dirs /\
          used' = used
    BY <1>t, <1>24 DEF CleanLocationFails, JobTyped, AtLocation, BeforeLocation
  <2>2. \A d \in Dirs : d # loc => store'[d] = store[d]
    BY <1>24, <2>1 DEF CleanLocationFails
  <2>3. store'[loc].there \/ store'[loc] = Absent
    <3>1. PICK zip \in {NoFile, store[loc].zip}, manifest \in {NoFile,
            store[loc].manifest},
               tmp \in {FALSE, store[loc].tmp} :
             store' = [store EXCEPT ![loc] = [there |-> @.there, zip |-> zip,
                                              manifest |-> manifest,
                                                  tmp |-> tmp]]
      BY <1>24 DEF CleanLocationFails
    <3>2. store'[loc] = [there |-> store[loc].there, zip |-> zip,
                         manifest |-> manifest, tmp |-> tmp]
      BY <1>t, <2>1, <3>1 DEF StoreTypeOK
    <3>3. CASE store[loc].there
      BY <3>2, <3>3
    <3>4. CASE store[loc] = Absent
      <4>1. store[loc].zip = NoFile /\ store[loc].manifest = NoFile
        BY <3>4 DEF Absent
      <4>2. store[loc].tmp = FALSE /\ store[loc].there = FALSE
        BY <3>4 DEF Absent
      <4>3. zip = NoFile /\ manifest = NoFile
        BY <4>1
      <4>4. tmp = FALSE
        BY <4>2
      <4> QED
        BY <3>2, <4>2, <4>3, <4>4 DEF Absent
    <3> QED
      BY <1>0, <2>1, <3>3, <3>4 DEF NamesUsed
  <2>4. \A d \in Dirs : store'[d].there \/ store'[d] = Absent
    BY <1>0, <2>2, <2>3 DEF NamesUsed
  <2>5. ASSUME NEW s \in Stamps, NEW j \in Jobs, store'[<<s, j>>] # Absent
        PROVE  s \in used'[j]
    BY <1>0, <2>1, <2>2, <2>5, LocationNames DEF NamesUsed, Dirs
  <2> QED
    BY <2>1, <2>4, <2>5 DEF NamesUsed
<1>25. CASE CleanCache
  BY <1>0, <1>25
  DEF CleanCache, NamesUsed, BeforeLocation, dbVars, localVars, auxVars
<1>26. CASE CleanPartial
  BY <1>0, <1>26 DEF CleanPartial, NamesUsed, BeforeLocation, dbVars, localVars
<1>27. CASE CleanPartialFails
  BY <1>0, <1>27
  DEF CleanPartialFails, NamesUsed, BeforeLocation, dbVars, localVars
<1>28. CASE FailBackupJob
  BY <1>0, <1>28, StoreAssumption
  DEF FailBackupJob, NamesUsed, dbVars, localVars, auxVars
<1>29. CASE Crash
  BY <1>0, <1>29, StoreAssumption DEF Crash, NamesUsed, dbVars, localVars
<1>30. CASE \E d \in Dirs : UserTouches(d)
  <2>1. PICK d \in Dirs : UserTouches(d)
    BY <1>30
  <2>2. \A e \in Dirs : e # d => store'[e] = store[e]
    BY <2>1 DEF UserTouches
  <2>3. store'[d].there \/ store'[d] = Absent
    BY <1>t, <2>1 DEF UserTouches, StoreTypeOK, DirStates
  <2>4. store[d] # Absent
    BY <2>1 DEF UserTouches, Absent
  <2>5. UNCHANGED <<pc, job, stamp, used>>
    BY <2>1 DEF UserTouches, localVars
  <2> QED
    BY <1>0, <2>2, <2>3, <2>4, <2>5 DEF NamesUsed, Dirs
<1>31. CASE UNCHANGED storeVars
  BY <1>0, <1>31 DEF storeVars, NamesUsed, dbVars, localVars, auxVars
<1> QED
  BY <1>1, <1>2, <1>3, <1>4, <1>5, <1>6, <1>7, <1>8, <1>9, <1>10, <1>11, <1>12,
     <1>13, <1>14, <1>15, <1>16,
     <1>17, <1>18, <1>19, <1>20, <1>21, <1>22, <1>23, <1>24, <1>25, <1>26,
         <1>27, <1>28, <1>29, <1>30, <1>31
  DEF StoreNext, QueueStep, EngineStep

(* Every step leaves the partial directory and the cache of the running    *)
(* job as the next one expects them.                                       *)
LEMMA PartialStep ==
  StoreInv /\ [StoreNext]_storeVars => PartialState'
<1> SUFFICES ASSUME StoreInv, [StoreNext]_storeVars
             PROVE  PartialState'
  OBVIOUS
<1>0. EngineLocals /\ JobRows /\ PartialState /\ IndexHasArchive /\
        LeftoversExplained
  BY DEF StoreInv
<1>t. JobTyped /\ StoreTypeOK
  BY TypedLocals DEF StoreInv
<1>1. CASE \E j \in Jobs : CreateBackupJob(j)
  BY <1>0, <1>1
  DEF CreateBackupJob, SetQueued, Open, PartialState, dbVars, localVars, auxVars
<1>2. CASE \E j \in Jobs : RequeueJob(j)
  BY <1>0, <1>2
  DEF RequeueJob, SetQueued, Open, PartialState, dbVars, localVars, auxVars
<1>3. CASE \E j \in Jobs : RetryJob(j)
  BY <1>0, <1>3
  DEF RetryJob, SetQueued, Open, PartialState, dbVars, localVars, auxVars
<1>4. CASE \E j \in Jobs : CancelJob(j)
  BY <1>0, <1>4 DEF CancelJob, Open, PartialState, dbVars, localVars, auxVars
<1>5. CASE \E j \in Jobs : StartBackupJob(j)
  BY <1>0, <1>5
  DEF StartBackupJob, PartialState, LeftoversExplained, Executing, dbVars,
      localVars
<1>6. CASE CreatePartial
  BY <1>0, <1>6
  DEF CreatePartial, PartialState, NoPartial, dbVars, localVars, auxVars
<1>7. CASE MakeCache
  BY <1>0, <1>t, <1>7
  DEF MakeCache, PartialState, StoreTypeOK, EngineLocals, dbVars, localVars
<1>8. CASE CreateArchive
  BY <1>0, <1>t, <1>8
  DEF CreateArchive, PartialState, PartialStates, StoreTypeOK, EngineLocals,
      dbVars, localVars, auxVars
<1>9. CASE OpenIndex
  BY <1>0, <1>9 DEF OpenIndex, PartialState, dbVars, localVars, auxVars
<1>10. CASE WriteArchive
  BY <1>0, <1>t, <1>10
  DEF WriteArchive, PartialState, StoreTypeOK, EngineLocals, dbVars, localVars,
      auxVars
<1>11. CASE SourceChanged
  BY <1>0, <1>t, <1>11
  DEF SourceChanged, PartialState, StoreTypeOK, EngineLocals, dbVars, localVars,
      auxVars
<1>12. CASE WriteFails
  BY <1>12 DEF WriteFails, PartialState, dbVars, localVars, auxVars
<1>13. CASE DiscardArchive
  BY <1>0, <1>13 DEF DiscardArchive, PartialState, dbVars, localVars, auxVars
<1>14. CASE SealArchive
  BY <1>0, <1>14 DEF SealArchive, PartialState, dbVars, localVars, auxVars
<1>15. CASE MakeLocation
  BY <1>0, <1>15
  DEF MakeLocation, FinalName, PartialState, dbVars, localVars, auxVars
<1>16. CASE RenameArchive
  BY <1>16 DEF RenameArchive, PartialState, dbVars, localVars, auxVars
<1>17. CASE RenameFails
  BY <1>17 DEF RenameFails, PartialState, dbVars, localVars
<1>18. CASE OpenManifest
  BY <1>18 DEF OpenManifest, PartialState, dbVars, localVars, auxVars
<1>19. CASE RenameManifest
  BY <1>19 DEF RenameManifest, PartialState, dbVars, localVars, auxVars
<1>20. CASE VerifyCommitted
  BY <1>20
  DEF VerifyCommitted, QuickVerify, PartialState, dbVars, localVars, auxVars
<1>21. CASE CommitSnapshot
  BY <1>21 DEF CommitSnapshot, PartialState, dbVars, localVars, auxVars
<1>22. CASE StepFails
  BY <1>0, <1>22
  DEF StepFails, Deferred, PartialState, dbVars, localVars, auxVars
<1>23. CASE CleanLocation
  BY <1>23 DEF CleanLocation, PartialState, dbVars, localVars, auxVars
<1>24. CASE CleanLocationFails
  BY <1>24 DEF CleanLocationFails, PartialState, dbVars, localVars
<1>25. CASE CleanCache
  BY <1>0, <1>t, <1>25
  DEF CleanCache, PartialState, StoreTypeOK, EngineLocals, dbVars, localVars,
      auxVars
<1>26. CASE CleanPartial
  BY <1>0, <1>t, <1>26
  DEF CleanPartial, PartialState, StoreTypeOK, EngineLocals, dbVars, localVars
<1>27. CASE CleanPartialFails
  BY <1>27 DEF CleanPartialFails, PartialState, dbVars, localVars
<1>28. CASE FailBackupJob
  BY <1>28 DEF FailBackupJob, PartialState, dbVars, localVars, auxVars
<1>29. CASE Crash
  BY <1>29 DEF Crash, PartialState, dbVars, localVars
<1>30. CASE \E d \in Dirs : UserTouches(d)
  BY <1>0, <1>30 DEF UserTouches, PartialState, dbVars, localVars
<1>31. CASE UNCHANGED storeVars
  BY <1>0, <1>31 DEF storeVars, PartialState, dbVars, localVars, auxVars
<1> QED
  BY <1>1, <1>2, <1>3, <1>4, <1>5, <1>6, <1>7, <1>8, <1>9, <1>10, <1>11, <1>12,
     <1>13, <1>14, <1>15, <1>16,
     <1>17, <1>18, <1>19, <1>20, <1>21, <1>22, <1>23, <1>24, <1>25, <1>26,
         <1>27, <1>28, <1>29, <1>30, <1>31
  DEF StoreNext, QueueStep, EngineStep

(* Every step keeps a file index beside its archive: the cache is removed  *)
(* before the partial directory.                                           *)
LEMMA IndexStep ==
  StoreInv /\ [StoreNext]_storeVars => IndexHasArchive'
<1> SUFFICES ASSUME StoreInv, [StoreNext]_storeVars
             PROVE  IndexHasArchive'
  OBVIOUS
<1>0. EngineLocals /\ JobRows /\ PartialState /\ IndexHasArchive /\
        LeftoversExplained
  BY DEF StoreInv
<1>t. JobTyped /\ StoreTypeOK
  BY TypedLocals DEF StoreInv
<1>1. CASE \E j \in Jobs : CreateBackupJob(j)
  BY <1>0, <1>1
  DEF CreateBackupJob, SetQueued, Open, IndexHasArchive, dbVars, localVars,
      auxVars
<1>2. CASE \E j \in Jobs : RequeueJob(j)
  BY <1>0, <1>2
  DEF RequeueJob, SetQueued, Open, IndexHasArchive, dbVars, localVars, auxVars
<1>3. CASE \E j \in Jobs : RetryJob(j)
  BY <1>0, <1>3
  DEF RetryJob, SetQueued, Open, IndexHasArchive, dbVars, localVars, auxVars
<1>4. CASE \E j \in Jobs : CancelJob(j)
  BY <1>0, <1>4 DEF CancelJob, Open, IndexHasArchive, dbVars, localVars, auxVars
<1>5. CASE \E j \in Jobs : StartBackupJob(j)
  BY <1>0, <1>5 DEF StartBackupJob, IndexHasArchive, dbVars, localVars
<1>6. CASE CreatePartial
  BY <1>0, <1>6 DEF CreatePartial, IndexHasArchive, dbVars, localVars, auxVars
<1>7. CASE MakeCache
  BY <1>0, <1>7 DEF MakeCache, IndexHasArchive, dbVars, localVars
<1>8. CASE CreateArchive
  BY <1>0, <1>t, <1>8
  DEF CreateArchive, PartialState, IndexHasArchive, StoreTypeOK, EngineLocals,
      dbVars, localVars, auxVars
<1>9. CASE OpenIndex
  BY <1>0, <1>t, <1>9
  DEF OpenIndex, PartialState, IndexHasArchive, NoFile, Torn, StoreTypeOK,
      dbVars, localVars, auxVars
<1>10. CASE WriteArchive
  BY <1>0, <1>t, <1>10
  DEF WriteArchive, IndexHasArchive, StoreTypeOK, dbVars, localVars, auxVars
<1>11. CASE SourceChanged
  BY <1>0, <1>11 DEF SourceChanged, IndexHasArchive, dbVars, localVars, auxVars
<1>12. CASE WriteFails
  BY <1>0, <1>12 DEF WriteFails, IndexHasArchive, dbVars, localVars, auxVars
<1>13. CASE DiscardArchive
  BY <1>0, <1>13
  DEF DiscardArchive, PartialState, IndexHasArchive, dbVars, localVars, auxVars
<1>14. CASE SealArchive
  BY <1>0, <1>14 DEF SealArchive, IndexHasArchive, dbVars, localVars, auxVars
<1>15. CASE MakeLocation
  BY <1>0, <1>15
  DEF MakeLocation, FinalName, IndexHasArchive, dbVars, localVars, auxVars
<1>16. CASE RenameArchive
  BY <1>0, <1>16
  DEF RenameArchive, PartialState, IndexHasArchive, dbVars, localVars, auxVars
<1>17. CASE RenameFails
  BY <1>0, <1>17 DEF RenameFails, IndexHasArchive, dbVars, localVars
<1>18. CASE OpenManifest
  BY <1>0, <1>18 DEF OpenManifest, IndexHasArchive, dbVars, localVars, auxVars
<1>19. CASE RenameManifest
  BY <1>0, <1>19 DEF RenameManifest, IndexHasArchive, dbVars, localVars, auxVars
<1>20. CASE VerifyCommitted
  BY <1>0, <1>20
  DEF VerifyCommitted, QuickVerify, IndexHasArchive, dbVars, localVars, auxVars
<1>21. CASE CommitSnapshot
  BY <1>0, <1>21 DEF CommitSnapshot, IndexHasArchive, dbVars, localVars, auxVars
<1>22. CASE StepFails
  BY <1>0, <1>22
  DEF StepFails, Deferred, IndexHasArchive, dbVars, localVars, auxVars
<1>23. CASE CleanLocation
  BY <1>0, <1>23 DEF CleanLocation, IndexHasArchive, dbVars, localVars, auxVars
<1>24. CASE CleanLocationFails
  BY <1>0, <1>24 DEF CleanLocationFails, IndexHasArchive, dbVars, localVars
<1>25. CASE CleanCache
  BY <1>0, <1>25 DEF CleanCache, IndexHasArchive, dbVars, localVars, auxVars
<1>26. CASE CleanPartial
  BY <1>0, <1>26
  DEF CleanPartial, PartialState, IndexHasArchive, dbVars, localVars
<1>27. CASE CleanPartialFails
  BY <1>0, <1>27 DEF CleanPartialFails, IndexHasArchive, dbVars, localVars
<1>28. CASE FailBackupJob
  BY <1>0, <1>28 DEF FailBackupJob, IndexHasArchive, dbVars, localVars, auxVars
<1>29. CASE Crash
  BY <1>0, <1>29 DEF Crash, IndexHasArchive, dbVars, localVars
<1>30. CASE \E d \in Dirs : UserTouches(d)
  BY <1>0, <1>30 DEF UserTouches, IndexHasArchive, dbVars, localVars
<1>31. CASE UNCHANGED storeVars
  BY <1>0, <1>31 DEF storeVars, IndexHasArchive, dbVars, localVars, auxVars
<1> QED
  BY <1>1, <1>2, <1>3, <1>4, <1>5, <1>6, <1>7, <1>8, <1>9, <1>10, <1>11, <1>12,
     <1>13, <1>14, <1>15, <1>16,
     <1>17, <1>18, <1>19, <1>20, <1>21, <1>22, <1>23, <1>24, <1>25, <1>26,
         <1>27, <1>28, <1>29, <1>30, <1>31
  DEF StoreNext, QueueStep, EngineStep

(* Every step keeps leftovers explained: the deferred removals of execute  *)
(* leave nothing behind unless they are cut short.                         *)
LEMMA LeftoversStep ==
  StoreInv /\ [StoreNext]_storeVars => LeftoversExplained'
<1> SUFFICES ASSUME StoreInv, [StoreNext]_storeVars
             PROVE  LeftoversExplained'
  OBVIOUS
<1>0. EngineLocals /\ JobRows /\ PartialState /\ IndexHasArchive /\
        LeftoversExplained
  BY DEF StoreInv
<1>t. JobTyped /\ StoreTypeOK
  BY TypedLocals DEF StoreInv
<1>1. CASE \E j \in Jobs : CreateBackupJob(j)
  BY <1>0, <1>1
  DEF CreateBackupJob, SetQueued, Open, LeftoversExplained, Executing, dbVars,
      localVars, auxVars
<1>2. CASE \E j \in Jobs : RequeueJob(j)
  BY <1>0, <1>2
  DEF RequeueJob, SetQueued, Open, Executing, LeftoversExplained, Executing,
      dbVars, localVars, auxVars
<1>3. CASE \E j \in Jobs : RetryJob(j)
  BY <1>0, <1>3
  DEF RetryJob, SetQueued, Open, LeftoversExplained, Executing, dbVars,
      localVars, auxVars
<1>4. CASE \E j \in Jobs : CancelJob(j)
  BY <1>0, <1>4
  DEF CancelJob, Open, Executing, LeftoversExplained, Executing, dbVars,
      localVars, auxVars
<1>5. CASE \E j \in Jobs : StartBackupJob(j)
  BY <1>0, <1>5
  DEF StartBackupJob, LeftoversExplained, Executing, dbVars, localVars
<1>6. CASE CreatePartial
  BY <1>0, <1>6
  DEF CreatePartial, LeftoversExplained, Executing, dbVars, localVars, auxVars
<1>7. CASE MakeCache
  BY <1>0, <1>7
  DEF MakeCache, PartialState, LeftoversExplained, Executing, dbVars, localVars
<1>8. CASE CreateArchive
  BY <1>0, <1>t, <1>8
  DEF CreateArchive, LeftoversExplained, Executing, StoreTypeOK, dbVars,
      localVars, auxVars
<1>9. CASE OpenIndex
  BY <1>0, <1>t, <1>9
  DEF OpenIndex, LeftoversExplained, Executing, StoreTypeOK, dbVars, localVars,
      auxVars
<1>10. CASE WriteArchive
  BY <1>0, <1>10
  DEF WriteArchive, LeftoversExplained, Executing, dbVars, localVars, auxVars
<1>11. CASE SourceChanged
  BY <1>0, <1>11
  DEF SourceChanged, LeftoversExplained, Executing, dbVars, localVars, auxVars
<1>12. CASE WriteFails
  BY <1>0, <1>12
  DEF WriteFails, LeftoversExplained, Executing, dbVars, localVars, auxVars
<1>13. CASE DiscardArchive
  <2>1. job \in Jobs /\ pc = "discard" /\ pc' = "create" /\ job' = job /\
          UNCHANGED <<cache, cut>>
    BY <1>t, <1>13 DEF DiscardArchive, JobTyped, auxVars
  <2>2. partial'[job].zip = NoFile
    BY <1>t, <1>13, <2>1 DEF DiscardArchive, StoreTypeOK
  <2>3. \A j \in Jobs : j # job => partial'[j] = partial[j]
    BY <1>13 DEF DiscardArchive
  <2> QED
    BY <1>0, <2>1, <2>2, <2>3 DEF LeftoversExplained, Executing
<1>14. CASE SealArchive
  BY <1>0, <1>14
  DEF SealArchive, LeftoversExplained, Executing, dbVars, localVars, auxVars
<1>15. CASE MakeLocation
  BY <1>0, <1>15
  DEF MakeLocation, FinalName, LeftoversExplained, Executing, dbVars, localVars,
      auxVars
<1>16. CASE RenameArchive
  BY <1>0, <1>16
  DEF RenameArchive, LeftoversExplained, Executing, dbVars, localVars, auxVars
<1>17. CASE RenameFails
  BY <1>0, <1>17
  DEF RenameFails, LeftoversExplained, Executing, dbVars, localVars
<1>18. CASE OpenManifest
  BY <1>0, <1>18
  DEF OpenManifest, LeftoversExplained, Executing, dbVars, localVars, auxVars
<1>19. CASE RenameManifest
  BY <1>0, <1>19
  DEF RenameManifest, LeftoversExplained, Executing, dbVars, localVars, auxVars
<1>20. CASE VerifyCommitted
  BY <1>0, <1>20
  DEF VerifyCommitted, QuickVerify, LeftoversExplained, Executing, dbVars,
      localVars, auxVars
<1>21. CASE CommitSnapshot
  BY <1>0, <1>21
  DEF CommitSnapshot, LeftoversExplained, Executing, dbVars, localVars, auxVars
<1>22. CASE StepFails
  BY <1>0, <1>22
  DEF StepFails, Deferred, LeftoversExplained, Executing, dbVars, localVars,
      auxVars
<1>23. CASE CleanLocation
  BY <1>0, <1>23
  DEF CleanLocation, LeftoversExplained, Executing, dbVars, localVars, auxVars
<1>24. CASE CleanLocationFails
  BY <1>0, <1>24
  DEF CleanLocationFails, LeftoversExplained, Executing, dbVars, localVars
<1>25. CASE CleanCache
  BY <1>0, <1>25
  DEF CleanCache, LeftoversExplained, Executing, dbVars, localVars, auxVars
<1>26. CASE CleanPartial
  BY <1>0, <1>26
  DEF CleanPartial, LeftoversExplained, Executing, dbVars, localVars
<1>27. CASE CleanPartialFails
  BY <1>0, <1>27
  DEF CleanPartialFails, LeftoversExplained, Executing, dbVars, localVars
<1>28. CASE FailBackupJob
  BY <1>0, <1>28
  DEF FailBackupJob, PartialState, LeftoversExplained, Executing, dbVars,
      localVars, auxVars
<1>29. CASE Crash
  BY <1>0, <1>29 DEF Crash, LeftoversExplained, Executing, dbVars, localVars
<1>30. CASE \E d \in Dirs : UserTouches(d)
  BY <1>0, <1>30
  DEF UserTouches, LeftoversExplained, Executing, dbVars, localVars
<1>31. CASE UNCHANGED storeVars
  BY <1>0, <1>31
  DEF storeVars, LeftoversExplained, Executing, dbVars, localVars, auxVars
<1> QED
  BY <1>1, <1>2, <1>3, <1>4, <1>5, <1>6, <1>7, <1>8, <1>9, <1>10, <1>11, <1>12,
     <1>13, <1>14, <1>15, <1>16,
     <1>17, <1>18, <1>19, <1>20, <1>21, <1>22, <1>23, <1>24, <1>25, <1>26,
         <1>27, <1>28, <1>29, <1>30, <1>31
  DEF StoreNext, QueueStep, EngineStep

(* The name that CommitArchive chooses is that of an absent directory, and *)
(* a row that names it was changed by the user.                            *)
LEMMA FreshName ==
  ASSUME StoreInv, pc = "location"
  PROVE  /\ FinalName \in Dirs /\ store[FinalName] = Absent
         /\ \A j \in Jobs : row[j].dir = FinalName => FinalName \in touched
<1>1. job \in Jobs /\ stamp \in Stamps /\ jobStatus[job] = "RUNNING"
  BY TypedLocals DEF JobTyped, BeforeLocation, BeforeCommit, StoreInv, JobRows
<1>2. <<stamp, NoJob>> \in Dirs /\ <<stamp, job>> \in Dirs
  BY <1>1 DEF Dirs
<1>3. FinalName \in Dirs /\ store[FinalName] = Absent
  <2>1. CASE store[<<stamp, NoJob>>].there
    <3>1. FinalName = <<stamp, job>>
      BY <2>1 DEF FinalName
    <3>2. store[<<stamp, job>>] = Absent
      BY <1>1 DEF StoreInv, NamesUsed, BeforeLocation
    <3> QED
      BY <1>2, <3>1, <3>2
  <2>2. CASE ~store[<<stamp, NoJob>>].there
    BY <1>2, <2>2 DEF FinalName, StoreInv, NamesUsed
  <2> QED
    BY <2>1, <2>2
<1>4. ~store[FinalName].there
  BY <1>3 DEF Absent
<1>5. ASSUME NEW j \in Jobs, row[j].dir = FinalName
      PROVE  FinalName \in touched
  <2>1. HasRow(j)
    BY <1>3, <1>5, StoreAssumption DEF HasRow, NoRow
  <2> SUFFICES ASSUME FinalName \notin touched
               PROVE  FALSE
    OBVIOUS
  <2>2. store[FinalName].there
    BY <1>5, <2>1 DEF StoreInv, SnapshotsComplete, Contents
  <2> QED
    BY <1>4, <2>2
<1> QED
  BY <1>3, <1>5

(* A step that changes one directory, which no untouched row names, keeps  *)
(* the snapshots complete.                                                 *)
LEMMA CompleteKept ==
  ASSUME StoreInv, row' = row, touched \subseteq touched', NEW D \in Dirs,
         \A d \in Dirs : d # D => store'[d] = store[d],
         \A j \in Jobs : row[j].dir = D => D \in touched'
  PROVE  SnapshotsComplete'
<1> SUFFICES ASSUME NEW j \in Jobs, HasRow(j)', row'[j].dir \notin touched'
             PROVE  Contents(row[j].dir, row[j].digest, row[j].digest, FALSE)'
  BY DEF SnapshotsComplete
<1>1. HasRow(j) /\ row[j].dir \notin touched
  BY DEF HasRow
<1>2. row[j].dir \in Dirs
  BY <1>1 DEF StoreInv, JobRows, Dirs
<1>3. store'[row[j].dir] = store[row[j].dir]
  BY <1>2
<1> QED
  BY <1>1, <1>3 DEF StoreInv, SnapshotsComplete, Contents

(* Every step keeps committed snapshots complete; CommitSnapshot adds one  *)
(* that is.                                                                *)
LEMMA SnapshotsStep ==
  StoreInv /\ [StoreNext]_storeVars => SnapshotsComplete'
<1> SUFFICES ASSUME StoreInv, [StoreNext]_storeVars
             PROVE  SnapshotsComplete'
  OBVIOUS
<1>0. EngineLocals /\ SnapshotsComplete /\ LocationState
  BY DEF StoreInv
<1>t. JobTyped /\ StoreTypeOK
  BY TypedLocals DEF StoreInv
<1>1. CASE \E j \in Jobs : CreateBackupJob(j)
  BY <1>0, <1>1
  DEF CreateBackupJob, SetQueued, Open, SnapshotsComplete, Contents, HasRow,
      dbVars, localVars, auxVars
<1>2. CASE \E j \in Jobs : RequeueJob(j)
  BY <1>0, <1>2
  DEF RequeueJob, SetQueued, Open, SnapshotsComplete, Contents, HasRow, dbVars,
      localVars, auxVars
<1>3. CASE \E j \in Jobs : RetryJob(j)
  BY <1>0, <1>3
  DEF RetryJob, SetQueued, Open, SnapshotsComplete, Contents, HasRow, dbVars,
      localVars, auxVars
<1>4. CASE \E j \in Jobs : CancelJob(j)
  BY <1>0, <1>4
  DEF CancelJob, Open, SnapshotsComplete, Contents, HasRow, dbVars, localVars,
      auxVars
<1>5. CASE \E j \in Jobs : StartBackupJob(j)
  BY <1>0, <1>5
  DEF StartBackupJob, SnapshotsComplete, Contents, HasRow, dbVars, localVars
<1>6. CASE CreatePartial
  BY <1>0, <1>6
  DEF CreatePartial, SnapshotsComplete, Contents, HasRow, dbVars, localVars,
      auxVars
<1>7. CASE MakeCache
  BY <1>0, <1>7
  DEF MakeCache, SnapshotsComplete, Contents, HasRow, dbVars, localVars
<1>8. CASE CreateArchive
  BY <1>0, <1>8
  DEF CreateArchive, SnapshotsComplete, Contents, HasRow, dbVars, localVars,
      auxVars
<1>9. CASE OpenIndex
  BY <1>0, <1>9
  DEF OpenIndex, SnapshotsComplete, Contents, HasRow, dbVars, localVars, auxVars
<1>10. CASE WriteArchive
  BY <1>0, <1>10
  DEF WriteArchive, SnapshotsComplete, Contents, HasRow, dbVars, localVars,
      auxVars
<1>11. CASE SourceChanged
  BY <1>0, <1>11
  DEF SourceChanged, SnapshotsComplete, Contents, HasRow, dbVars, localVars,
      auxVars
<1>12. CASE WriteFails
  BY <1>0, <1>12
  DEF WriteFails, SnapshotsComplete, Contents, HasRow, dbVars, localVars,
      auxVars
<1>13. CASE DiscardArchive
  BY <1>0, <1>13
  DEF DiscardArchive, SnapshotsComplete, Contents, HasRow, dbVars, localVars,
      auxVars
<1>14. CASE SealArchive
  BY <1>0, <1>14
  DEF SealArchive, SnapshotsComplete, Contents, HasRow, dbVars, localVars,
      auxVars
<1>15. CASE MakeLocation
  <2>1. /\ FinalName \in Dirs
        /\ \A j \in Jobs : row[j].dir = FinalName => FinalName \in touched
    BY <1>15, FreshName DEF MakeLocation
  <2>2. PICK D \in Dirs : D = FinalName
    BY <2>1
  <2>3. \A d \in Dirs : d # D => store'[d] = store[d]
    BY <1>15, <2>2 DEF MakeLocation
  <2>5. row' = row /\ touched' = touched
    BY <1>15 DEF MakeLocation, dbVars, auxVars
  <2> QED
    BY <2>1, <2>2, <2>3, <2>5, CompleteKept
<1>16. CASE RenameArchive
  <2>1. loc \in Dirs /\ loc # NoDir /\ pc \in AtLocation
    BY <1>0, <1>t, <1>16 DEF RenameArchive, JobTyped, AtLocation, EngineLocals
  <2>2. PICK D \in Dirs : D = loc
    BY <2>1
  <2>3. \A d \in Dirs : d # D => store'[d] = store[d]
    BY <1>16, <2>2 DEF RenameArchive
  <2>4. \A j \in Jobs : row[j].dir = D => D \in touched'
    BY <1>0, <1>16, <2>1, <2>2 DEF RenameArchive, LocationState, auxVars
  <2>5. row' = row /\ touched \subseteq touched'
    BY <1>16 DEF RenameArchive, dbVars, auxVars
  <2> QED
    BY <2>3, <2>4, <2>5, CompleteKept
<1>17. CASE RenameFails
  BY <1>0, <1>17
  DEF RenameFails, SnapshotsComplete, Contents, HasRow, dbVars, localVars
<1>18. CASE OpenManifest
  <2>1. loc \in Dirs /\ loc # NoDir /\ pc \in AtLocation
    BY <1>0, <1>t, <1>18 DEF OpenManifest, JobTyped, AtLocation, EngineLocals
  <2>2. PICK D \in Dirs : D = loc
    BY <2>1
  <2>3. \A d \in Dirs : d # D => store'[d] = store[d]
    BY <1>18, <2>2 DEF OpenManifest
  <2>4. \A j \in Jobs : row[j].dir = D => D \in touched'
    BY <1>0, <1>18, <2>1, <2>2 DEF OpenManifest, LocationState, auxVars
  <2>5. row' = row /\ touched \subseteq touched'
    BY <1>18 DEF OpenManifest, dbVars, auxVars
  <2> QED
    BY <2>3, <2>4, <2>5, CompleteKept
<1>19. CASE RenameManifest
  <2>1. loc \in Dirs /\ loc # NoDir /\ pc \in AtLocation
    BY <1>0, <1>t, <1>19 DEF RenameManifest, JobTyped, AtLocation, EngineLocals
  <2>2. PICK D \in Dirs : D = loc
    BY <2>1
  <2>3. \A d \in Dirs : d # D => store'[d] = store[d]
    BY <1>t, <1>19, <2>2 DEF RenameManifest, StoreTypeOK
  <2>4. \A j \in Jobs : row[j].dir = D => D \in touched'
    BY <1>0, <1>19, <2>1, <2>2 DEF RenameManifest, LocationState, auxVars
  <2>5. row' = row /\ touched \subseteq touched'
    BY <1>19 DEF RenameManifest, dbVars, auxVars
  <2> QED
    BY <2>3, <2>4, <2>5, CompleteKept
<1>20. CASE VerifyCommitted
  BY <1>0, <1>20
  DEF VerifyCommitted, QuickVerify, SnapshotsComplete, Contents, HasRow, dbVars,
      localVars, auxVars
<1>21. CASE CommitSnapshot
  <2>1. /\ job \in Jobs /\ loc \in Dirs /\ store' = store /\ touched' = touched
        /\ row' = [row EXCEPT ![job] =
            [dir |-> loc, digest |-> execs, verification |-> "VERIFIED"]]
    BY <1>t, <1>21 DEF CommitSnapshot, JobTyped, AtLocation, auxVars
  <2>2. /\ row'[job].dir = loc /\ row'[job].digest = execs
        /\ \A j \in Jobs : j # job => row'[j] = row[j]
    BY <1>t, <2>1 DEF StoreTypeOK
  <2>3. loc \notin touched => Contents(loc, execs, execs, FALSE)
    BY <1>0, <1>21 DEF CommitSnapshot, LocationState, Contents, AtLocation
  <2>4. \A j \in Jobs : j # job /\ HasRow(j)' => HasRow(j)
    BY <2>2 DEF HasRow
  <2> SUFFICES ASSUME NEW j \in Jobs, HasRow(j)', row'[j].dir \notin touched'
               PROVE  Contents(row[j].dir, row[j].digest, row[j].digest, FALSE)'
    BY DEF SnapshotsComplete
  <2>5. CASE j = job
    <3>1. row'[j].dir = loc /\ row'[j].digest = execs
      BY <2>2, <2>5
    <3>2. loc \notin touched
      BY <2>1, <3>1
    <3> QED
      BY <2>1, <2>3, <3>1, <3>2 DEF Contents
  <2>6. CASE j # job
    <3>1. HasRow(j) /\ row'[j] = row[j]
      BY <2>2, <2>4, <2>6
    <3> QED
      BY <1>0, <2>1, <3>1 DEF SnapshotsComplete, Contents
  <2> QED
    BY <2>5, <2>6
<1>22. CASE StepFails
  BY <1>0, <1>22
  DEF StepFails, Deferred, SnapshotsComplete, Contents, HasRow, dbVars,
      localVars, auxVars
<1>23. CASE CleanLocation
  <2>1. loc \in Dirs /\ loc # NoDir /\ pc \in AtLocation
    BY <1>0, <1>t, <1>23 DEF CleanLocation, JobTyped, AtLocation, EngineLocals
  <2>2. PICK D \in Dirs : D = loc
    BY <2>1
  <2>3. \A d \in Dirs : d # D => store'[d] = store[d]
    BY <1>23, <2>2 DEF CleanLocation
  <2>4. \A j \in Jobs : row[j].dir = D => D \in touched'
    BY <1>0, <1>23, <2>1, <2>2 DEF CleanLocation, LocationState, auxVars
  <2>5. row' = row /\ touched \subseteq touched'
    BY <1>23 DEF CleanLocation, dbVars, auxVars
  <2> QED
    BY <2>3, <2>4, <2>5, CompleteKept
<1>24. CASE CleanLocationFails
  <2>1. loc \in Dirs /\ loc # NoDir /\ pc \in AtLocation
    BY <1>0, <1>t, <1>24
    DEF CleanLocationFails, JobTyped, AtLocation, EngineLocals
  <2>2. PICK D \in Dirs : D = loc
    BY <2>1
  <2>3. \A d \in Dirs : d # D => store'[d] = store[d]
    BY <1>24, <2>2 DEF CleanLocationFails
  <2>4. \A j \in Jobs : row[j].dir = D => D \in touched'
    BY <1>0, <1>24, <2>1, <2>2 DEF CleanLocationFails, LocationState
  <2>5. row' = row /\ touched \subseteq touched'
    BY <1>24 DEF CleanLocationFails, dbVars
  <2> QED
    BY <2>3, <2>4, <2>5, CompleteKept
<1>25. CASE CleanCache
  BY <1>0, <1>25
  DEF CleanCache, SnapshotsComplete, Contents, HasRow, dbVars, localVars,
      auxVars
<1>26. CASE CleanPartial
  BY <1>0, <1>26
  DEF CleanPartial, SnapshotsComplete, Contents, HasRow, dbVars, localVars
<1>27. CASE CleanPartialFails
  BY <1>0, <1>27
  DEF CleanPartialFails, SnapshotsComplete, Contents, HasRow, dbVars, localVars
<1>28. CASE FailBackupJob
  BY <1>0, <1>28
  DEF FailBackupJob, SnapshotsComplete, Contents, HasRow, dbVars, localVars,
      auxVars
<1>29. CASE Crash
  BY <1>0, <1>29
  DEF Crash, SnapshotsComplete, Contents, HasRow, dbVars, localVars
<1>30. CASE \E d \in Dirs : UserTouches(d)
  <2>1. PICK d \in Dirs : UserTouches(d)
    BY <1>30
  <2>2. \A e \in Dirs : e # d => store'[e] = store[e]
    BY <2>1 DEF UserTouches
  <2>3. /\ d \in touched' /\ touched \subseteq touched'
        /\ UNCHANGED <<row, pc, loc, execs>>
    BY <2>1 DEF UserTouches, dbVars
  <2> QED
    BY <2>2, <2>3, CompleteKept
<1>31. CASE UNCHANGED storeVars
  BY <1>0, <1>31
  DEF storeVars, SnapshotsComplete, Contents, HasRow, dbVars, localVars, auxVars
<1> QED
  BY <1>1, <1>2, <1>3, <1>4, <1>5, <1>6, <1>7, <1>8, <1>9, <1>10, <1>11, <1>12,
     <1>13, <1>14, <1>15, <1>16,
     <1>17, <1>18, <1>19, <1>20, <1>21, <1>22, <1>23, <1>24, <1>25, <1>26,
         <1>27, <1>28, <1>29, <1>30, <1>31
  DEF StoreNext, QueueStep, EngineStep

(* Every step keeps the location fresh until the archive is moved into it. *)
LEMMA FreshStep ==
  StoreInv /\ [StoreNext]_storeVars => FreshLocation'
<1> SUFFICES ASSUME StoreInv, [StoreNext]_storeVars
             PROVE  FreshLocation'
  OBVIOUS
<1>0. EngineLocals /\ FreshLocation
  BY DEF StoreInv
<1>t. JobTyped /\ StoreTypeOK
  BY TypedLocals DEF StoreInv
<1>1. CASE \E j \in Jobs : CreateBackupJob(j)
  BY <1>0, <1>1
  DEF CreateBackupJob, SetQueued, Open, FreshLocation, dbVars, localVars,
      auxVars
<1>2. CASE \E j \in Jobs : RequeueJob(j)
  BY <1>0, <1>2
  DEF RequeueJob, SetQueued, Open, FreshLocation, dbVars, localVars, auxVars
<1>3. CASE \E j \in Jobs : RetryJob(j)
  BY <1>0, <1>3
  DEF RetryJob, SetQueued, Open, FreshLocation, dbVars, localVars, auxVars
<1>4. CASE \E j \in Jobs : CancelJob(j)
  BY <1>0, <1>4 DEF CancelJob, Open, FreshLocation, dbVars, localVars, auxVars
<1>5. CASE \E j \in Jobs : StartBackupJob(j)
  BY <1>5 DEF StartBackupJob, FreshLocation, dbVars, localVars
<1>6. CASE CreatePartial
  BY <1>6 DEF CreatePartial, FreshLocation, dbVars, localVars, auxVars
<1>7. CASE MakeCache
  BY <1>7 DEF MakeCache, FreshLocation, dbVars, localVars
<1>8. CASE CreateArchive
  BY <1>8 DEF CreateArchive, FreshLocation, dbVars, localVars, auxVars
<1>9. CASE OpenIndex
  BY <1>9 DEF OpenIndex, FreshLocation, dbVars, localVars, auxVars
<1>10. CASE WriteArchive
  BY <1>10 DEF WriteArchive, FreshLocation, dbVars, localVars, auxVars
<1>11. CASE SourceChanged
  BY <1>11 DEF SourceChanged, FreshLocation, dbVars, localVars, auxVars
<1>12. CASE WriteFails
  BY <1>12 DEF WriteFails, FreshLocation, dbVars, localVars, auxVars
<1>13. CASE DiscardArchive
  BY <1>13 DEF DiscardArchive, FreshLocation, dbVars, localVars, auxVars
<1>14. CASE SealArchive
  BY <1>14 DEF SealArchive, FreshLocation, dbVars, localVars, auxVars
<1>15. CASE MakeLocation
  <2>1. /\ FinalName \in Dirs /\ store[FinalName] = Absent
        /\ \A j \in Jobs : row[j].dir = FinalName => FinalName \in touched
    BY <1>15, FreshName DEF MakeLocation
  <2>2. \A d \in Dirs : d # FinalName => store'[d] = store[d]
    BY <1>15, <2>1 DEF MakeLocation
  <2>3. store'[FinalName] =
          [there |-> TRUE, zip |-> NoFile, manifest |-> NoFile, tmp |-> FALSE]
    <3>1. store'[FinalName] = [Absent EXCEPT !.there = TRUE]
      BY <1>t, <1>15, <2>1 DEF MakeLocation, StoreTypeOK
    <3> QED
      BY <3>1 DEF Absent
  <2>4. /\ loc' = FinalName /\ pc' = "rename"
        /\ UNCHANGED <<row, touched, execs>>
    BY <1>15 DEF MakeLocation, dbVars, auxVars
  <2> QED
    BY <2>1, <2>3, <2>4 DEF FreshLocation
<1>16. CASE RenameArchive
  BY <1>16 DEF RenameArchive, FreshLocation, dbVars, localVars, auxVars
<1>17. CASE RenameFails
  BY <1>17 DEF RenameFails, FreshLocation, dbVars, localVars
<1>18. CASE OpenManifest
  BY <1>18 DEF OpenManifest, FreshLocation, dbVars, localVars, auxVars
<1>19. CASE RenameManifest
  BY <1>19 DEF RenameManifest, FreshLocation, dbVars, localVars, auxVars
<1>20. CASE VerifyCommitted
  BY <1>20
  DEF VerifyCommitted, QuickVerify, FreshLocation, dbVars, localVars, auxVars
<1>21. CASE CommitSnapshot
  BY <1>21 DEF CommitSnapshot, FreshLocation, dbVars, localVars, auxVars
<1>22. CASE StepFails
  BY <1>22 DEF StepFails, Deferred, FreshLocation, dbVars, localVars, auxVars
<1>23. CASE CleanLocation
  BY <1>23 DEF CleanLocation, FreshLocation, dbVars, localVars, auxVars
<1>24. CASE CleanLocationFails
  BY <1>24 DEF CleanLocationFails, FreshLocation, dbVars, localVars
<1>25. CASE CleanCache
  BY <1>25 DEF CleanCache, FreshLocation, dbVars, localVars, auxVars
<1>26. CASE CleanPartial
  BY <1>26 DEF CleanPartial, FreshLocation, dbVars, localVars
<1>27. CASE CleanPartialFails
  BY <1>27 DEF CleanPartialFails, FreshLocation, dbVars, localVars
<1>28. CASE FailBackupJob
  BY <1>28 DEF FailBackupJob, FreshLocation, dbVars, localVars, auxVars
<1>29. CASE Crash
  BY <1>29 DEF Crash, FreshLocation, dbVars, localVars
<1>30. CASE \E d \in Dirs : UserTouches(d)
  <2>1. PICK d \in Dirs : UserTouches(d)
    BY <1>30
  <2>2. \A e \in Dirs : e # d => store'[e] = store[e]
    BY <2>1 DEF UserTouches
  <2>3. /\ d \in touched' /\ touched \subseteq touched'
        /\ UNCHANGED <<row, pc, loc, execs>>
    BY <2>1 DEF UserTouches, dbVars
  <2>4. d = loc /\ pc = "rename" =>
          store'[loc].zip = NoFile /\ store'[loc].manifest = NoFile /\
              ~store'[loc].tmp
    BY <1>0, <1>t, <2>1
    DEF UserTouches, FreshLocation, StoreTypeOK, DirStates, Absent
  <2>5. pc = "rename" => loc \in Dirs
    BY <1>t DEF JobTyped, AtLocation
  <2> QED
    BY <1>0, <2>2, <2>3, <2>4, <2>5 DEF FreshLocation
<1>31. CASE UNCHANGED storeVars
  BY <1>0, <1>31 DEF storeVars, FreshLocation, dbVars, localVars, auxVars
<1> QED
  BY <1>1, <1>2, <1>3, <1>4, <1>5, <1>6, <1>7, <1>8, <1>9, <1>10, <1>11, <1>12,
     <1>13, <1>14, <1>15, <1>16,
     <1>17, <1>18, <1>19, <1>20, <1>21, <1>22, <1>23, <1>24, <1>25, <1>26,
         <1>27, <1>28, <1>29, <1>30, <1>31
  DEF StoreNext, QueueStep, EngineStep

(* Every step keeps manifests true: WriteManifest works beside the archive *)
(* of the same execution, and a removal that stops half way only takes     *)
(* files away.                                                             *)
LEMMA ManifestsStep ==
  StoreInv /\ [StoreNext]_storeVars => ManifestsTrue'
<1> SUFFICES ASSUME StoreInv, [StoreNext]_storeVars
             PROVE  ManifestsTrue'
  OBVIOUS
<1>0. EngineLocals /\ LocationState /\ FreshLocation /\ ManifestsTrue
  BY DEF StoreInv
<1>t. JobTyped /\ StoreTypeOK
  BY TypedLocals DEF StoreInv
<1>1. CASE \E j \in Jobs : CreateBackupJob(j)
  BY <1>0, <1>1
  DEF CreateBackupJob, SetQueued, Open, ManifestsTrue, dbVars, localVars,
      auxVars
<1>2. CASE \E j \in Jobs : RequeueJob(j)
  BY <1>0, <1>2
  DEF RequeueJob, SetQueued, Open, ManifestsTrue, dbVars, localVars, auxVars
<1>3. CASE \E j \in Jobs : RetryJob(j)
  BY <1>0, <1>3
  DEF RetryJob, SetQueued, Open, ManifestsTrue, dbVars, localVars, auxVars
<1>4. CASE \E j \in Jobs : CancelJob(j)
  BY <1>0, <1>4 DEF CancelJob, Open, ManifestsTrue, dbVars, localVars, auxVars
<1>5. CASE \E j \in Jobs : StartBackupJob(j)
  BY <1>0, <1>5 DEF StartBackupJob, ManifestsTrue, dbVars, localVars
<1>6. CASE CreatePartial
  BY <1>0, <1>6 DEF CreatePartial, ManifestsTrue, dbVars, localVars, auxVars
<1>7. CASE MakeCache
  BY <1>0, <1>7 DEF MakeCache, ManifestsTrue, dbVars, localVars
<1>8. CASE CreateArchive
  BY <1>0, <1>8 DEF CreateArchive, ManifestsTrue, dbVars, localVars, auxVars
<1>9. CASE OpenIndex
  BY <1>0, <1>9 DEF OpenIndex, ManifestsTrue, dbVars, localVars, auxVars
<1>10. CASE WriteArchive
  BY <1>0, <1>10 DEF WriteArchive, ManifestsTrue, dbVars, localVars, auxVars
<1>11. CASE SourceChanged
  BY <1>0, <1>11 DEF SourceChanged, ManifestsTrue, dbVars, localVars, auxVars
<1>12. CASE WriteFails
  BY <1>0, <1>12 DEF WriteFails, ManifestsTrue, dbVars, localVars, auxVars
<1>13. CASE DiscardArchive
  BY <1>0, <1>13 DEF DiscardArchive, ManifestsTrue, dbVars, localVars, auxVars
<1>14. CASE SealArchive
  BY <1>0, <1>14 DEF SealArchive, ManifestsTrue, dbVars, localVars, auxVars
<1>15. CASE MakeLocation
  <2>1. /\ FinalName \in Dirs /\ store[FinalName] = Absent
        /\ \A j \in Jobs : row[j].dir = FinalName => FinalName \in touched
    BY <1>15, FreshName DEF MakeLocation
  <2>2. \A d \in Dirs : d # FinalName => store'[d] = store[d]
    BY <1>15, <2>1 DEF MakeLocation
  <2>3. store'[FinalName] =
          [there |-> TRUE, zip |-> NoFile, manifest |-> NoFile, tmp |-> FALSE]
    <3>1. store'[FinalName] = [Absent EXCEPT !.there = TRUE]
      BY <1>t, <1>15, <2>1 DEF MakeLocation, StoreTypeOK
    <3> QED
      BY <3>1 DEF Absent
  <2>4. /\ loc' = FinalName /\ pc' = "rename"
        /\ UNCHANGED <<row, touched, execs>>
    BY <1>15 DEF MakeLocation, dbVars, auxVars
  <2>5. store'[FinalName].manifest = NoFile
    BY <2>3
  <2> QED
    BY <1>0, <2>1, <2>2, <2>4, <2>5 DEF ManifestsTrue
<1>16. CASE RenameArchive
  <2>1. loc \in Dirs /\ loc # NoDir /\ pc \in AtLocation /\ touched' = touched
    BY <1>0, <1>t, <1>16
    DEF RenameArchive, JobTyped, AtLocation, EngineLocals, auxVars
  <2>2. \A d \in Dirs : d # loc => store'[d] = store[d]
    BY <1>16, <2>1 DEF RenameArchive
  <2>3. store'[loc].manifest = NoFile
    BY <1>0, <1>16, <2>1 DEF RenameArchive, FreshLocation, DirStates
  <2> QED
    BY <1>0, <2>1, <2>2, <2>3 DEF ManifestsTrue
<1>17. CASE RenameFails
  BY <1>0, <1>17 DEF RenameFails, ManifestsTrue, dbVars, localVars
<1>18. CASE OpenManifest
  <2>1. loc \in Dirs /\ loc # NoDir /\ pc \in AtLocation /\ touched' = touched
    BY <1>0, <1>t, <1>18
    DEF OpenManifest, JobTyped, AtLocation, EngineLocals, auxVars
  <2>2. \A d \in Dirs : d # loc => store'[d] = store[d]
    BY <1>18, <2>1 DEF OpenManifest
  <2>3. store'[loc].manifest = store[loc].manifest /\
          store'[loc].zip = store[loc].zip
    BY <1>18, <2>1 DEF OpenManifest, DirStates
  <2> QED
    BY <1>0, <2>1, <2>2, <2>3 DEF ManifestsTrue
<1>19. CASE RenameManifest
  <2>1. loc \in Dirs /\ loc # NoDir /\ pc \in AtLocation /\ touched' = touched
    BY <1>0, <1>t, <1>19
    DEF RenameManifest, JobTyped, AtLocation, EngineLocals, auxVars
  <2>2. \A d \in Dirs : d # loc => store'[d] = store[d]
    BY <1>t, <1>19, <2>1 DEF RenameManifest, StoreTypeOK
  <2>3. store'[loc].manifest = execs /\ store'[loc].zip = store[loc].zip
    BY <1>t, <1>19, <2>1 DEF RenameManifest, StoreTypeOK, DirStates
  <2>4. loc \notin touched => store[loc].zip = execs
    BY <1>0, <1>19 DEF RenameManifest, LocationState, Contents, AtLocation
  <2> QED
    BY <1>0, <2>1, <2>2, <2>3, <2>4 DEF ManifestsTrue
<1>20. CASE VerifyCommitted
  BY <1>0, <1>20
  DEF VerifyCommitted, QuickVerify, ManifestsTrue, dbVars, localVars, auxVars
<1>21. CASE CommitSnapshot
  BY <1>0, <1>21 DEF CommitSnapshot, ManifestsTrue, dbVars, localVars, auxVars
<1>22. CASE StepFails
  BY <1>0, <1>22
  DEF StepFails, Deferred, ManifestsTrue, dbVars, localVars, auxVars
<1>23. CASE CleanLocation
  <2>1. loc \in Dirs /\ loc # NoDir /\ pc \in AtLocation /\ touched' = touched
    BY <1>0, <1>t, <1>23
    DEF CleanLocation, JobTyped, AtLocation, EngineLocals, auxVars
  <2>2. \A d \in Dirs : d # loc => store'[d] = store[d]
    BY <1>23, <2>1 DEF CleanLocation
  <2>3. store'[loc].manifest = NoFile
    BY <1>t, <1>23, <2>1 DEF CleanLocation, StoreTypeOK, Absent
  <2> QED
    BY <1>0, <2>1, <2>2, <2>3 DEF ManifestsTrue
<1>24. CASE CleanLocationFails
  <2>1. loc \in Dirs /\ loc # NoDir /\ pc \in AtLocation /\ touched' = touched
    BY <1>0, <1>t, <1>24
    DEF CleanLocationFails, JobTyped, AtLocation, EngineLocals
  <2>2. \A d \in Dirs : d # loc => store'[d] = store[d]
    BY <1>24, <2>1 DEF CleanLocationFails
  <2>3. /\ store'[loc].zip \in {NoFile, store[loc].zip}
        /\ store'[loc].manifest \in {NoFile, store[loc].manifest}
    BY <1>24, <2>1 DEF CleanLocationFails
  <2> QED
    BY <1>0, <2>1, <2>2, <2>3 DEF ManifestsTrue
<1>25. CASE CleanCache
  BY <1>0, <1>25 DEF CleanCache, ManifestsTrue, dbVars, localVars, auxVars
<1>26. CASE CleanPartial
  BY <1>0, <1>26 DEF CleanPartial, ManifestsTrue, dbVars, localVars
<1>27. CASE CleanPartialFails
  BY <1>0, <1>27 DEF CleanPartialFails, ManifestsTrue, dbVars, localVars
<1>28. CASE FailBackupJob
  BY <1>0, <1>28 DEF FailBackupJob, ManifestsTrue, dbVars, localVars, auxVars
<1>29. CASE Crash
  BY <1>0, <1>29 DEF Crash, ManifestsTrue, dbVars, localVars
<1>30. CASE \E d \in Dirs : UserTouches(d)
  <2>1. PICK d \in Dirs : UserTouches(d)
    BY <1>30
  <2>2. \A e \in Dirs : e # d => store'[e] = store[e]
    BY <2>1 DEF UserTouches
  <2>3. /\ d \in touched' /\ touched \subseteq touched'
        /\ UNCHANGED <<row, pc, loc, execs>>
    BY <2>1 DEF UserTouches, dbVars
  <2> QED
    BY <1>0, <2>2, <2>3 DEF ManifestsTrue
<1>31. CASE UNCHANGED storeVars
  BY <1>0, <1>31 DEF storeVars, ManifestsTrue, dbVars, localVars, auxVars
<1> QED
  BY <1>1, <1>2, <1>3, <1>4, <1>5, <1>6, <1>7, <1>8, <1>9, <1>10, <1>11, <1>12,
     <1>13, <1>14, <1>15, <1>16,
     <1>17, <1>18, <1>19, <1>20, <1>21, <1>22, <1>23, <1>24, <1>25, <1>26,
         <1>27, <1>28, <1>29, <1>30, <1>31
  DEF StoreNext, QueueStep, EngineStep

(* Every step fills the location in the order of CommitArchive,            *)
(* WriteManifest and CommitSnapshot.                                       *)
LEMMA LocationStep ==
  StoreInv /\ [StoreNext]_storeVars => LocationState'
<1> SUFFICES ASSUME StoreInv, [StoreNext]_storeVars
             PROVE  LocationState'
  OBVIOUS
<1>0. EngineLocals /\ PartialState /\ LocationState
  BY DEF StoreInv
<1>t. JobTyped /\ StoreTypeOK
  BY TypedLocals DEF StoreInv
<1>1. CASE \E j \in Jobs : CreateBackupJob(j)
  BY <1>0, <1>1
  DEF CreateBackupJob, SetQueued, Open, LocationState, Contents, dbVars,
      localVars, auxVars
<1>2. CASE \E j \in Jobs : RequeueJob(j)
  BY <1>0, <1>2
  DEF RequeueJob, SetQueued, Open, LocationState, Contents, dbVars, localVars,
      auxVars
<1>3. CASE \E j \in Jobs : RetryJob(j)
  BY <1>0, <1>3
  DEF RetryJob, SetQueued, Open, LocationState, Contents, dbVars, localVars,
      auxVars
<1>4. CASE \E j \in Jobs : CancelJob(j)
  BY <1>0, <1>4
  DEF CancelJob, Open, LocationState, Contents, dbVars, localVars, auxVars
<1>5. CASE \E j \in Jobs : StartBackupJob(j)
  <2>1. loc' = NoDir /\ pc' \notin AtLocation
    BY <1>0, <1>5 DEF StartBackupJob, AtLocation, EngineLocals
  <2> QED
    BY <2>1 DEF LocationState
<1>6. CASE CreatePartial
  BY <1>0, <1>6
  DEF CreatePartial, LocationState, Contents, AtLocation, dbVars, localVars,
      auxVars
<1>7. CASE MakeCache
  BY <1>0, <1>7
  DEF MakeCache, LocationState, Contents, AtLocation, dbVars, localVars
<1>8. CASE CreateArchive
  BY <1>0, <1>8
  DEF CreateArchive, LocationState, Contents, AtLocation, dbVars, localVars,
      auxVars
<1>9. CASE OpenIndex
  BY <1>0, <1>9
  DEF OpenIndex, LocationState, Contents, AtLocation, dbVars, localVars, auxVars
<1>10. CASE WriteArchive
  BY <1>0, <1>10
  DEF WriteArchive, LocationState, Contents, AtLocation, dbVars, localVars,
      auxVars
<1>11. CASE SourceChanged
  BY <1>0, <1>11
  DEF SourceChanged, LocationState, Contents, AtLocation, dbVars, localVars,
      auxVars
<1>12. CASE WriteFails
  BY <1>0, <1>12
  DEF WriteFails, LocationState, Contents, AtLocation, dbVars, localVars,
      auxVars
<1>13. CASE DiscardArchive
  BY <1>0, <1>13
  DEF DiscardArchive, LocationState, Contents, AtLocation, dbVars, localVars,
      auxVars
<1>14. CASE SealArchive
  BY <1>0, <1>14
  DEF SealArchive, LocationState, Contents, AtLocation, dbVars, localVars,
      auxVars
<1>15. CASE MakeLocation
  <2>1. /\ FinalName \in Dirs /\ store[FinalName] = Absent
        /\ \A j \in Jobs : row[j].dir = FinalName => FinalName \in touched
    BY <1>15, FreshName DEF MakeLocation
  <2>2. \A d \in Dirs : d # FinalName => store'[d] = store[d]
    BY <1>15, <2>1 DEF MakeLocation
  <2>3. store'[FinalName] =
          [there |-> TRUE, zip |-> NoFile, manifest |-> NoFile, tmp |-> FALSE]
    <3>1. store'[FinalName] = [Absent EXCEPT !.there = TRUE]
      BY <1>t, <1>15, <2>1 DEF MakeLocation, StoreTypeOK
    <3> QED
      BY <3>1 DEF Absent
  <2>4. /\ loc' = FinalName /\ pc' = "rename"
        /\ UNCHANGED <<row, touched, execs>>
    BY <1>15 DEF MakeLocation, dbVars, auxVars
  <2>5. /\ store'[loc'].there /\ store'[loc'].zip = NoFile
        /\ store'[loc'].manifest = NoFile /\ ~store'[loc'].tmp
    BY <2>3, <2>4
  <2>6. \A j \in Jobs : row'[j].dir = loc' => loc' \in touched'
    BY <2>1, <2>4
  <2> QED
    BY <2>4, <2>5, <2>6 DEF LocationState, Contents
<1>16. CASE RenameArchive
  <2>1. /\ loc \in Dirs /\ loc # NoDir /\ pc \in AtLocation
        /\ UNCHANGED <<loc, row, touched, execs>>
    BY <1>0, <1>t, <1>16
    DEF RenameArchive, JobTyped, AtLocation, EngineLocals, auxVars, dbVars
  <2>2. \A j \in Jobs : row'[j].dir = loc' => loc' \in touched'
    BY <1>0, <2>1 DEF LocationState
  <2>3. store'[loc].zip \in {NoFile, Torn, execs}
    <3>1. partial[job].zip = execs
      BY <1>0, <1>16 DEF RenameArchive, PartialState
    <3> QED
      BY <1>t, <1>16, <2>1, <3>1 DEF RenameArchive, StoreTypeOK, DirStates
  <2>4. loc \notin touched => Contents(loc, execs, NoFile, FALSE)'
    <3>1. loc \notin touched => Contents(loc, NoFile, NoFile, FALSE)
      BY <1>0, <1>16 DEF RenameArchive, LocationState, AtLocation, Contents
    <3>2. store'[loc] = [store[loc] EXCEPT !.zip = execs]
      BY <1>0, <1>t, <1>16, <2>1 DEF RenameArchive, StoreTypeOK, PartialState
    <3>3. store[loc] \in DirStates
      BY <1>t, <2>1 DEF StoreTypeOK
    <3> QED
      BY <2>1, <3>1, <3>2, <3>3 DEF Contents, DirStates
  <2>5. pc' = "manifest"
    BY <1>16 DEF RenameArchive
  <2> QED
    BY <2>1, <2>2, <2>3, <2>4, <2>5 DEF LocationState, Contents
<1>17. CASE RenameFails
  <2>1. loc' = NoDir /\ pc' \notin AtLocation
    BY <1>17 DEF RenameFails, AtLocation
  <2> QED
    BY <2>1 DEF LocationState
<1>18. CASE OpenManifest
  <2>1. /\ loc \in Dirs /\ loc # NoDir /\ pc \in AtLocation
        /\ UNCHANGED <<loc, row, touched, execs>>
    BY <1>0, <1>t, <1>18
    DEF OpenManifest, JobTyped, AtLocation, EngineLocals, auxVars, dbVars
  <2>2. \A j \in Jobs : row'[j].dir = loc' => loc' \in touched'
    BY <1>0, <2>1 DEF LocationState
  <2>3. store'[loc].zip \in {NoFile, Torn, execs}
    BY <1>0, <1>18, <2>1 DEF OpenManifest, LocationState, DirStates
  <2>4. loc \notin touched => Contents(loc, execs, NoFile, TRUE)'
    <3>1. loc \notin touched => Contents(loc, execs, NoFile, FALSE)
      BY <1>0, <1>18 DEF OpenManifest, LocationState, AtLocation, Contents
    <3>2. store'[loc] = [store[loc] EXCEPT !.tmp = TRUE]
      BY <1>t, <1>18, <2>1 DEF OpenManifest, StoreTypeOK
    <3>3. store[loc] \in DirStates
      BY <1>t, <2>1 DEF StoreTypeOK
    <3> QED
      BY <2>1, <3>1, <3>2, <3>3 DEF Contents, DirStates
  <2>5. pc' = "publish"
    BY <1>18 DEF OpenManifest
  <2> QED
    BY <2>1, <2>2, <2>3, <2>4, <2>5 DEF LocationState, Contents
<1>19. CASE RenameManifest
  <2>1. /\ loc \in Dirs /\ loc # NoDir /\ pc \in AtLocation
        /\ UNCHANGED <<loc, row, touched, execs>>
    BY <1>0, <1>t, <1>19
    DEF RenameManifest, JobTyped, AtLocation, EngineLocals, auxVars, dbVars
  <2>2. \A j \in Jobs : row'[j].dir = loc' => loc' \in touched'
    BY <1>0, <2>1 DEF LocationState
  <2>3. store'[loc].zip \in {NoFile, Torn, execs}
    BY <1>0, <1>t, <1>19, <2>1
    DEF RenameManifest, LocationState, StoreTypeOK, DirStates
  <2>4. loc \notin touched => Contents(loc, execs, execs, FALSE)'
    <3>1. loc \notin touched => Contents(loc, execs, NoFile, TRUE)
      BY <1>0, <1>19 DEF RenameManifest, LocationState, AtLocation, Contents
    <3>2. store'[loc] = [[store[loc] EXCEPT !.tmp = FALSE] EXCEPT !.manifest =
            execs]
      BY <1>t, <1>19, <2>1 DEF RenameManifest, StoreTypeOK
    <3>3. store[loc] \in DirStates
      BY <1>t, <2>1 DEF StoreTypeOK
    <3> QED
      BY <2>1, <3>1, <3>2, <3>3 DEF Contents, DirStates
  <2>5. pc' = "verify"
    BY <1>19 DEF RenameManifest
  <2> QED
    BY <2>1, <2>2, <2>3, <2>4, <2>5 DEF LocationState, Contents
<1>20. CASE VerifyCommitted
  <2>1. UNCHANGED <<loc, row, touched, execs, store>>
    BY <1>20 DEF VerifyCommitted, auxVars, dbVars
  <2>2. pc = "verify" /\ pc' \in {"row", "cleanLocation"}
    BY <1>20 DEF VerifyCommitted
  <2>3. loc' # NoDir => store'[loc'].zip \in {NoFile, Torn, execs'}
    BY <1>0, <2>1 DEF LocationState
  <2>4. loc' # NoDir => \A j \in Jobs : row'[j].dir = loc' => loc' \in touched'
    BY <1>0, <2>1 DEF LocationState
  <2>5. loc \notin touched => Contents(loc, execs, execs, FALSE)'
    BY <1>0, <2>1, <2>2 DEF LocationState, AtLocation, Contents
  <2> QED
    BY <2>1, <2>2, <2>3, <2>4, <2>5 DEF LocationState, Contents
<1>21. CASE CommitSnapshot
  <2>1. loc' = NoDir /\ pc' \notin AtLocation
    BY <1>21 DEF CommitSnapshot, AtLocation
  <2> QED
    BY <2>1 DEF LocationState
<1>22. CASE StepFails
  BY <1>0, <1>22
  DEF StepFails, Deferred, LocationState, Contents, AtLocation, dbVars,
      localVars, auxVars
<1>23. CASE CleanLocation
  <2>1. loc' = NoDir /\ pc' \notin AtLocation
    BY <1>23 DEF CleanLocation, AtLocation
  <2> QED
    BY <2>1 DEF LocationState
<1>24. CASE CleanLocationFails
  <2>1. loc' = NoDir /\ pc' \notin AtLocation
    BY <1>24 DEF CleanLocationFails, AtLocation
  <2> QED
    BY <2>1 DEF LocationState
<1>25. CASE CleanCache
  BY <1>0, <1>25
  DEF CleanCache, LocationState, Contents, AtLocation, dbVars, localVars,
      auxVars
<1>26. CASE CleanPartial
  BY <1>0, <1>26
  DEF CleanPartial, LocationState, Contents, AtLocation, dbVars, localVars
<1>27. CASE CleanPartialFails
  BY <1>0, <1>27
  DEF CleanPartialFails, LocationState, Contents, AtLocation, dbVars, localVars
<1>28. CASE FailBackupJob
  BY <1>0, <1>28
  DEF FailBackupJob, LocationState, Contents, AtLocation, dbVars, localVars,
      auxVars
<1>29. CASE Crash
  <2>1. loc' = NoDir /\ pc' \notin AtLocation
    BY <1>29 DEF Crash, AtLocation
  <2> QED
    BY <2>1 DEF LocationState
<1>30. CASE \E d \in Dirs : UserTouches(d)
  <2>1. PICK d \in Dirs : UserTouches(d)
    BY <1>30
  <2>2. \A e \in Dirs : e # d => store'[e] = store[e]
    BY <2>1 DEF UserTouches
  <2>3. /\ d \in touched' /\ touched \subseteq touched'
        /\ UNCHANGED <<row, pc, loc, execs>>
    BY <2>1 DEF UserTouches, dbVars
  <2>4. loc # NoDir => loc \in Dirs
    BY <1>t DEF JobTyped
  <2>5. loc # NoDir => store'[loc].zip \in {NoFile, Torn, execs}
    <3>1. CASE d # loc
      BY <1>0, <2>2, <2>4, <3>1 DEF LocationState
    <3>2. CASE d = loc
      <4>1. store'[d].zip \in {NoFile, Torn, store[d].zip}
        BY <1>t, <2>1 DEF UserTouches, StoreTypeOK, DirStates, Absent
      <4> QED
        BY <1>0, <3>2, <4>1 DEF LocationState
    <3> QED
      BY <3>1, <3>2
  <2>6. loc # NoDir => \A j \in Jobs : row[j].dir = loc => loc \in touched'
    BY <1>0, <2>3 DEF LocationState
  <2>7. pc \in AtLocation /\ loc \notin touched' => store'[loc] = store[loc]
    BY <1>t, <2>2, <2>3 DEF JobTyped
  <2> QED
    BY <1>0, <2>3, <2>5, <2>6, <2>7 DEF LocationState, Contents
<1>31. CASE UNCHANGED storeVars
  BY <1>0, <1>31
  DEF storeVars, LocationState, Contents, dbVars, localVars, auxVars
<1> QED
  BY <1>1, <1>2, <1>3, <1>4, <1>5, <1>6, <1>7, <1>8, <1>9, <1>10, <1>11, <1>12,
     <1>13, <1>14, <1>15, <1>16,
     <1>17, <1>18, <1>19, <1>20, <1>21, <1>22, <1>23, <1>24, <1>25, <1>26,
         <1>27, <1>28, <1>29, <1>30, <1>31
  DEF StoreNext, QueueStep, EngineStep

(* Every step of the store keeps the invariant. *)
LEMMA StoreStep ==
  StoreInv /\ [StoreNext]_storeVars => StoreInv'
  BY TypeStep, LocalsStep, JobRowsStep, NamesStep, PartialStep, LocationStep,
     SnapshotsStep, FreshStep, ManifestsStep, IndexStep, LeftoversStep
  DEF StoreInv

(* The empty store satisfies the invariant. *)
LEMMA StoreStart ==
  Init => StoreInv
<1> SUFFICES ASSUME Init
             PROVE  StoreInv
  OBVIOUS
<1>1. \A d \in Dirs : store[d] = Absent
  BY DEF Init
<1>2. \A j \in Jobs : /\ row[j] = NoRow /\ partial[j] = NoPartial
                      /\ cache[j] = "ABSENT" /\ jobStatus[j] = "NONE"
  BY DEF Init
<1>3. StoreTypeOK
  BY StoreAssumption
  DEF Init, StoreTypeOK, Statuses, Steps, RowStates, NoRow, PartialStates,
      NoPartial, DirStates, Absent, Files, NoFile
<1>4. EngineLocals /\ LocationState /\ FreshLocation /\ PartialState
  BY DEF Init, EngineLocals, LocationState, FreshLocation, PartialState,
         AtLocation, BeforeLocation
<1>5. JobRows /\ SnapshotsComplete
  BY <1>2
  DEF Init, JobRows, SnapshotsComplete, HasRow, BeforeCommit, AtLocation,
              BeforeLocation
<1>6. NamesUsed
  BY <1>1 DEF NamesUsed, Dirs
<1>7. ManifestsTrue
  BY <1>1 DEF ManifestsTrue, Absent
<1>8. IndexHasArchive /\ LeftoversExplained
  BY <1>2 DEF Init, IndexHasArchive, LeftoversExplained
<1> QED
  BY <1>3, <1>4, <1>5, <1>6, <1>7, <1>8 DEF StoreInv

(* The inductive invariant holds in every reachable state: what each step  *)
(* of execute may find and leave on disk, whatever crashes, fails or is    *)
(* changed by the user.                                                    *)
THEOREM StoreCorrect ==
  StoreSpec => []StoreInv
  BY StoreStart, StoreStep, PTL DEF StoreSpec

(* Rows, files and the locals of ExecuteJob are well typed in every        *)
(* reachable state.                                                        *)
THEOREM StoreTypeCorrect ==
  StoreSpec => []StoreTypeOK
<1>1. StoreInv => StoreTypeOK
  BY DEF StoreInv
<1> QED
  BY <1>1, StoreCorrect, PTL

(* A row written by CommitSnapshot names a complete archive with its       *)
(* manifest as long as the user leaves the directory alone.                *)
THEOREM SnapshotsStayComplete ==
  StoreSpec => []SnapshotsComplete
<1>1. StoreInv => SnapshotsComplete
  BY DEF StoreInv
<1> QED
  BY <1>1, StoreCorrect, PTL

(* CommitArchive only moves an archive into an empty directory that no     *)
(* untouched snapshot owns.                                                *)
THEOREM LocationsFresh ==
  StoreSpec => []FreshLocation
<1>1. StoreInv => FreshLocation
  BY DEF StoreInv
<1> QED
  BY <1>1, StoreCorrect, PTL

(* WriteManifest never leaves a manifest beside another archive than its   *)
(* own, in orphaned directories neither.                                   *)
THEOREM ManifestsAreTrue ==
  StoreSpec => []ManifestsTrue
<1>1. StoreInv => ManifestsTrue
  BY DEF StoreInv
<1> QED
  BY <1>1, StoreCorrect, PTL

(* No execution meets a file index of an earlier one when it opens its own *)
(* (writeArchive).                                                         *)
THEOREM IndexesHaveArchives ==
  StoreSpec => []IndexHasArchive
<1>1. StoreInv => IndexHasArchive
  BY DEF StoreInv
<1> QED
  BY <1>1, StoreCorrect, PTL

(* What an execution finds of an earlier one (CreatePartial,               *)
(* CreateArchive) was left by a crash or a failed removal.                 *)
THEOREM LeftoversAreExplained ==
  StoreSpec => []LeftoversExplained
<1>1. StoreInv => LeftoversExplained
  BY DEF StoreInv
<1> QED
  BY <1>1, StoreCorrect, PTL

--------------------------------------------------------------------------------
(* SnapshotStore implements SnapshotPromise. *)

(* The library looks the same if the rows are the same and QuickVerify     *)
(* gives the same answers.                                                 *)
LEMMA SameLibrary ==
  ASSUME row' = row, \A j \in Jobs : HasRow(j) => (Verified(j)' <=> Verified(j))
  PROVE  Library' = Library
<1>1. \A j \in Jobs : Shown(j)' = Shown(j)
  BY DEF Shown, HasRow
<1> QED
  BY <1>1 DEF Library

(* What an execution does in its own directory changes nothing in the      *)
(* library: a row that also names the directory asks for an older digest,  *)
(* so QuickVerify rejects it before and after.                             *)
LEMMA LibraryKept ==
  ASSUME StoreInv, pc \in BeforeCommit, row' = row, NEW D \in Dirs,
         \A d \in Dirs : d # D => store'[d] = store[d],
         store[D].zip \in {NoFile, Torn, execs},
         store'[D].zip \in {NoFile, Torn, execs}
  PROVE  Library' = Library
<1> SUFFICES ASSUME NEW j \in Jobs, HasRow(j)
             PROVE  Verified(j)' <=> Verified(j)
  BY SameLibrary
<1>1. /\ row[j].dir \in Dirs
      /\ row[j].digest \in 1 .. execs /\ row[j].digest < execs /\ execs \in Nat
  BY DEF StoreInv, StoreTypeOK, JobRows, Dirs
<1>2. CASE row[j].dir = D
  <2>1. row[j].digest \notin {NoFile, Torn, execs}
    BY <1>1 DEF NoFile, Torn
  <2> QED
    BY <1>2, <2>1 DEF Verified, QuickVerify
<1>3. CASE row[j].dir # D
  BY <1>1, <1>3 DEF Verified, QuickVerify
<1> QED
  BY <1>2, <1>3

(* CommitSnapshot publishes a snapshot, complete unless the user was at    *)
(* work.                                                                   *)
LEMMA CommitPublishes ==
  ASSUME StoreInv, CommitSnapshot
  PROVE  Promise!Next
<1>1. /\ job \in Jobs /\ loc \in Dirs /\ pc = "row"
      /\ UNCHANGED <<store, touches>>
      /\ row' = [row EXCEPT ![job] = [dir |-> loc, digest |-> execs,
                                      verification |-> "VERIFIED"]]
  BY TypedLocals DEF CommitSnapshot, JobTyped, AtLocation, auxVars
<1>2. PICK i \in Jobs : i = job
  BY <1>1
<1>3. /\ row'[i].dir = loc /\ row'[i].digest = execs
      /\ \A j \in Jobs : j # i => row'[j] = row[j]
  BY <1>1, <1>2 DEF StoreInv, StoreTypeOK
<1>4. ~HasRow(i)
  BY <1>1, <1>2 DEF CommitSnapshot, StoreInv, JobRows
<1>5. HasRow(i)'
  BY <1>1, <1>3, StoreAssumption DEF HasRow, NoRow
<1>6. Library[i] = "ABSENT"
  BY <1>4 DEF Library, Shown
<1>7. Shown(i)' = "SPOILED" => touches > 0
  <2>1. CASE loc \in touched
    BY <2>1 DEF StoreInv, EngineLocals
  <2>2. CASE loc \notin touched
    <3>1. Contents(loc, execs, execs, FALSE)
      BY <1>1, <2>2 DEF StoreInv, LocationState, AtLocation, Contents
    <3>2. execs # NoFile
      BY <1>1 DEF StoreInv, EngineLocals, NoFile
    <3>3. Verified(i)'
      BY <1>1, <1>3, <3>1, <3>2 DEF Verified, QuickVerify, Contents
    <3> QED
      BY <1>5, <3>3 DEF Shown
  <2> QED
    BY <2>1, <2>2
<1>8. PICK how \in {"COMPLETE", "SPOILED"} : how = Shown(i)'
  BY <1>5 DEF Shown
<1>9. \A j \in Jobs : j # i => Shown(j)' = Shown(j)
  BY <1>1, <1>3 DEF Shown, HasRow, Verified, QuickVerify
<1>10. Library' = [Library EXCEPT ![i] = how]
  BY <1>8, <1>9 DEF Library
<1>11. Promise!Publish(i)
  BY <1>1, <1>6, <1>7, <1>8, <1>10 DEF Promise!Publish
<1> QED
  BY <1>11 DEF Promise!Next

(* A change the user makes can only spoil snapshots. *)
LEMMA TouchIsUserAct ==
  ASSUME StoreInv, NEW d \in Dirs, UserTouches(d)
  PROVE  Promise!Next
<1>1. row' = row /\ touches' = touches + 1
  BY DEF UserTouches, dbVars
<1>2. \A e \in Dirs : e # d => store'[e] = store[e]
  BY DEF UserTouches, StoreInv, StoreTypeOK
<1>3. ~store'[d].there \/ store'[d].manifest =
        NoFile \/ store'[d].zip \in {NoFile, Torn}
  BY DEF UserTouches, StoreInv, StoreTypeOK, DirStates, Absent
<1>4. ASSUME NEW j \in Jobs, HasRow(j), Verified(j)'
      PROVE  Verified(j)
  <2>1. /\ row[j].dir \in Dirs /\ row[j].digest \in 1 .. execs /\ execs \in Nat
    BY <1>4 DEF StoreInv, StoreTypeOK, JobRows, Dirs
  <2>2. row[j].digest \notin {NoFile, Torn}
    BY <2>1 DEF NoFile, Torn
  <2>3. row[j].dir # d
    BY <1>1, <1>3, <1>4, <2>2 DEF Verified, QuickVerify
  <2> QED
    BY <1>1, <1>2, <1>4, <2>1, <2>3 DEF Verified, QuickVerify
<1>5. ASSUME NEW j \in Jobs
      PROVE  \/ Shown(j)' = Shown(j)
             \/ Shown(j) = "COMPLETE" /\ Shown(j)' = "SPOILED"
  BY <1>1, <1>4 DEF Shown, HasRow
<1>6. PICK spoiled \in SUBSET {j \in Jobs : Library[j] = "COMPLETE"} :
         spoiled = {j \in Jobs : Library[j] = "COMPLETE" /\
             Shown(j)' = "SPOILED"}
  OBVIOUS
<1>7. \A j \in Jobs :
        Shown(j)' = IF j \in spoiled THEN "SPOILED" ELSE Library[j]
  BY <1>5, <1>6 DEF Library
<1>8. Library' = [j \in Jobs |-> IF j \in spoiled THEN "SPOILED" ELSE Library[j]]
  BY <1>7 DEF Library
<1>9. Promise!UserActs
  BY <1>1, <1>8 DEF Promise!UserActs
<1> QED
  BY <1>9 DEF Promise!Next

(* A step that leaves rows, final directories and the user's changes alone *)
(* is a stutter of SnapshotPromise.                                        *)
LEMMA SameStore ==
  ASSUME UNCHANGED <<row, store, touches>>
  PROVE  [Promise!Next]_<<Library, touches>>
<1>1. Library' = Library
  BY SameLibrary DEF Verified, QuickVerify
<1> QED
  BY <1>1

(* Every step of the store is a step or a stutter of SnapshotPromise. *)
LEMMA PromiseStep ==
  StoreInv /\ [StoreNext]_storeVars => [Promise!Next]_<<Library, touches>>
<1> SUFFICES ASSUME StoreInv, [StoreNext]_storeVars
             PROVE  [Promise!Next]_<<Library, touches>>
  OBVIOUS
<1>0. EngineLocals /\ LocationState
  BY DEF StoreInv
<1>t. JobTyped /\ StoreTypeOK
  BY TypedLocals DEF StoreInv
<1>1. CASE \E j \in Jobs : CreateBackupJob(j)
  <2>1. UNCHANGED <<row, store, touches>>
    BY <1>1 DEF CreateBackupJob, SetQueued, dbVars, localVars, auxVars
  <2> QED
    BY <2>1, SameStore
<1>2. CASE \E j \in Jobs : RequeueJob(j)
  <2>1. UNCHANGED <<row, store, touches>>
    BY <1>2 DEF RequeueJob, SetQueued, dbVars, localVars, auxVars
  <2> QED
    BY <2>1, SameStore
<1>3. CASE \E j \in Jobs : RetryJob(j)
  <2>1. UNCHANGED <<row, store, touches>>
    BY <1>3 DEF RetryJob, SetQueued, dbVars, localVars, auxVars
  <2> QED
    BY <2>1, SameStore
<1>4. CASE \E j \in Jobs : CancelJob(j)
  <2>1. UNCHANGED <<row, store, touches>>
    BY <1>4 DEF CancelJob, dbVars, localVars, auxVars
  <2> QED
    BY <2>1, SameStore
<1>5. CASE \E j \in Jobs : StartBackupJob(j)
  <2>1. UNCHANGED <<row, store, touches>>
    BY <1>5 DEF StartBackupJob, dbVars, localVars
  <2> QED
    BY <2>1, SameStore
<1>6. CASE CreatePartial
  <2>1. UNCHANGED <<row, store, touches>>
    BY <1>6 DEF CreatePartial, dbVars, localVars, auxVars
  <2> QED
    BY <2>1, SameStore
<1>7. CASE MakeCache
  <2>1. UNCHANGED <<row, store, touches>>
    BY <1>7 DEF MakeCache, dbVars, localVars
  <2> QED
    BY <2>1, SameStore
<1>8. CASE CreateArchive
  <2>1. UNCHANGED <<row, store, touches>>
    BY <1>8 DEF CreateArchive, dbVars, localVars, auxVars
  <2> QED
    BY <2>1, SameStore
<1>9. CASE OpenIndex
  <2>1. UNCHANGED <<row, store, touches>>
    BY <1>9 DEF OpenIndex, dbVars, localVars, auxVars
  <2> QED
    BY <2>1, SameStore
<1>10. CASE WriteArchive
  <2>1. UNCHANGED <<row, store, touches>>
    BY <1>10 DEF WriteArchive, dbVars, localVars, auxVars
  <2> QED
    BY <2>1, SameStore
<1>11. CASE SourceChanged
  <2>1. UNCHANGED <<row, store, touches>>
    BY <1>11 DEF SourceChanged, dbVars, localVars, auxVars
  <2> QED
    BY <2>1, SameStore
<1>12. CASE WriteFails
  <2>1. UNCHANGED <<row, store, touches>>
    BY <1>12 DEF WriteFails, dbVars, localVars, auxVars
  <2> QED
    BY <2>1, SameStore
<1>13. CASE DiscardArchive
  <2>1. UNCHANGED <<row, store, touches>>
    BY <1>13 DEF DiscardArchive, dbVars, localVars, auxVars
  <2> QED
    BY <2>1, SameStore
<1>14. CASE SealArchive
  <2>1. UNCHANGED <<row, store, touches>>
    BY <1>14 DEF SealArchive, dbVars, localVars, auxVars
  <2> QED
    BY <2>1, SameStore
<1>15. CASE MakeLocation
  <2>1. FinalName \in Dirs /\ store[FinalName] = Absent
    BY <1>15, FreshName DEF MakeLocation
  <2>2. PICK D \in Dirs : D = FinalName
    BY <2>1
  <2>3. \A d \in Dirs : d # D => store'[d] = store[d]
    BY <1>15, <2>2 DEF MakeLocation
  <2>4. store[D].zip = NoFile /\ store'[D].zip = NoFile
    BY <1>15, <2>1, <2>2 DEF MakeLocation, DirStates, Absent
  <2>5. pc \in BeforeCommit /\ UNCHANGED <<row, touches>>
    BY <1>15
    DEF MakeLocation, BeforeCommit, BeforeLocation, dbVars, localVars, auxVars
  <2>6. Library' = Library
    BY <2>3, <2>4, <2>5, LibraryKept
  <2> QED
    BY <2>5, <2>6
<1>16. CASE RenameArchive
  <2>1. /\ loc \in Dirs /\ loc # NoDir /\ pc \in BeforeCommit
        /\ UNCHANGED <<row, touches>>
    BY <1>0, <1>t, <1>16
    DEF RenameArchive, JobTyped, AtLocation, BeforeCommit, EngineLocals, dbVars,
        localVars, auxVars
  <2>2. PICK D \in Dirs : D = loc
    BY <2>1
  <2>3. \A d \in Dirs : d # D => store'[d] = store[d]
    BY <1>16, <2>2 DEF RenameArchive
  <2>4. store[D].zip \in {NoFile, Torn, execs}
    BY <1>0, <2>1, <2>2 DEF LocationState
  <2>5. store'[D].zip \in {NoFile, Torn, execs}
    <3>1. LocationState' /\ loc' = D /\ execs' = execs
      BY <1>16, <2>2, LocationStep DEF RenameArchive, auxVars
    <3> QED
      BY <2>1, <2>2, <3>1 DEF LocationState
  <2>6. Library' = Library
    BY <2>1, <2>3, <2>4, <2>5, LibraryKept
  <2> QED
    BY <2>1, <2>6
<1>17. CASE RenameFails
  <2>1. UNCHANGED <<row, store, touches>>
    BY <1>17 DEF RenameFails, dbVars, localVars
  <2> QED
    BY <2>1, SameStore
<1>18. CASE OpenManifest
  <2>1. /\ loc \in Dirs /\ loc # NoDir /\ pc \in BeforeCommit
        /\ UNCHANGED <<row, touches>>
    BY <1>0, <1>t, <1>18
    DEF OpenManifest, JobTyped, AtLocation, BeforeCommit, EngineLocals, dbVars,
        localVars, auxVars
  <2>2. PICK D \in Dirs : D = loc
    BY <2>1
  <2>3. \A d \in Dirs : d # D => store'[d] = store[d]
    BY <1>18, <2>2 DEF OpenManifest
  <2>4. store[D].zip \in {NoFile, Torn, execs}
    BY <1>0, <2>1, <2>2 DEF LocationState
  <2>5. store'[D].zip \in {NoFile, Torn, execs}
    <3>1. LocationState' /\ loc' = D /\ execs' = execs
      BY <1>18, <2>2, LocationStep DEF OpenManifest, auxVars
    <3> QED
      BY <2>1, <2>2, <3>1 DEF LocationState
  <2>6. Library' = Library
    BY <2>1, <2>3, <2>4, <2>5, LibraryKept
  <2> QED
    BY <2>1, <2>6
<1>19. CASE RenameManifest
  <2>1. /\ loc \in Dirs /\ loc # NoDir /\ pc \in BeforeCommit
        /\ UNCHANGED <<row, touches>>
    BY <1>0, <1>t, <1>19
    DEF RenameManifest, JobTyped, AtLocation, BeforeCommit, EngineLocals,
        dbVars, localVars, auxVars
  <2>2. PICK D \in Dirs : D = loc
    BY <2>1
  <2>3. \A d \in Dirs : d # D => store'[d] = store[d]
    BY <1>t, <1>19, <2>2 DEF RenameManifest, StoreTypeOK
  <2>4. store[D].zip \in {NoFile, Torn, execs}
    BY <1>0, <2>1, <2>2 DEF LocationState
  <2>5. store'[D].zip \in {NoFile, Torn, execs}
    <3>1. LocationState' /\ loc' = D /\ execs' = execs
      BY <1>19, <2>2, LocationStep DEF RenameManifest, auxVars
    <3> QED
      BY <2>1, <2>2, <3>1 DEF LocationState
  <2>6. Library' = Library
    BY <2>1, <2>3, <2>4, <2>5, LibraryKept
  <2> QED
    BY <2>1, <2>6
<1>20. CASE VerifyCommitted
  <2>1. UNCHANGED <<row, store, touches>>
    BY <1>20 DEF VerifyCommitted, dbVars, localVars, auxVars
  <2> QED
    BY <2>1, SameStore
<1>21. CASE CommitSnapshot
  BY <1>21, CommitPublishes
<1>22. CASE StepFails
  <2>1. UNCHANGED <<row, store, touches>>
    BY <1>22 DEF StepFails, dbVars, localVars, auxVars
  <2> QED
    BY <2>1, SameStore
<1>23. CASE CleanLocation
  <2>1. /\ loc \in Dirs /\ loc # NoDir /\ pc \in BeforeCommit
        /\ UNCHANGED <<row, touches>>
    BY <1>0, <1>t, <1>23
    DEF CleanLocation, JobTyped, AtLocation, BeforeCommit, EngineLocals, dbVars,
        localVars, auxVars
  <2>2. PICK D \in Dirs : D = loc
    BY <2>1
  <2>3. \A d \in Dirs : d # D => store'[d] = store[d]
    BY <1>23, <2>2 DEF CleanLocation
  <2>4. store[D].zip \in {NoFile, Torn, execs}
    BY <1>0, <2>1, <2>2 DEF LocationState
  <2>5. store'[D].zip \in {NoFile, Torn, execs}
    BY <1>t, <1>23, <2>2 DEF CleanLocation, StoreTypeOK, Absent
  <2>6. Library' = Library
    BY <2>1, <2>3, <2>4, <2>5, LibraryKept
  <2> QED
    BY <2>1, <2>6
<1>24. CASE CleanLocationFails
  <2>1. /\ loc \in Dirs /\ loc # NoDir /\ pc \in BeforeCommit
        /\ UNCHANGED <<row, touches>>
    BY <1>0, <1>t, <1>24
    DEF CleanLocationFails, JobTyped, AtLocation, BeforeCommit, EngineLocals,
        dbVars, localVars
  <2>2. PICK D \in Dirs : D = loc
    BY <2>1
  <2>3. \A d \in Dirs : d # D => store'[d] = store[d]
    BY <1>24, <2>2 DEF CleanLocationFails
  <2>4. store[D].zip \in {NoFile, Torn, execs}
    BY <1>0, <2>1, <2>2 DEF LocationState
  <2>5. store'[D].zip \in {NoFile, Torn, execs}
    BY <1>24, <2>2, <2>4 DEF CleanLocationFails
  <2>6. Library' = Library
    BY <2>1, <2>3, <2>4, <2>5, LibraryKept
  <2> QED
    BY <2>1, <2>6
<1>25. CASE CleanCache
  <2>1. UNCHANGED <<row, store, touches>>
    BY <1>25 DEF CleanCache, dbVars, localVars, auxVars
  <2> QED
    BY <2>1, SameStore
<1>26. CASE CleanPartial
  <2>1. UNCHANGED <<row, store, touches>>
    BY <1>26 DEF CleanPartial, dbVars, localVars
  <2> QED
    BY <2>1, SameStore
<1>27. CASE CleanPartialFails
  <2>1. UNCHANGED <<row, store, touches>>
    BY <1>27 DEF CleanPartialFails, dbVars, localVars
  <2> QED
    BY <2>1, SameStore
<1>28. CASE FailBackupJob
  <2>1. UNCHANGED <<row, store, touches>>
    BY <1>28 DEF FailBackupJob, dbVars, localVars, auxVars
  <2> QED
    BY <2>1, SameStore
<1>29. CASE Crash
  <2>1. UNCHANGED <<row, store, touches>>
    BY <1>29 DEF Crash, dbVars, localVars
  <2> QED
    BY <2>1, SameStore
<1>30. CASE \E d \in Dirs : UserTouches(d)
  BY <1>30, TouchIsUserAct
<1>31. CASE UNCHANGED storeVars
  <2>1. UNCHANGED <<row, store, touches>>
    BY <1>31 DEF storeVars, dbVars, localVars, auxVars
  <2> QED
    BY <2>1, SameStore
<1> QED
  BY <1>1, <1>2, <1>3, <1>4, <1>5, <1>6, <1>7, <1>8, <1>9, <1>10, <1>11, <1>12,
     <1>13, <1>14, <1>15, <1>16,
     <1>17, <1>18, <1>19, <1>20, <1>21, <1>22, <1>23, <1>24, <1>25, <1>26,
         <1>27, <1>28, <1>29, <1>30, <1>31
  DEF StoreNext, QueueStep, EngineStep

(* The empty store shows an empty library. *)
LEMMA PromiseStart ==
  Init => Promise!Init
<1> SUFFICES ASSUME Init
             PROVE  Promise!Init
  OBVIOUS
<1>1. \A j \in Jobs : ~HasRow(j)
  BY DEF Init, HasRow
<1>2. Library = [j \in Jobs |-> "ABSENT"]
  BY <1>1 DEF Library, Shown
<1> QED
  BY <1>2 DEF Init, Promise!Init

(* SnapshotStore implements SnapshotPromise: snapshots appear whole and    *)
(* once (CommitSnapshot), and only the user spoils them.                   *)
THEOREM StoreKeepsPromise ==
  StoreSpec => PromiseKept
  BY StoreCorrect, PromiseStart, PromiseStep, PTL
  DEF StoreSpec, PromiseKept, Promise!Spec

--------------------------------------------------------------------------------
(* Orphaned directories. *)

(* What a step does to rows, final directories and the location: nothing,  *)
(* or it is one of the steps named here.                                   *)
LEMMA StoreMoves ==
  ASSUME [StoreNext]_storeVars
  PROVE  \/ UNCHANGED <<row, store, loc, touched, cut, mishaps>>
         \/ MakeLocation \/ RenameArchive \/ RenameFails \/ OpenManifest
         \/ RenameManifest \/ CommitSnapshot \/ CleanLocation
         \/ CleanLocationFails \/ CleanPartial \/ CleanPartialFails \/ Crash
         \/ \E d \in Dirs : UserTouches(d)
<1> DEFINE Quiet == UNCHANGED <<row, store, loc, touched, cut, mishaps>>
<1>1. QueueStep => Quiet
  BY DEF QueueStep, CreateBackupJob, RequeueJob, RetryJob, SetQueued, CancelJob,
         auxVars
<1>2. (\E j \in Jobs : StartBackupJob(j)) => Quiet
  BY DEF StartBackupJob
<1>3. CreatePartial \/ MakeCache \/ CreateArchive \/ OpenIndex => Quiet
  BY DEF CreatePartial, MakeCache, CreateArchive, OpenIndex, dbVars, auxVars
<1>4. WriteArchive \/ SourceChanged \/ WriteFails \/ DiscardArchive => Quiet
  BY DEF WriteArchive, SourceChanged, WriteFails, DiscardArchive, dbVars,
         auxVars
<1>5. SealArchive \/ VerifyCommitted \/ StepFails \/ CleanCache
      \/ FailBackupJob => Quiet
  BY DEF SealArchive, VerifyCommitted, StepFails, CleanCache, FailBackupJob,
         dbVars, auxVars
<1>6. UNCHANGED storeVars => Quiet
  BY DEF storeVars, dbVars, auxVars
<1> QED
  BY <1>1, <1>2, <1>3, <1>4, <1>5, <1>6 DEF StoreNext, EngineStep

(* The set Orphans of OrphansBounded grows by one directory at most,       *)
(* and only together with the count of mishaps.                            *)
LEMMA OrphanMoves ==
  ASSUME StoreInv, [StoreNext]_storeVars
  PROVE  \/ Orphans' \subseteq Orphans /\ mishaps' \in {mishaps, mishaps + 1}
         \/ Orphans' \subseteq Orphans \cup {loc} /\ mishaps' = mishaps + 1
<1> DEFINE Fewer == Orphans' \subseteq Orphans
           OneMore == Orphans' \subseteq Orphans \cup {loc}
<1>0. EngineLocals /\ JobRows /\ NamesUsed
  BY DEF StoreInv
<1>t. JobTyped /\ StoreTypeOK
  BY TypedLocals DEF StoreInv
<1>1. ASSUME row' = row, \A d \in Dirs : store'[d].there => store[d].there
      PROVE  OneMore
  BY <1>1 DEF Orphans
<1>2. ASSUME row' = row, \A d \in Dirs : store'[d].there => store[d].there,
             loc' = loc
      PROVE  Fewer
  BY <1>2 DEF Orphans
<1>3. CASE UNCHANGED <<row, store, loc, touched, cut, mishaps>>
  BY <1>2, <1>3
<1>4. CASE MakeLocation
  <2>1. FinalName \in Dirs /\ loc' = FinalName
    BY <1>4, FreshName DEF MakeLocation
  <2>2. loc = NoDir
    BY <1>0, <1>4 DEF MakeLocation, EngineLocals, AtLocation
  <2>3. \A d \in Dirs : d # loc' => store'[d] = store[d]
    BY <1>4, <1>t, <2>1 DEF MakeLocation, StoreTypeOK
  <2>4. row' = row /\ mishaps' = mishaps
    BY <1>4 DEF MakeLocation, dbVars, auxVars
  <2>5. \A d \in Dirs : loc # d
    BY <2>2, StoreAssumption
  <2> QED
    BY <2>3, <2>4, <2>5 DEF Orphans
<1>5. CASE RenameArchive \/ OpenManifest \/ RenameManifest
  <2>1. row' = row /\ loc' = loc /\ mishaps' = mishaps
    BY <1>5 DEF RenameArchive, OpenManifest, RenameManifest, dbVars, auxVars
  <2>2. \A d \in Dirs : store'[d].there => store[d].there
    BY <1>5, <1>t
    DEF RenameArchive, OpenManifest, RenameManifest, StoreTypeOK, DirStates
  <2> QED
    BY <1>2, <2>1, <2>2
<1>6. CASE RenameFails
  <2>1. row' = row /\ store' = store
    BY <1>6 DEF RenameFails, dbVars
  <2>2. CASE store[loc].there
    <3>1. mishaps' = mishaps + 1
      BY <1>6, <2>2 DEF RenameFails
    <3> QED
      BY <1>1, <2>1, <3>1
  <2>3. CASE ~store[loc].there
    <3>1. mishaps' = mishaps
      BY <1>6, <2>3 DEF RenameFails
    <3>2. Fewer
      BY <2>1, <2>3 DEF Orphans
    <3> QED
      BY <3>1, <3>2
  <2> QED
    BY <2>2, <2>3
<1>7. CASE CommitSnapshot
  <2>1. /\ job \in Jobs /\ mishaps' = mishaps /\ store' = store
        /\ jobStatus[job] = "RUNNING"
    BY <1>7, <1>t DEF CommitSnapshot, JobTyped, auxVars
  <2>2. row[job].dir = NoDir
    BY <1>0, <2>1 DEF JobRows, HasRow, NoRow
  <2>3. /\ row'[job].dir = loc
        /\ \A j \in Jobs : j # job => row'[j] = row[j]
    BY <1>7, <1>t, <2>1 DEF CommitSnapshot, StoreTypeOK
  <2>4. ASSUME NEW d \in Dirs, \A j \in Jobs : row'[j].dir # d
        PROVE  loc # d /\ \A j \in Jobs : row[j].dir # d
    BY <2>1, <2>2, <2>3, <2>4, StoreAssumption
  <2>5. Fewer
    BY <2>1, <2>4 DEF Orphans
  <2> QED
    BY <2>1, <2>5
<1>8. CASE CleanLocation
  <2>1. loc \in Dirs /\ row' = row /\ mishaps' = mishaps
    BY <1>8, <1>t DEF CleanLocation, JobTyped, AtLocation, dbVars, auxVars
  <2>2. \A d \in Dirs : store'[d].there => store[d].there /\ d # loc
    BY <1>8, <1>t, <2>1 DEF CleanLocation, StoreTypeOK, Absent
  <2>3. Fewer
    BY <2>1, <2>2 DEF Orphans
  <2> QED
    BY <2>1, <2>3
<1>9. CASE CleanLocationFails
  <2>1. loc \in Dirs /\ row' = row /\ mishaps' = mishaps + 1
    BY <1>9, <1>t DEF CleanLocationFails, JobTyped, AtLocation, dbVars
  <2>2. \A d \in Dirs : store'[d].there => store[d].there
    BY <1>9, <1>t, <2>1 DEF CleanLocationFails, StoreTypeOK
  <2> QED
    BY <1>1, <2>1, <2>2
<1>10. CASE CleanPartial \/ CleanPartialFails
  <2>1. /\ UNCHANGED <<row, store, loc>>
        /\ mishaps' \in {mishaps, mishaps + 1}
    BY <1>10 DEF CleanPartial, CleanPartialFails, dbVars
  <2> QED
    BY <1>2, <2>1
<1>11. CASE Crash
  <2>1. row' = row /\ store' = store /\ mishaps' = mishaps + 1
    BY <1>11 DEF Crash, dbVars
  <2> QED
    BY <1>1, <2>1
<1>12. CASE \E d \in Dirs : UserTouches(d)
  <2>1. PICK e \in Dirs : UserTouches(e)
    BY <1>12
  <2>2. row' = row /\ loc' = loc /\ mishaps' = mishaps
    BY <2>1 DEF UserTouches, dbVars
  <2>3. store[e].there
    BY <2>1 DEF UserTouches
  <2>4. \A d \in Dirs : d # e => store'[d] = store[d]
    BY <1>t, <2>1 DEF UserTouches, StoreTypeOK
  <2>5. \A d \in Dirs : store'[d].there => store[d].there
    BY <2>3, <2>4
  <2> QED
    BY <1>2, <2>2, <2>5
<1> QED
  BY StoreMoves, <1>3, <1>4, <1>5, <1>6, <1>7, <1>8, <1>9, <1>10, <1>11, <1>12

(* The orphans as a number: finitely many, at most one for each mishap.    *)
OrphanCount == IsFiniteSet(Orphans) /\ OrphansBounded

(* A set that grows by one element at most, and only with its bound, stays *)
(* finite and within it.                                                   *)
LEMMA BoundedGrowth ==
  ASSUME NEW S, NEW T, NEW x, NEW m \in Nat, NEW n \in Nat,
         IsFiniteSet(S), Cardinality(S) <= m,
         \/ T \subseteq S /\ n >= m
         \/ T \subseteq S \cup {x} /\ n = m + 1
  PROVE  IsFiniteSet(T) /\ Cardinality(T) <= n
<1>1. Cardinality(S) \in Nat
  BY FS_CardinalityType
<1>2. CASE T \subseteq S /\ n >= m
  <2>1. IsFiniteSet(T) /\ Cardinality(T) <= Cardinality(S)
    BY <1>2, FS_Subset
  <2>2. Cardinality(T) \in Nat
    BY <2>1, FS_CardinalityType
  <2> QED
    BY <1>1, <1>2, <2>1, <2>2
<1>3. CASE T \subseteq S \cup {x} /\ n = m + 1
  <2> DEFINE U == S \cup {x}
  <2>1. IsFiniteSet(U) /\ Cardinality(U) \in {Cardinality(S), Cardinality(S) + 1}
    BY FS_AddElement
  <2>2. IsFiniteSet(T) /\ Cardinality(T) <= Cardinality(U)
    BY <1>3, <2>1, FS_Subset
  <2>3. Cardinality(T) \in Nat
    BY <2>2, FS_CardinalityType
  <2> HIDE DEF U
  <2> QED
    BY <1>1, <1>3, <2>1, <2>2, <2>3
<1> QED
  BY <1>2, <1>3

(* Every step keeps the orphans within the mishaps. *)
LEMMA OrphanStep ==
  ASSUME StoreInv, OrphanCount, [StoreNext]_storeVars
  PROVE  OrphanCount'
<1>1. mishaps \in Nat /\ mishaps' \in Nat
  BY TypeStep DEF StoreInv, StoreTypeOK
<1>2. IsFiniteSet(Orphans) /\ Cardinality(Orphans) <= mishaps
  BY DEF OrphanCount, OrphansBounded
<1>3. \/ Orphans' \subseteq Orphans /\ mishaps' >= mishaps
      \/ Orphans' \subseteq Orphans \cup {loc} /\ mishaps' = mishaps + 1
  <2>1. mishaps' \in {mishaps, mishaps + 1} => mishaps' >= mishaps
    BY <1>1
  <2> QED
    BY <2>1, OrphanMoves
<1>4. IsFiniteSet(Orphans') /\ Cardinality(Orphans') <= mishaps'
  BY <1>1, <1>2, <1>3, BoundedGrowth
<1> QED
  BY <1>4 DEF OrphanCount, OrphansBounded

(* The empty store has no orphan. *)
LEMMA OrphanStart == Init => OrphanCount
<1> SUFFICES ASSUME Init PROVE OrphanCount
  OBVIOUS
<1>1. Orphans = {}
  BY DEF Init, Orphans, Absent
<1> QED
  BY <1>1, FS_EmptySet DEF Init, OrphanCount, OrphansBounded

(* A directory under the instance that no row names costs a crash or a     *)
(* failed removal or rename (CommitArchive, RemoveDirectory): ordinary     *)
(* errors and retries leave none behind.                                   *)
THEOREM OrphansStayBounded == StoreSpec => []OrphansBounded
<1>1. OrphanCount => OrphansBounded
  BY DEF OrphanCount
<1>2. StoreInv /\ OrphanCount /\ [StoreNext]_storeVars => OrphanCount'
  BY OrphanStep
<1> QED
  BY <1>1, <1>2, OrphanStart, StoreCorrect, PTL DEF StoreSpec

--------------------------------------------------------------------------------
(* The library on top of the store. *)

(* What no request changes but SetSnapshotVerification and the marks of a  *)
(* scan, which write one column of one row, and the failed removal of an   *)
(* export.                                                                 *)
Relabels(j, v) ==
  /\ row' = [row EXCEPT ![j].verification = v]
  /\ UNCHANGED <<jobStatus, partial, cache, store, pc, localVars, loc, auxVars>>

Stumbles ==
  /\ mishaps' = mishaps + 1
  /\ UNCHANGED <<dbVars, partial, cache, store, pc, localVars, loc, execs, used,
                 touched, cut, touches>>

(* How a request touches the store. *)
LEMMA RequestMoves ==
  ASSUME NEW r \in Requests, RequestStep(r)
  PROVE  \/ UNCHANGED storeVars
         \/ rpc[r] = "record" /\ Relabels(rjob[r], verdict[r])
         \/ rpc[r] = "mark" /\ Relabels(rjob[r], "FAILED")
         \/ Stumbles
<1>1. (\E j \in Jobs : BeginVerify(r, j) \/ ScanItem(r, j) \/ BeginExport(r, j))
      => UNCHANGED storeVars
  BY DEF BeginVerify, ScanItem, BeginExport, Begin
<1>2. CheckQuick(r) \/ FullVerifyFails(r) \/ OpenScratch(r) \/ ReadEntries(r)
      \/ CheckError(r) => UNCHANGED storeVars
  BY DEF CheckQuick, FullVerifyFails, OpenScratch, ReadEntries, CheckError,
         Decide
<1>3. ClientGone(r) \/ BeginScan(r) \/ ScanEnds(r) => UNCHANGED storeVars
  BY DEF ClientGone, BeginScan, ScanEnds
<1>4. ExportLstat(r) \/ ExportMkdir(r) \/ ExportDone(r) \/ ExportFails(r)
      => UNCHANGED storeVars
  BY DEF ExportLstat, ExportMkdir, ExportDone, ExportFails
<1>5. SetSnapshotVerification(r) =>
        rpc[r] = "record" /\ Relabels(rjob[r], verdict[r])
  BY DEF SetSnapshotVerification, Relabels
<1>6. ScanMarks(r) => rpc[r] = "mark" /\ Relabels(rjob[r], "FAILED")
  BY DEF ScanMarks, Relabels
<1>7. ExportStays(r) => Stumbles
  BY DEF ExportStays, Stumbles
<1> QED
  BY <1>1, <1>2, <1>3, <1>4, <1>5, <1>6, <1>7 DEF RequestStep

(* Writing the verification column of an existing row leaves its directory *)
(* and digest alone.                                                       *)
LEMMA RelabelledRows ==
  ASSUME StoreInv, NEW j \in Jobs, HasRow(j),
         NEW v \in {"NONE", "VERIFIED", "FAILED"}, Relabels(j, v)
  PROVE  /\ row' \in [Jobs -> RowStates]
         /\ \A i \in Jobs : /\ row'[i].dir = row[i].dir
                            /\ row'[i].digest = row[i].digest
                            /\ HasRow(i)' <=> HasRow(i)
         /\ row'[j].verification = v
         /\ \A i \in Jobs \ {j} : row'[i] = row[i]
<1>1. row \in [Jobs -> RowStates] /\ row[j] \in RowStates
  BY DEF StoreInv, StoreTypeOK
<1>2. row[j].dir # NoDir
  BY StoreAssumption DEF StoreInv, JobRows, Dirs
<1>3. row' = [row EXCEPT ![j].verification = v]
  BY DEF Relabels
<1>4. [row[j] EXCEPT !.verification = v] \in RowStates
  BY <1>1 DEF RowStates
<1>5. row'[j] = [row[j] EXCEPT !.verification = v]
  BY <1>1, <1>3
<1>6. /\ row'[j].dir = row[j].dir /\ row'[j].digest = row[j].digest
      /\ row'[j].verification = v
  BY <1>1, <1>5 DEF RowStates
<1>7. HasRow(j)'
  BY <1>2, <1>6 DEF HasRow, NoRow
<1>8. \A i \in Jobs \ {j} : row'[i] = row[i]
  BY <1>1, <1>3
<1>9. row' \in [Jobs -> RowStates]
  BY <1>1, <1>3, <1>4
<1>10. ASSUME NEW i \in Jobs
       PROVE  /\ row'[i].dir = row[i].dir /\ row'[i].digest = row[i].digest
              /\ HasRow(i)' <=> HasRow(i)
  BY <1>6, <1>7, <1>8 DEF HasRow
<1> QED
  BY <1>6, <1>8, <1>9, <1>10

(* So it keeps the invariant of the store. *)
LEMMA RelabelKeeps ==
  ASSUME StoreInv, NEW j \in Jobs, HasRow(j),
         NEW v \in {"NONE", "VERIFIED", "FAILED"}, Relabels(j, v)
  PROVE  StoreInv'
<1>1. /\ row' \in [Jobs -> RowStates]
      /\ \A i \in Jobs : /\ row'[i].dir = row[i].dir
                         /\ row'[i].digest = row[i].digest
                         /\ HasRow(i)' <=> HasRow(i)
  BY RelabelledRows
<1>2. UNCHANGED <<jobStatus, partial, cache, store, pc, localVars, loc, auxVars>>
  BY DEF Relabels
<1>3. StoreTypeOK'
  BY <1>1, <1>2 DEF StoreInv, StoreTypeOK, localVars, auxVars
<1>4. EngineLocals' /\ NamesUsed' /\ PartialState' /\ ManifestsTrue'
      /\ IndexHasArchive' /\ LeftoversExplained'
  BY <1>2 DEF StoreInv, EngineLocals, NamesUsed, PartialState, ManifestsTrue,
              IndexHasArchive, LeftoversExplained, Executing, localVars, auxVars
<1>5. JobRows'
  BY <1>1, <1>2 DEF StoreInv, JobRows, localVars, auxVars
<1>6. LocationState' /\ FreshLocation'
  BY <1>1, <1>2
  DEF StoreInv, LocationState, FreshLocation, Contents, localVars, auxVars
<1>7. SnapshotsComplete'
  BY <1>1, <1>2 DEF StoreInv, SnapshotsComplete, Contents, localVars, auxVars
<1> QED
  BY <1>3, <1>4, <1>5, <1>6, <1>7 DEF StoreInv

(* A failed removal of an export is only counted. *)
LEMMA StumbleKeeps ==
  ASSUME StoreInv, Stumbles
  PROVE  StoreInv'
<1>1. /\ mishaps' = mishaps + 1
      /\ UNCHANGED <<jobStatus, row, partial, cache, store, pc, job, stamp,
                     attempt, loc, execs, used, touched, cut, touches>>
  BY DEF Stumbles, dbVars, localVars
<1>2. StoreTypeOK'
  BY <1>1 DEF StoreInv, StoreTypeOK
<1>3. EngineLocals' /\ NamesUsed' /\ PartialState' /\ ManifestsTrue'
      /\ IndexHasArchive' /\ LeftoversExplained'
  BY <1>1 DEF StoreInv, EngineLocals, NamesUsed, PartialState, ManifestsTrue,
              IndexHasArchive, LeftoversExplained, Executing
<1>4. JobRows' /\ LocationState' /\ FreshLocation' /\ SnapshotsComplete'
  BY <1>1 DEF StoreInv, JobRows, LocationState, FreshLocation, HasRow,
              SnapshotsComplete, Contents
<1> QED
  BY <1>2, <1>3, <1>4 DEF StoreInv

(* The locals of the requests are well typed. *)
RequestSteps == {"idle", "quick", "full", "entries", "record", "scan", "mark",
                 "lstat", "mkdir", "extract"}
RequestTypes ==
  /\ rpc \in [Requests -> RequestSteps]
  /\ rjob \in [Requests -> Jobs \cup {NoJob}]
  /\ verdict \in [Requests -> {"NONE", "VERIFIED", "FAILED"}]
  /\ items \in [Requests -> SUBSET Jobs]

(* Steps at which a request holds the snapshot it was made for. *)
WithSnapshot ==
  {"quick", "full", "entries", "record", "mark", "lstat", "mkdir", "extract"}

(* A request works on rows that exist, and records an outcome. *)
RequestsBound ==
  \A r \in Requests :
    /\ rpc[r] \in WithSnapshot => rjob[r] \in Rows
    /\ items[r] \subseteq Rows
    /\ rpc[r] = "record" => verdict[r] # "NONE"

(* The columns a step of the library may change in the store: a request    *)
(* relabels a row that exists, everything else is a step of the store.     *)
LEMMA LibraryMoves ==
  ASSUME RequestTypes, RequestsBound, [Next]_vars
  PROVE  \/ [StoreNext]_storeVars
         \/ \E j \in Rows, v \in {"VERIFIED", "FAILED"} : Relabels(j, v)
         \/ Stumbles
<1>1. CASE QueueStep \/ EngineStep \/ \E d \in Dirs : UserTouches(d)
  BY <1>1 DEF StoreNext
<1>2. CASE CrashAll
  BY <1>2 DEF CrashAll, StoreNext
<1>3. ASSUME NEW r \in Requests, RequestStep(r)
      PROVE  \/ UNCHANGED storeVars
             \/ \E j \in Rows, v \in {"VERIFIED", "FAILED"} : Relabels(j, v)
             \/ Stumbles
  <2>1. rpc[r] \in {"record", "mark"} => rjob[r] \in Rows
    BY DEF RequestsBound, WithSnapshot
  <2>2. rpc[r] = "record" => verdict[r] \in {"VERIFIED", "FAILED"}
    BY DEF RequestsBound, RequestTypes
  <2> QED
    BY <1>3, <2>1, <2>2, RequestMoves
<1>4. CASE UNCHANGED vars
  BY <1>4 DEF vars
<1> QED
  BY <1>1, <1>2, <1>3, <1>4 DEF Next

(* Requests keep the invariant of the store. *)
LEMMA LibraryStoreStep ==
  ASSUME StoreInv, RequestTypes, RequestsBound, [Next]_vars
  PROVE  StoreInv'
<1>1. ASSUME NEW j \in Rows, NEW v \in {"VERIFIED", "FAILED"}, Relabels(j, v)
      PROVE  StoreInv'
  BY <1>1, RelabelKeeps DEF Rows
<1> QED
  BY <1>1, LibraryMoves, StoreStep, StumbleKeeps

(* The steps that write the table of snapshots; the others may only add to *)
(* what the user has changed.                                              *)
LEMMA RowMoves ==
  ASSUME RequestTypes, RequestsBound, [Next]_vars
  PROVE  \/ row' = row /\ touched \subseteq touched'
         \/ CommitSnapshot
         \/ \E j \in Rows, v \in {"VERIFIED", "FAILED"} : Relabels(j, v)
<1>1. MakeLocation \/ RenameArchive \/ RenameFails \/ OpenManifest
      \/ RenameManifest \/ CleanLocation \/ CleanLocationFails \/ CleanPartial
      \/ CleanPartialFails \/ Crash => row' = row /\ touched \subseteq touched'
  BY DEF MakeLocation, RenameArchive, RenameFails, OpenManifest, RenameManifest,
         CleanLocation, CleanLocationFails, CleanPartial, CleanPartialFails,
         Crash, dbVars, auxVars
<1>2. (\E d \in Dirs : UserTouches(d)) => row' = row /\ touched \subseteq touched'
  BY DEF UserTouches, dbVars
<1>3. Stumbles => row' = row /\ touched \subseteq touched'
  BY DEF Stumbles, dbVars
<1> QED
  BY <1>1, <1>2, <1>3, LibraryMoves, StoreMoves

(* CommitSnapshot adds one row, for a job that had none. *)
LEMMA CommitAdds ==
  ASSUME StoreInv, CommitSnapshot
  PROVE  /\ job \in Jobs /\ job \notin Rows /\ loc \in Dirs
         /\ touched' = touched /\ store' = store
         /\ row'[job].dir = loc /\ row'[job].verification = "VERIFIED"
         /\ \A j \in Jobs : j # job => row'[j] = row[j]
         /\ Rows' = Rows \cup {job}
<1>1. /\ job \in Jobs /\ loc \in Dirs /\ touched' = touched /\ store' = store
      /\ jobStatus[job] = "RUNNING" /\ row \in [Jobs -> RowStates]
  BY TypedLocals
  DEF CommitSnapshot, JobTyped, AtLocation, auxVars, StoreInv, StoreTypeOK
<1>2. ~HasRow(job)
  BY <1>1 DEF StoreInv, JobRows
<1>3. /\ row'[job].dir = loc /\ row'[job].verification = "VERIFIED"
      /\ \A j \in Jobs : j # job => row'[j] = row[j]
  BY <1>1 DEF CommitSnapshot
<1>4. PICK i \in Jobs : i = job
  BY <1>1
<1>5. HasRow(i)'
  BY <1>1, <1>3, <1>4, StoreAssumption DEF HasRow, NoRow
<1>6. Rows' = Rows \cup {job}
  BY <1>3, <1>4, <1>5 DEF Rows, HasRow
<1> QED
  BY <1>1, <1>2, <1>3, <1>6 DEF Rows

(* A row stays and keeps its directory and digest; a directory the user    *)
(* has changed stays marked as such.                                       *)
LEMMA RowsKept ==
  ASSUME StoreInv, RequestTypes, RequestsBound, [Next]_vars
  PROVE  /\ \A j \in Rows : j \in Rows' /\ row'[j].dir = row[j].dir
         /\ touched \subseteq touched'
<1>1. CASE \E j \in Rows, v \in {"VERIFIED", "FAILED"} : Relabels(j, v)
  <2>1. PICK j \in Rows, v \in {"VERIFIED", "FAILED"} : Relabels(j, v)
    BY <1>1
  <2>2. \A i \in Jobs : row'[i].dir = row[i].dir /\ (HasRow(i)' <=> HasRow(i))
    BY <2>1, RelabelledRows DEF Rows
  <2>3. touched' = touched
    BY <2>1 DEF Relabels, auxVars
  <2> QED
    BY <2>2, <2>3 DEF Rows
<1>2. CASE row' = row /\ touched \subseteq touched'
  BY <1>2 DEF Rows, HasRow
<1>3. CASE CommitSnapshot
  BY <1>3, CommitAdds DEF Rows
<1> QED
  BY <1>1, <1>2, <1>3, RowMoves

(* What ending a request leaves of it. *)
Ended(r) ==
  /\ rpc'[r] = "idle" /\ rjob'[r] = NoJob
  /\ verdict'[r] = "NONE" /\ items'[r] = {}

(* What a step of a request does to the request itself. *)
OwnStep(r) ==
  \/ Ended(r)
  \/ /\ rpc[r] = "idle" /\ rpc'[r] \in {"quick", "full", "lstat"}
     /\ rjob'[r] \in Rows /\ UNCHANGED <<verdict, items>>
  \/ /\ rpc[r] \in {"quick", "full", "entries"} /\ rpc'[r] = "record"
     /\ UNCHANGED <<rjob, items>> /\ verdict'[r] \in {"VERIFIED", "FAILED"}
     /\ verdict'[r] = "FAILED" => ~Verified(rjob[r]) \/ rjob[r] \in misread'
  \/ /\ \/ rpc[r] = "full" /\ rpc'[r] = "entries"
        \/ rpc[r] = "lstat" /\ rpc'[r] = "mkdir"
        \/ rpc[r] = "mkdir" /\ rpc'[r] = "extract"
     /\ UNCHANGED <<rjob, verdict, items>>
  \/ /\ rpc[r] = "idle" /\ rpc'[r] = "scan" /\ items'[r] = Rows
     /\ UNCHANGED <<rjob, verdict>>
  \/ /\ rpc[r] = "scan" /\ rpc'[r] = "scan" /\ items'[r] \subseteq items[r]
     /\ rjob'[r] = NoJob /\ UNCHANGED verdict
  \/ /\ rpc[r] = "scan" /\ rpc'[r] = "mark" /\ items'[r] \subseteq items[r]
     /\ rjob'[r] \in items[r] /\ UNCHANGED verdict
     /\ ~Verified(rjob'[r]) \/ rjob'[r] \in misread'
  \/ /\ rpc[r] = "mark" /\ rpc'[r] = "scan" /\ rjob'[r] = NoJob
     /\ UNCHANGED <<verdict, items>>

(* A step of one request leaves the locals of the others alone. *)
OthersKept(r) ==
  \A q \in Requests \ {r} : /\ rpc'[q] = rpc[q] /\ rjob'[q] = rjob[q]
                            /\ verdict'[q] = verdict[q] /\ items'[q] = items[q]

(* The end of a request, as every handler reaches it. *)
LEMMA EndMoves ==
  ASSUME RequestTypes, NEW r \in Requests, End(r)
  PROVE  RequestTypes' /\ OthersKept(r) /\ Ended(r)
<1>1. OthersKept(r) /\ Ended(r)
  BY DEF RequestTypes, End, OthersKept, Ended
<1>2. RequestTypes'
  BY DEF RequestTypes, RequestSteps, End
<1> QED
  BY <1>1, <1>2

(* The steps of a request on its own locals, handler by handler. *)
LEMMA RequestLocals ==
  ASSUME RequestTypes, NEW r \in Requests, RequestStep(r)
  PROVE  RequestTypes' /\ OthersKept(r) /\ OwnStep(r)
<1> DEFINE Goal == RequestTypes' /\ OthersKept(r) /\ OwnStep(r)
<1>e. End(r) => Goal
  BY EndMoves DEF OwnStep
<1>1. ASSUME NEW j \in Jobs, NEW step \in {"quick", "full", "lstat"},
             Begin(r, j, step)
      PROVE  Goal
  <2>1. RequestTypes'
    BY <1>1 DEF Begin, RequestTypes, RequestSteps
  <2>2. OthersKept(r)
    BY <1>1 DEF Begin, RequestTypes, OthersKept
  <2>3. OwnStep(r)
    BY <1>1 DEF Begin, RequestTypes, OwnStep, Rows
  <2> QED
    BY <2>1, <2>2, <2>3
<1>2. ASSUME NEW outcome \in {"VERIFIED", "FAILED"}, Decide(r, outcome),
             rpc[r] \in {"quick", "full", "entries"},
             outcome = "FAILED" => ~Verified(rjob[r]) \/ rjob[r] \in misread'
      PROVE  Goal
  <2>1. RequestTypes'
    BY <1>2 DEF Decide, RequestTypes, RequestSteps
  <2>2. OthersKept(r)
    BY <1>2 DEF Decide, RequestTypes, OthersKept
  <2>3. verdict'[r] = outcome /\ rpc'[r] = "record" /\ UNCHANGED <<rjob, items>>
    BY <1>2 DEF Decide, RequestTypes
  <2>4. OwnStep(r)
    BY <1>2, <2>3 DEF OwnStep
  <2> QED
    BY <2>1, <2>2, <2>4
<1>3. ASSUME NEW to \in RequestSteps, rpc' = [rpc EXCEPT ![r] = to],
             \/ rpc[r] = "full" /\ to = "entries"
             \/ rpc[r] = "lstat" /\ to = "mkdir"
             \/ rpc[r] = "mkdir" /\ to = "extract",
             UNCHANGED <<rjob, verdict, items>>
      PROVE  Goal
  <2>1. RequestTypes'
    BY <1>3 DEF RequestTypes
  <2>2. OthersKept(r)
    BY <1>3 DEF RequestTypes, OthersKept
  <2>3. rpc'[r] = to
    BY <1>3 DEF RequestTypes
  <2>4. OwnStep(r)
    BY <1>3, <2>3 DEF OwnStep
  <2> QED
    BY <2>1, <2>2, <2>4
<1>4. CASE \E j \in Jobs : BeginVerify(r, j) \/ BeginExport(r, j)
  BY <1>1, <1>4 DEF BeginVerify, BeginExport
<1>5. CASE CheckQuick(r)
  BY <1>2, <1>5 DEF CheckQuick
<1>6. CASE FullVerifyFails(r)
  BY <1>2, <1>6 DEF FullVerifyFails
<1>7. CASE ReadEntries(r)
  BY <1>2, <1>7 DEF ReadEntries
<1>8. CASE CheckError(r)
  BY <1>2, <1>8 DEF CheckError
<1>9. CASE OpenScratch(r)
  BY <1>3, <1>9 DEF OpenScratch, RequestSteps
<1>10. CASE SetSnapshotVerification(r) \/ ClientGone(r) \/ ScanEnds(r)
            \/ ExportDone(r) \/ ExportFails(r) \/ ExportStays(r)
  BY <1>e, <1>10 DEF SetSnapshotVerification, ClientGone, ScanEnds, ExportDone,
                     ExportFails, ExportStays
<1>11. CASE ExportLstat(r)
  BY <1>e, <1>3, <1>11 DEF ExportLstat, RequestSteps
<1>12. CASE ExportMkdir(r)
  BY <1>e, <1>3, <1>12 DEF ExportMkdir, RequestSteps
<1>13. CASE BeginScan(r)
  <2>1. RequestTypes'
    BY <1>13 DEF BeginScan, RequestTypes, RequestSteps, Rows
  <2>2. OthersKept(r) /\ OwnStep(r)
    BY <1>13 DEF BeginScan, RequestTypes, OthersKept, OwnStep
  <2> QED
    BY <2>1, <2>2
<1>14. CASE ScanMarks(r)
  <2>1. RequestTypes'
    BY <1>14 DEF ScanMarks, RequestTypes, RequestSteps
  <2>2. OthersKept(r) /\ OwnStep(r)
    BY <1>14 DEF ScanMarks, RequestTypes, OthersKept, OwnStep
  <2> QED
    BY <2>1, <2>2
<1>15. ASSUME NEW j \in Jobs, ScanItem(r, j)
       PROVE  Goal
  <2>1. PICK failed \in BOOLEAN :
          /\ ~failed => Verified(j)
          /\ rpc' = [rpc EXCEPT ![r] = IF failed THEN "mark" ELSE "scan"]
          /\ rjob' = [rjob EXCEPT ![r] = IF failed THEN j ELSE NoJob]
          /\ misread' = IF failed /\ Verified(j) THEN misread \cup {j}
                                                 ELSE misread
    BY <1>15 DEF ScanItem
  <2>2. /\ rpc[r] = "scan" /\ j \in items[r]
        /\ items' = [items EXCEPT ![r] = @ \ {j}] /\ verdict' = verdict
    BY <1>15 DEF ScanItem
  <2>3. RequestTypes'
    BY <2>1, <2>2 DEF RequestTypes, RequestSteps
  <2>4. OthersKept(r)
    BY <2>1, <2>2 DEF RequestTypes, OthersKept
  <2>5. items'[r] \subseteq items[r]
    BY <2>2 DEF RequestTypes
  <2>6. CASE failed
    <3>1. rpc'[r] = "mark" /\ rjob'[r] = j
      BY <2>1, <2>6 DEF RequestTypes
    <3>2. ~Verified(j) \/ j \in misread'
      BY <2>1, <2>6
    <3>3. ~Verified(rjob'[r]) \/ rjob'[r] \in misread'
      BY <3>1, <3>2
    <3>4. OwnStep(r)
      BY <2>2, <2>5, <3>1, <3>3 DEF OwnStep
    <3> QED
      BY <2>3, <2>4, <3>4
  <2>7. CASE ~failed
    <3>1. rpc'[r] = "scan" /\ rjob'[r] = NoJob
      BY <2>1, <2>7 DEF RequestTypes
    <3>2. OwnStep(r)
      BY <2>2, <2>5, <3>1 DEF OwnStep
    <3> QED
      BY <2>3, <2>4, <3>2
  <2> QED
    BY <2>6, <2>7
<1> QED
  BY <1>4, <1>5, <1>6, <1>7, <1>8, <1>9, <1>10, <1>11, <1>12, <1>13, <1>14,
     <1>15 DEF RequestStep

(* Requests keep their types and work on rows that exist. *)
LEMMA RequestsStep ==
  ASSUME StoreInv, RequestTypes, RequestsBound, [Next]_vars
  PROVE  RequestTypes' /\ RequestsBound'
<1>1. /\ \A j \in Rows : j \in Rows'
      /\ Rows \subseteq Rows'
  BY RowsKept
<1>2. CASE UNCHANGED requestVars
  BY <1>1, <1>2 DEF requestVars, RequestTypes, RequestsBound
<1>3. CASE CrashAll
  BY <1>3 DEF CrashAll, RequestTypes, RequestSteps, RequestsBound, WithSnapshot
<1>4. ASSUME NEW r \in Requests, RequestStep(r)
      PROVE  RequestTypes' /\ RequestsBound'
  <2>1. RequestTypes' /\ OthersKept(r) /\ OwnStep(r)
    BY <1>4, RequestLocals
  <2>2. ASSUME NEW q \in Requests \ {r}
        PROVE  /\ rpc'[q] \in WithSnapshot => rjob'[q] \in Rows'
               /\ items'[q] \subseteq Rows'
               /\ rpc'[q] = "record" => verdict'[q] # "NONE"
    BY <1>1, <2>1 DEF OthersKept, RequestsBound
  <2>3. /\ rpc[r] \in WithSnapshot => rjob[r] \in Rows'
        /\ items[r] \subseteq Rows'
    BY <1>1 DEF RequestsBound
  <2>4. /\ rpc'[r] \in WithSnapshot => rjob'[r] \in Rows'
        /\ items'[r] \subseteq Rows'
        /\ rpc'[r] = "record" => verdict'[r] # "NONE"
    BY <1>1, <2>1, <2>3 DEF OwnStep, Ended, WithSnapshot
  <2>5. RequestsBound'
    BY <2>2, <2>4 DEF RequestsBound
  <2> QED
    BY <2>1, <2>5
<1> QED
  BY <1>2, <1>3, <1>4 DEF Next, vars, libraryVars

(* The store and the requests together. *)
RequestInv == StoreInv /\ RequestTypes /\ RequestsBound

(* No step breaks it. *)
LEMMA RequestInvStep ==
  ASSUME RequestInv, [Next]_vars
  PROVE  RequestInv'
  BY LibraryStoreStep, RequestsStep DEF RequestInv

(* No request is there at the start. *)
LEMMA RequestInvStart == LibraryInit => RequestInv
  BY StoreStart DEF LibraryInit, IdleRequests, RequestInv, RequestTypes,
                    RequestSteps, RequestsBound, WithSnapshot

--------------------------------------------------------------------------------
(* Alarms. *)

(* The user changed the snapshot, or a check of it met an I/O error. *)
Excused(j) == row[j].dir \in touched \/ j \in misread

(* A request that is about to write FAILED has a reason to. *)
AlarmsPending ==
  \A r \in Requests :
    rpc[r] = "mark" \/ (rpc[r] = "record" /\ verdict[r] = "FAILED")
    => Excused(rjob[r])

AlarmInv == AlarmsJustified /\ AlarmsPending

(* QuickVerify rejects a snapshot only if the user changed it. *)
LEMMA RejectedIsTouched ==
  ASSUME StoreInv, NEW j \in Rows, ~Verified(j)
  PROVE  row[j].dir \in touched
<1>1. /\ HasRow(j) /\ j \in Jobs
      /\ row[j].digest \in 1 .. execs /\ execs \in Nat
  BY DEF Rows, StoreInv, StoreTypeOK, JobRows
<1>2. row[j].digest # NoFile
  BY <1>1 DEF NoFile
<1>3. CASE row[j].dir \notin touched
  <2>1. Contents(row[j].dir, row[j].digest, row[j].digest, FALSE)
    BY <1>1, <1>3 DEF StoreInv, SnapshotsComplete
  <2> QED
    BY <1>2, <2>1 DEF Contents, Verified, QuickVerify
<1> QED
  BY <1>3

(* The record of I/O errors only grows. *)
LEMMA MisreadGrows ==
  ASSUME [Next]_vars
  PROVE  misread \subseteq misread'
<1>1. CASE UNCHANGED libraryVars
  BY <1>1 DEF libraryVars
<1>2. CASE CrashAll
  BY <1>2 DEF CrashAll
<1>3. ASSUME NEW r \in Requests, RequestStep(r)
      PROVE  misread \subseteq misread'
  <2>1. ASSUME NEW j \in Jobs, ScanItem(r, j)
        PROVE  misread \subseteq misread'
    BY <2>1 DEF ScanItem
  <2>2. (\E j \in Jobs : BeginVerify(r, j) \/ BeginExport(r, j))
        => misread' = misread
    BY DEF BeginVerify, BeginExport, Begin
  <2>3. CheckQuick(r) \/ FullVerifyFails(r) \/ OpenScratch(r) \/ ReadEntries(r)
        => misread' = misread
    BY DEF CheckQuick, FullVerifyFails, OpenScratch, ReadEntries
  <2>4. CheckError(r) => misread \subseteq misread'
    BY DEF CheckError
  <2>5. SetSnapshotVerification(r) \/ ClientGone(r) \/ BeginScan(r)
        \/ ScanMarks(r) \/ ScanEnds(r) => misread' = misread
    BY DEF SetSnapshotVerification, ClientGone, BeginScan, ScanMarks, ScanEnds
  <2>6. ExportLstat(r) \/ ExportMkdir(r) \/ ExportDone(r) \/ ExportFails(r)
        \/ ExportStays(r) => misread' = misread
    BY DEF ExportLstat, ExportMkdir, ExportDone, ExportFails, ExportStays
  <2> QED
    BY <1>3, <2>1, <2>2, <2>3, <2>4, <2>5, <2>6 DEF RequestStep
<1> QED
  BY <1>1, <1>2, <1>3 DEF Next, vars, libraryVars

(* An excuse is never lost. *)
LEMMA ExcuseKept ==
  ASSUME RequestInv, [Next]_vars, NEW j \in Rows, Excused(j)
  PROVE  Excused(j)'
  BY RowsKept, MisreadGrows DEF RequestInv, Excused

(* Every step keeps alarms justified, written and pending ones. *)
LEMMA AlarmStep ==
  ASSUME RequestInv, AlarmInv, [Next]_vars
  PROVE  AlarmInv'
<1>0. StoreInv /\ RequestTypes /\ RequestsBound
  BY DEF RequestInv
<1>1. ASSUME NEW j \in Jobs, row[j].verification = "FAILED"
      PROVE  Excused(j)'
  <2>1. j \in Rows
    BY <1>1 DEF Rows, HasRow, NoRow
  <2>2. Excused(j)
    BY <1>1 DEF AlarmInv, AlarmsJustified, Excused
  <2> QED
    BY <2>1, <2>2, ExcuseKept
<1>2. ASSUME NEW r \in Requests, RequestStep(r)
      PROVE  AlarmsPending'
  <2>1. OthersKept(r) /\ OwnStep(r)
    BY <1>0, <1>2, RequestLocals
  <2>2. ASSUME NEW q \in Requests \ {r},
               rpc'[q] = "mark" \/ (rpc'[q] = "record" /\ verdict'[q] = "FAILED")
        PROVE  Excused(rjob[q])' /\ rjob'[q] = rjob[q]
    <3>1. /\ rpc'[q] = rpc[q] /\ rjob'[q] = rjob[q] /\ verdict'[q] = verdict[q]
      BY <2>1 DEF OthersKept
    <3>2. rjob[q] \in Rows
      BY <1>0, <2>2, <3>1 DEF RequestsBound, WithSnapshot
    <3>3. Excused(rjob[q])
      BY <2>2, <3>1 DEF AlarmInv, AlarmsPending
    <3>4. PICK j \in Rows : j = rjob[q]
      BY <3>2
    <3>5. Excused(j)'
      BY <3>3, <3>4, ExcuseKept
    <3> QED
      BY <3>1, <3>4, <3>5 DEF Excused
  <2>3. ASSUME rpc'[r] = "mark" \/ (rpc'[r] = "record" /\ verdict'[r] = "FAILED")
        PROVE  Excused(rjob[r])'
    <3>1. PICK j \in Rows : j = rjob'[r] /\ (~Verified(j) \/ j \in misread')
      BY <1>0, <2>1, <2>3 DEF OwnStep, Ended, RequestsBound, WithSnapshot
    <3>2. CASE j \in misread'
      BY <3>1, <3>2 DEF Excused
    <3>3. CASE ~Verified(j)
      <4>1. row[j].dir \in touched
        BY <1>0, <3>3, RejectedIsTouched
      <4>2. Excused(j)'
        BY <4>1, ExcuseKept DEF Excused
      <4> QED
        BY <3>1, <4>2 DEF Excused
    <3> QED
      BY <3>1, <3>2, <3>3
  <2> QED
    BY <2>2, <2>3 DEF AlarmsPending, Excused
<1>3. ASSUME UNCHANGED requestVars PROVE AlarmsPending'
  <2>1. ASSUME NEW q \in Requests,
               rpc[q] = "mark" \/ (rpc[q] = "record" /\ verdict[q] = "FAILED")
        PROVE  \E j \in Rows : j = rjob[q] /\ Excused(j)'
    <3>1. rjob[q] \in Rows
      BY <1>0, <2>1 DEF RequestsBound, WithSnapshot
    <3>2. PICK j \in Rows : j = rjob[q]
      BY <3>1
    <3>3. Excused(j)
      BY <2>1, <3>2 DEF AlarmInv, AlarmsPending
    <3> QED
      BY <3>2, <3>3, ExcuseKept
  <2> QED
    BY <1>3, <2>1 DEF AlarmsPending, Excused, requestVars
<1>4. ASSUME CrashAll PROVE AlarmsPending'
  BY <1>4 DEF CrashAll, AlarmsPending
<1>5. AlarmsPending'
  BY <1>2, <1>3, <1>4 DEF Next, vars, libraryVars
<1>6. ASSUME NEW j \in Jobs, row'[j].verification = "FAILED"
      PROVE  Excused(j)'
  <2>1. CASE row' = row
    BY <1>1, <1>6, <2>1
  <2>2. CASE CommitSnapshot
    BY <1>0, <1>1, <1>6, <2>2, CommitAdds
  <2>3. ASSUME NEW r \in Requests, RequestStep(r), row' # row
        PROVE  Excused(j)'
    <3>1. PICK i \in Rows, v \in {"VERIFIED", "FAILED"} :
            /\ i = rjob[r] /\ Relabels(i, v) /\ rpc[r] \in {"mark", "record"}
            /\ v = "FAILED" => \/ rpc[r] = "mark"
                               \/ rpc[r] = "record" /\ verdict[r] = "FAILED"
      <4>1. rpc[r] \in {"record", "mark"} => rjob[r] \in Rows
        BY <1>0 DEF RequestsBound, WithSnapshot
      <4>2. rpc[r] = "record" => verdict[r] \in {"VERIFIED", "FAILED"}
        BY <1>0 DEF RequestsBound, RequestTypes
      <4>3. ~UNCHANGED storeVars /\ ~Stumbles
        BY <2>3 DEF storeVars, dbVars, Stumbles
      <4> QED
        BY <2>3, <4>1, <4>2, <4>3, RequestMoves
    <3>2. /\ row'[i].verification = v
          /\ \A k \in Jobs \ {i} : row'[k] = row[k]
      BY <1>0, <3>1, RelabelledRows DEF Rows
    <3>3. CASE j # i
      BY <1>1, <1>6, <3>2, <3>3
    <3>4. CASE j = i
      <4>1. Excused(i)
        BY <1>6, <3>1, <3>2, <3>4 DEF AlarmInv, AlarmsPending
      <4> QED
        BY <3>4, <4>1, ExcuseKept
    <3> QED
      BY <3>3, <3>4
  <2>4. [StoreNext]_storeVars => row' = row \/ CommitSnapshot
    <3>1. MakeLocation \/ RenameArchive \/ RenameFails \/ OpenManifest
          \/ RenameManifest \/ CleanLocation \/ CleanLocationFails
          \/ CleanPartial \/ CleanPartialFails \/ Crash => row' = row
      BY DEF MakeLocation, RenameArchive, RenameFails, OpenManifest,
             RenameManifest, CleanLocation, CleanLocationFails, CleanPartial,
             CleanPartialFails, Crash, dbVars
    <3>2. (\E d \in Dirs : UserTouches(d)) => row' = row
      BY DEF UserTouches, dbVars
    <3> QED
      BY <3>1, <3>2, StoreMoves
  <2>5. \/ [StoreNext]_storeVars
        \/ \E r \in Requests : RequestStep(r)
    BY DEF Next, vars, CrashAll, StoreNext
  <2> QED
    BY <2>1, <2>2, <2>3, <2>4, <2>5
<1> QED
  BY <1>5, <1>6 DEF AlarmInv, AlarmsJustified, Excused

(* There is no alarm at the start. *)
LEMMA AlarmStart == LibraryInit => AlarmInv
  BY DEF LibraryInit, Init, IdleRequests, AlarmInv, AlarmsJustified,
         AlarmsPending, NoRow

(* However requests, executions and crashes interleave, SetSnapshotVerifi- *)
(* cation and Scan write FAILED only on a snapshot that the user changed   *)
(* or a check of which met an error of the drive.                          *)
THEOREM AlarmsAreJustified == Spec => []AlarmsJustified
<1>1. RequestInv /\ AlarmInv /\ [Next]_vars => RequestInv' /\ AlarmInv'
  BY RequestInvStep, AlarmStep
<1>2. AlarmInv => AlarmsJustified
  BY DEF AlarmInv
<1> QED
  BY <1>1, <1>2, RequestInvStart, AlarmStart, PTL DEF Spec

--------------------------------------------------------------------------------
(* Exports. *)

ExportTypes == exports \in [Jobs -> {"ABSENT", "OPEN", "DONE"}]

(* Without a mishap an open destination has a request that fills it. *)
OpenExports ==
  mishaps = 0 =>
    \A j \in Jobs : exports[j] = "OPEN" =>
      \E r \in Requests : rpc[r] = "extract" /\ rjob[r] = j

ExportInv == ExportTypes /\ ExportExclusive /\ OpenExports

(* What a step of a request does to the destinations of exports: nothing,  *)
(* or ExportMkdir makes one that was not there, or the request that made   *)
(* it finishes or removes it.                                              *)
LEMMA ExportMoves ==
  ASSUME RequestTypes, NEW r \in Requests, RequestStep(r)
  PROVE  \/ /\ exports' = exports /\ rpc'[r] # "extract"
            /\ rpc[r] # "extract" /\ mishaps' = mishaps
         \/ /\ exports' = exports /\ rpc'[r] # "extract" /\ mishaps' = mishaps + 1
         \/ /\ rpc[r] = "mkdir" /\ exports[rjob[r]] = "ABSENT"
            /\ exports' = [exports EXCEPT ![rjob[r]] = "OPEN"]
            /\ rpc'[r] = "extract" /\ rjob' = rjob /\ mishaps' = mishaps
         \/ /\ rpc[r] = "extract" /\ rpc'[r] # "extract" /\ mishaps' = mishaps
            /\ \E x \in {"ABSENT", "DONE"} :
                 exports' = [exports EXCEPT ![rjob[r]] = x]
<1> DEFINE Nothing == /\ exports' = exports /\ rpc'[r] # "extract"
                      /\ rpc[r] # "extract" /\ mishaps' = mishaps
<1>s. UNCHANGED storeVars \/ UNCHANGED auxVars => mishaps' = mishaps
  BY DEF storeVars, auxVars
<1>1. ASSUME NEW j \in Jobs, NEW step \in {"quick", "full", "lstat"},
             Begin(r, j, step)
      PROVE  Nothing
  BY <1>s, <1>1 DEF Begin, RequestTypes
<1>2. (\E j \in Jobs : BeginVerify(r, j) \/ BeginExport(r, j)) => Nothing
  BY <1>1 DEF BeginVerify, BeginExport
<1>3. (\E j \in Jobs : ScanItem(r, j)) => Nothing
  BY <1>s DEF ScanItem, RequestTypes
<1>4. CheckQuick(r) \/ FullVerifyFails(r) \/ OpenScratch(r) \/ ReadEntries(r)
      \/ CheckError(r) => Nothing
  BY <1>s DEF CheckQuick, FullVerifyFails, OpenScratch, ReadEntries, CheckError,
              Decide, RequestTypes
<1>5. SetSnapshotVerification(r) \/ ClientGone(r) \/ BeginScan(r)
      \/ ScanMarks(r) \/ ScanEnds(r) \/ ExportLstat(r) => Nothing
  BY <1>s DEF SetSnapshotVerification, ClientGone, BeginScan, ScanMarks,
              ScanEnds, ExportLstat, End, RequestTypes
<1>6. CASE ExportMkdir(r)
  BY <1>s, <1>6 DEF ExportMkdir, End, RequestTypes
<1>7. CASE ExportDone(r) \/ ExportFails(r)
  BY <1>s, <1>7 DEF ExportDone, ExportFails, End, RequestTypes
<1>8. CASE ExportStays(r)
  BY <1>8 DEF ExportStays, End, RequestTypes
<1> QED
  BY <1>2, <1>3, <1>4, <1>5, <1>6, <1>7, <1>8 DEF RequestStep

(* A step of the store counts mishaps upwards. *)
LEMMA MishapsGrow ==
  ASSUME StoreInv, [StoreNext]_storeVars
  PROVE  mishaps' = 0 => mishaps = 0
<1>1. mishaps \in Nat
  BY DEF StoreInv, StoreTypeOK
<1> QED
  BY <1>1, OrphanMoves

(* A crash is a mishap. *)
LEMMA CrashCounts ==
  ASSUME StoreInv, Crash
  PROVE  mishaps' # 0
<1>1. mishaps \in Nat /\ mishaps' = mishaps + 1
  BY DEF StoreInv, StoreTypeOK, Crash
<1> QED
  BY <1>1

(* Every step keeps the destinations exclusive. *)
LEMMA ExportStep ==
  ASSUME RequestInv, ExportInv, [Next]_vars
  PROVE  ExportInv'
<1>0. StoreInv /\ RequestTypes /\ RequestsBound /\ mishaps \in Nat
  BY DEF RequestInv, StoreInv, StoreTypeOK
<1>1. CASE [StoreNext]_storeVars /\ UNCHANGED libraryVars
  <2>1. UNCHANGED <<rpc, rjob, exports>>
    BY <1>1 DEF libraryVars, requestVars
  <2>2. mishaps' = 0 => mishaps = 0
    BY <1>0, <1>1, MishapsGrow
  <2> QED
    BY <2>1, <2>2 DEF ExportInv, ExportTypes, ExportExclusive, OpenExports
<1>2. CASE CrashAll
  <2>1. exports' = exports /\ mishaps' # 0 /\ \A r \in Requests : rpc'[r] = "idle"
    BY <1>0, <1>2, CrashCounts DEF CrashAll
  <2> QED
    BY <2>1 DEF ExportInv, ExportTypes, ExportExclusive, OpenExports
<1>3. ASSUME NEW r \in Requests, RequestStep(r)
      PROVE  ExportInv'
  <2>1. OthersKept(r) /\ OwnStep(r)
    BY <1>0, <1>3, RequestLocals
  <2>2. \A q \in Requests \ {r} : rpc'[q] = rpc[q] /\ rjob'[q] = rjob[q]
    BY <2>1 DEF OthersKept
  <2>3. rpc[r] \in {"mkdir", "extract"} => rjob[r] \in Jobs
    BY <1>0 DEF RequestsBound, WithSnapshot, Rows
  <2>4. /\ ExportTypes
        /\ \A q \in Requests : rpc[q] = "extract" =>
             /\ exports[rjob[q]] = "OPEN"
             /\ \A p \in Requests \ {q} : rpc[p] = "extract" => rjob[p] # rjob[q]
    BY DEF ExportInv, ExportExclusive
  <2>5. \A q \in Requests : rpc[q] = "extract" => rjob[q] \in Jobs
    BY <1>0 DEF RequestsBound, WithSnapshot, Rows
  <2>6. ASSUME exports' = exports, rpc'[r] # "extract",
               \/ rpc[r] # "extract" /\ mishaps' = mishaps
               \/ mishaps' = mishaps + 1
        PROVE  ExportInv'
    <3>1. ExportTypes'
      BY <2>4, <2>6 DEF ExportTypes
    <3>2. ExportExclusive'
      BY <2>2, <2>4, <2>6 DEF ExportExclusive
    <3>3. CASE mishaps' = mishaps + 1
      <4>1. mishaps' # 0
        BY <1>0, <3>3
      <4> QED
        BY <3>1, <3>2, <4>1 DEF ExportInv, OpenExports
    <3>4. CASE rpc[r] # "extract" /\ mishaps' = mishaps
      <4>1. OpenExports'
        BY <2>2, <2>6, <3>4 DEF ExportInv, OpenExports
      <4> QED
        BY <3>1, <3>2, <4>1 DEF ExportInv
    <3> QED
      BY <2>6, <3>3, <3>4
  <2>7. ASSUME rpc[r] = "mkdir", exports[rjob[r]] = "ABSENT",
               exports' = [exports EXCEPT ![rjob[r]] = "OPEN"],
               rpc'[r] = "extract", rjob' = rjob, mishaps' = mishaps
        PROVE  ExportInv'
    <3>1. PICK j \in Jobs : j = rjob[r]
      BY <2>3, <2>7
    <3>2. /\ exports'[j] = "OPEN" /\ exports[j] = "ABSENT"
          /\ \A k \in Jobs : k # j => exports'[k] = exports[k]
      BY <2>4, <2>7, <3>1 DEF ExportTypes
    <3>3. ExportTypes'
      BY <2>4, <2>7, <3>1 DEF ExportTypes
    <3>4. \A q \in Requests \ {r} : rpc[q] = "extract" => rjob[q] # j
      BY <2>4, <3>2
    <3>5. ExportExclusive'
      BY <2>2, <2>4, <2>5, <2>7, <3>1, <3>2, <3>4 DEF ExportExclusive
    <3>6. OpenExports'
      BY <2>2, <2>7, <3>1, <3>2 DEF ExportInv, OpenExports
    <3> QED
      BY <3>3, <3>5, <3>6 DEF ExportInv
  <2>8. ASSUME rpc[r] = "extract", rpc'[r] # "extract", mishaps' = mishaps,
               NEW x \in {"ABSENT", "DONE"},
               exports' = [exports EXCEPT ![rjob[r]] = x]
        PROVE  ExportInv'
    <3>1. PICK j \in Jobs : j = rjob[r]
      BY <2>3, <2>8
    <3>2. /\ exports'[j] # "OPEN"
          /\ \A k \in Jobs : k # j => exports'[k] = exports[k]
      BY <2>4, <2>8, <3>1 DEF ExportTypes
    <3>3. ExportTypes'
      BY <2>4, <2>8, <3>1 DEF ExportTypes
    <3>4. \A q \in Requests \ {r} : rpc[q] = "extract" => rjob[q] # j
      BY <2>4, <2>8, <3>1
    <3>5. ExportExclusive'
      BY <2>2, <2>4, <2>5, <2>8, <3>2, <3>4 DEF ExportExclusive
    <3>6. OpenExports'
      BY <2>2, <2>8, <3>1, <3>2 DEF ExportInv, OpenExports
    <3> QED
      BY <3>3, <3>5, <3>6 DEF ExportInv
  <2> QED
    BY <1>0, <1>3, <2>6, <2>7, <2>8, ExportMoves
<1>4. CASE UNCHANGED vars
  BY <1>1, <1>4 DEF vars
<1> QED
  BY <1>1, <1>2, <1>3, <1>4 DEF Next, StoreNext

(* No destination is there at the start. *)
LEMMA ExportStart == LibraryInit => ExportInv
  BY DEF LibraryInit, IdleRequests, ExportInv, ExportTypes, ExportExclusive,
         OpenExports

(* Requests and exports in every reachable state. *)
LEMMA ExportCorrect == Spec => [](RequestInv /\ ExportInv)
<1>1. RequestInv /\ ExportInv /\ [Next]_vars => RequestInv' /\ ExportInv'
  BY RequestInvStep, ExportStep
<1> QED
  BY <1>1, RequestInvStart, ExportStart, PTL DEF Spec

(* One request makes the destination of an export (Mkdir in ExportData),   *)
(* and only that one fills or removes it.                                  *)
THEOREM ExportsAreExclusive == Spec => []ExportExclusive
<1>1. ExportInv => ExportExclusive
  BY DEF ExportInv
<1> QED
  BY <1>1, ExportCorrect, PTL

(* A finished export is never removed or reopened: ExportData removes only *)
(* a directory it has made itself.                                         *)
THEOREM ExportsAreKept == Spec => ExportsKept
<1>1. ASSUME RequestInv, ExportInv, [Next]_vars, NEW j \in Jobs,
             exports[j] = "DONE"
      PROVE  exports'[j] = "DONE"
  <2>1. ASSUME NEW r \in Requests, RequestStep(r)
        PROVE  exports'[j] = "DONE"
    <3>1. rpc[r] = "extract" => exports[rjob[r]] = "OPEN"
      BY <1>1, <2>1 DEF ExportInv, ExportExclusive
    <3>2. RequestTypes /\ exports \in [Jobs -> {"ABSENT", "OPEN", "DONE"}]
      BY <1>1 DEF RequestInv, ExportInv, ExportTypes
    <3> QED
      BY <1>1, <2>1, <3>1, <3>2, ExportMoves
  <2> QED
    BY <1>1, <2>1 DEF Next, vars, libraryVars, CrashAll
<1>2. RequestInv /\ ExportInv /\ [Next]_vars
      => [\A j \in Jobs : exports[j] = "DONE" => exports'[j] = "DONE"]_vars
  BY <1>1
<1> QED
  BY <1>2, ExportCorrect, PTL DEF Spec, ExportsKept

--------------------------------------------------------------------------------
(* The storage page. *)

(* Requests that have a scratch directory open. *)
InScratch == {r \in Requests : rpc[r] = "entries"}

(* Scratch directories: one for each such request, and those that a crash  *)
(* has left.                                                               *)
ScratchCount ==
  /\ scratch \in Nat /\ IsFiniteSet(InScratch)
  /\ Cardinality(InScratch) <= scratch
  /\ mishaps = 0 => scratch = Cardinality(InScratch)

(* What FullVerify does to its scratch directory, request by request. *)
LEMMA ScratchMoves ==
  ASSUME RequestTypes, NEW r \in Requests, RequestStep(r)
  PROVE  /\ \/ scratch' = scratch /\ InScratch' = InScratch
            \/ /\ scratch' = scratch + 1 /\ r \notin InScratch
               /\ InScratch' = InScratch \cup {r}
            \/ /\ scratch' = scratch - 1 /\ r \in InScratch
               /\ InScratch' = InScratch \ {r}
         /\ mishaps' \in {mishaps, mishaps + 1}
<1>o. OthersKept(r)
  BY RequestLocals
<1>m. mishaps' \in {mishaps, mishaps + 1}
  BY ExportMoves
<1> DEFINE Nothing == scratch' = scratch /\ InScratch' = InScratch
<1>0. ASSUME scratch' = scratch, rpc[r] # "entries", rpc'[r] # "entries"
      PROVE  Nothing
  BY <1>0, <1>o DEF InScratch, OthersKept
<1>1. ASSUME NEW j \in Jobs, NEW step \in {"quick", "full", "lstat"},
             Begin(r, j, step)
      PROVE  Nothing
  BY <1>0, <1>1 DEF Begin, RequestTypes
<1>2. (\E j \in Jobs : BeginVerify(r, j) \/ BeginExport(r, j)) => Nothing
  BY <1>1 DEF BeginVerify, BeginExport
<1>3. (\E j \in Jobs : ScanItem(r, j)) => Nothing
  BY <1>0 DEF ScanItem, RequestTypes
<1>4. CheckQuick(r) \/ FullVerifyFails(r) => Nothing
  BY <1>0 DEF CheckQuick, FullVerifyFails, Decide, RequestTypes
<1>5. SetSnapshotVerification(r) \/ ClientGone(r) \/ BeginScan(r)
      \/ ScanMarks(r) \/ ScanEnds(r) \/ ExportLstat(r) => Nothing
  BY <1>0 DEF SetSnapshotVerification, ClientGone, BeginScan, ScanMarks,
              ScanEnds, ExportLstat, End, RequestTypes
<1>6. ExportMkdir(r) \/ ExportDone(r) \/ ExportFails(r) \/ ExportStays(r)
      => Nothing
  BY <1>0 DEF ExportMkdir, ExportDone, ExportFails, ExportStays, End,
              RequestTypes
<1>7. ASSUME rpc[r] = "entries", rpc'[r] = "record", scratch' = scratch - 1
      PROVE  /\ scratch' = scratch - 1 /\ r \in InScratch
             /\ InScratch' = InScratch \ {r}
  BY <1>7, <1>o DEF InScratch, OthersKept
<1>8. CASE ReadEntries(r)
  BY <1>7, <1>8, <1>m DEF ReadEntries, Decide, RequestTypes
<1>9. CASE CheckError(r)
  <2>1. CASE rpc[r] = "entries"
    BY <1>7, <1>9, <1>m, <2>1 DEF CheckError, Decide, RequestTypes
  <2>2. CASE rpc[r] # "entries"
    BY <1>0, <1>9, <1>m, <2>2 DEF CheckError, Decide, RequestTypes
  <2> QED
    BY <2>1, <2>2
<1>10. CASE OpenScratch(r)
  <2>1. rpc[r] = "full" /\ rpc'[r] = "entries" /\ scratch' = scratch + 1
    BY <1>10 DEF OpenScratch, RequestTypes
  <2> QED
    BY <1>o, <1>m, <2>1 DEF InScratch, OthersKept
<1> QED
  BY <1>2, <1>3, <1>4, <1>5, <1>6, <1>8, <1>9, <1>10, <1>m DEF RequestStep

(* Every step keeps the scratch directories counted. *)
LEMMA ScratchStep ==
  ASSUME RequestInv, ScratchCount, [Next]_vars
  PROVE  ScratchCount'
<1>0. StoreInv /\ RequestTypes /\ mishaps \in Nat
  BY DEF RequestInv, StoreInv, StoreTypeOK
<1>1. /\ scratch \in Nat /\ IsFiniteSet(InScratch)
      /\ Cardinality(InScratch) <= scratch /\ Cardinality(InScratch) \in Nat
      /\ mishaps = 0 => scratch = Cardinality(InScratch)
  BY FS_CardinalityType DEF ScratchCount
<1>2. CASE [StoreNext]_storeVars /\ UNCHANGED libraryVars
  <2>1. InScratch' = InScratch /\ scratch' = scratch
    BY <1>2 DEF libraryVars, requestVars, InScratch
  <2>2. mishaps' = 0 => mishaps = 0
    BY <1>0, <1>2, MishapsGrow
  <2> QED
    BY <1>1, <2>1, <2>2 DEF ScratchCount
<1>3. CASE CrashAll
  <2>1. InScratch' = {} /\ scratch' = scratch /\ mishaps' # 0
    BY <1>0, <1>3, CrashCounts DEF CrashAll, InScratch
  <2> QED
    BY <1>1, <2>1, FS_EmptySet DEF ScratchCount
<1>4. ASSUME NEW r \in Requests, RequestStep(r)
      PROVE  ScratchCount'
  <2>1. mishaps' \in {mishaps, mishaps + 1}
    BY <1>0, <1>4, ScratchMoves
  <2>2. mishaps' = 0 => mishaps = 0
    BY <1>0, <2>1
  <2>3. CASE scratch' = scratch /\ InScratch' = InScratch
    BY <1>1, <2>2, <2>3 DEF ScratchCount
  <2>4. CASE scratch' = scratch + 1 /\ r \notin InScratch
             /\ InScratch' = InScratch \cup {r}
    <3>1. /\ IsFiniteSet(InScratch')
          /\ Cardinality(InScratch') = Cardinality(InScratch) + 1
      BY <1>1, <2>4, FS_AddElement
    <3> QED
      BY <1>1, <2>2, <2>4, <3>1 DEF ScratchCount
  <2>5. CASE scratch' = scratch - 1 /\ r \in InScratch
             /\ InScratch' = InScratch \ {r}
    <3>1. /\ IsFiniteSet(InScratch')
          /\ Cardinality(InScratch') = Cardinality(InScratch) - 1
      BY <1>1, <2>5, FS_RemoveElement
    <3>2. Cardinality(InScratch') \in Nat
      BY <3>1, FS_CardinalityType
    <3>3. Cardinality(InScratch) >= 1
      BY <1>1, <3>1, <3>2
    <3> QED
      BY <1>1, <2>2, <2>5, <3>1, <3>3 DEF ScratchCount
  <2> QED
    BY <1>0, <1>4, <2>3, <2>4, <2>5, ScratchMoves
<1>5. CASE UNCHANGED vars
  BY <1>2, <1>5 DEF vars
<1> QED
  BY <1>2, <1>3, <1>4, <1>5 DEF Next, StoreNext

(* The table of snapshots: finitely many rows, no two of which name one    *)
(* directory that the user has left alone.                                 *)
RowsApart ==
  /\ IsFiniteSet(Rows)
  /\ \A i, j \in Rows :
       row[i].dir = row[j].dir => i = j \/ row[i].dir \in touched

(* Only a mishap cuts an execution short. *)
CutCount == mishaps = 0 => cut = {}

(* CommitSnapshot keeps the directories of rows apart. *)
LEMMA RowsApartStep ==
  ASSUME RequestInv, RowsApart, [Next]_vars
  PROVE  RowsApart'
<1>0. StoreInv /\ RequestTypes /\ RequestsBound
  BY DEF RequestInv
<1>1. touched \subseteq touched' /\ \A j \in Rows : row'[j].dir = row[j].dir
  BY <1>0, RowsKept
<1>2. ASSUME Rows' = Rows PROVE RowsApart'
  BY <1>1, <1>2 DEF RowsApart
<1>3. CASE row' = row
  BY <1>2, <1>3 DEF Rows, HasRow
<1>4. CASE \E j \in Rows, v \in {"VERIFIED", "FAILED"} : Relabels(j, v)
  <2>1. PICK j \in Rows, v \in {"VERIFIED", "FAILED"} : Relabels(j, v)
    BY <1>4
  <2>2. \A i \in Jobs : HasRow(i)' <=> HasRow(i)
    BY <1>0, <2>1, RelabelledRows DEF Rows
  <2>3. Rows' = Rows
    BY <2>2 DEF Rows
  <2> QED
    BY <1>2, <2>3
<1>5. CASE CommitSnapshot
  <2>1. /\ job \in Jobs /\ loc \in Dirs /\ touched' = touched
        /\ row'[job].dir = loc /\ Rows' = Rows \cup {job}
    BY <1>0, <1>5, CommitAdds
  <2>2. loc # NoDir
    BY <2>1, StoreAssumption
  <2>3. \A j \in Rows : row[j].dir = loc => loc \in touched
    BY <1>0, <2>2 DEF StoreInv, LocationState, Rows
  <2>4. IsFiniteSet(Rows')
    BY <2>1, FS_AddElement DEF RowsApart
  <2>5. ASSUME NEW i \in Rows', NEW j \in Rows', row'[i].dir = row'[j].dir
        PROVE  i = j \/ row'[i].dir \in touched'
    BY <1>1, <2>1, <2>3, <2>5 DEF RowsApart
  <2> QED
    BY <2>4, <2>5 DEF RowsApart
<1> QED
  BY <1>0, <1>3, <1>4, <1>5, RowMoves

(* The steps that cut an execution short are counted. *)
LEMMA CutStep ==
  ASSUME RequestInv, CutCount, [Next]_vars
  PROVE  CutCount'
<1>0. StoreInv /\ RequestTypes /\ RequestsBound /\ mishaps \in Nat
  BY DEF RequestInv, StoreInv, StoreTypeOK
<1>1. ASSUME cut' \subseteq cut, mishaps' = mishaps PROVE CutCount'
  BY <1>1 DEF CutCount
<1>2. ASSUME mishaps' = mishaps + 1 PROVE CutCount'
  BY <1>0, <1>2 DEF CutCount
<1>3. UNCHANGED <<row, store, loc, touched, cut, mishaps>> => CutCount'
  BY <1>1
<1>4. MakeLocation \/ RenameArchive \/ OpenManifest \/ RenameManifest
      \/ CommitSnapshot \/ CleanLocation \/ CleanPartial
      \/ (\E d \in Dirs : UserTouches(d))
      => cut' \subseteq cut /\ mishaps' = mishaps
  BY DEF MakeLocation, RenameArchive, OpenManifest, RenameManifest,
         CommitSnapshot, CleanLocation, CleanPartial, UserTouches, auxVars
<1>5. CleanLocationFails \/ CleanPartialFails \/ Crash \/ Stumbles
      => mishaps' = mishaps + 1
  BY DEF CleanLocationFails, CleanPartialFails, Crash, Stumbles
<1>6. RenameFails => cut' = cut /\ (mishaps' = mishaps \/ mishaps' = mishaps + 1)
  BY DEF RenameFails
<1>7. (\E j \in Rows, v \in {"VERIFIED", "FAILED"} : Relabels(j, v))
      => cut' = cut /\ mishaps' = mishaps
  BY DEF Relabels, auxVars
<1> QED
  BY <1>0, <1>1, <1>2, <1>3, <1>4, <1>5, <1>6, <1>7, LibraryMoves, StoreMoves

(* Requests make no orphans. *)
LEMMA LibraryOrphanStep ==
  ASSUME RequestInv, OrphanCount, [Next]_vars
  PROVE  OrphanCount'
<1>0. StoreInv /\ RequestTypes /\ RequestsBound /\ mishaps \in Nat
  BY DEF RequestInv, StoreInv, StoreTypeOK
<1>1. ASSUME NEW j \in Rows, NEW v \in {"VERIFIED", "FAILED"}, Relabels(j, v)
      PROVE  OrphanCount'
  <2>1. \A i \in Jobs : row'[i].dir = row[i].dir
    BY <1>0, <1>1, RelabelledRows DEF Rows
  <2>2. UNCHANGED <<store, loc, mishaps>>
    BY <1>1 DEF Relabels, auxVars
  <2>3. Orphans' = Orphans
    BY <2>1, <2>2 DEF Orphans
  <2> QED
    BY <2>2, <2>3 DEF OrphanCount, OrphansBounded
<1>2. ASSUME Stumbles PROVE OrphanCount'
  <2>1. UNCHANGED <<row, store, loc>> /\ mishaps' = mishaps + 1
    BY <1>2 DEF Stumbles, dbVars
  <2>2. Orphans' = Orphans
    BY <2>1 DEF Orphans
  <2>3. Cardinality(Orphans) \in Nat
    BY FS_CardinalityType DEF OrphanCount
  <2>4. Cardinality(Orphans) <= mishaps'
    BY <1>0, <2>1, <2>3 DEF OrphanCount, OrphansBounded
  <2> QED
    BY <2>2, <2>4 DEF OrphanCount, OrphansBounded
<1> QED
  BY <1>0, <1>1, <1>2, LibraryMoves, OrphanStep

(* All that the storage page counts. *)
PageInv ==
  /\ RequestInv /\ ExportInv /\ ScratchCount /\ RowsApart /\ CutCount
  /\ OrphanCount

(* No step breaks it. *)
LEMMA PageStep ==
  ASSUME PageInv, [Next]_vars
  PROVE  PageInv'
  BY RequestInvStep, ExportStep, ScratchStep, RowsApartStep, CutStep,
     LibraryOrphanStep DEF PageInv

(* An empty library has nothing to count. *)
LEMMA PageStart == LibraryInit => PageInv
<1> SUFFICES ASSUME LibraryInit PROVE PageInv
  OBVIOUS
<1>1. InScratch = {} /\ Rows = {} /\ cut = {} /\ scratch = 0
  BY DEF LibraryInit, IdleRequests, Init, InScratch, Rows, HasRow
<1>2. ScratchCount
  BY <1>1, FS_EmptySet DEF ScratchCount
<1>3. RowsApart
  BY <1>1, FS_EmptySet DEF RowsApart
<1> QED
  BY <1>1, <1>2, <1>3, RequestInvStart, ExportStart, OrphanStart
  DEF PageInv, CutCount, LibraryInit

(* The archives of a quiet library are those its rows name, one each. *)
LEMMA QuietArchives ==
  ASSUME PageInv, mishaps = 0, touches = 0, pc = "idle"
  PROVE  /\ \A j \in Rows : store[row[j].dir].there
         /\ Cardinality({d \in Dirs : store[d].zip # NoFile}) = Cardinality(Rows)
<1> DEFINE Archives == {d \in Dirs : store[d].zip # NoFile}
           Dir == [j \in Rows |-> row[j].dir]
<1>0. StoreInv /\ RowsApart /\ OrphanCount
  BY DEF PageInv, RequestInv
<1>1. touched = {} /\ loc = NoDir
  <2>1. touched # {} => touches > 0
    BY <1>0 DEF StoreInv, EngineLocals
  <2> QED
    BY <1>0, <2>1 DEF StoreInv, EngineLocals, AtLocation
<1>2. ASSUME NEW j \in Rows
      PROVE  /\ row[j].dir \in Archives /\ store[row[j].dir].there
  <2>1. /\ HasRow(j) /\ j \in Jobs /\ execs \in Nat
        /\ row[j].digest \in 1 .. execs /\ row[j].dir \in Dirs
    BY <1>0 DEF Rows, StoreInv, StoreTypeOK, JobRows, Dirs
  <2>2. Contents(row[j].dir, row[j].digest, row[j].digest, FALSE)
    BY <1>0, <1>1, <2>1 DEF StoreInv, SnapshotsComplete
  <2>3. row[j].digest # NoFile
    BY <2>1 DEF NoFile
  <2> QED
    BY <2>1, <2>2, <2>3 DEF Contents
<1>3. Orphans = {}
  <2>1. IsFiniteSet(Orphans) /\ Cardinality(Orphans) <= 0
    BY <1>0 DEF OrphanCount, OrphansBounded
  <2>2. Cardinality(Orphans) \in Nat
    BY <2>1, FS_CardinalityType
  <2>3. Cardinality(Orphans) = 0
    BY <2>1, <2>2
  <2> QED
    BY <2>1, <2>3, FS_EmptySet
<1>4. ASSUME NEW d \in Archives
      PROVE  \E j \in Rows : row[j].dir = d
  <2>1. d \in Dirs /\ store[d].there
    BY <1>0 DEF StoreInv, NamesUsed, Absent
  <2>2. d # loc
    BY <1>1, <2>1, StoreAssumption
  <2>3. PICK j \in Jobs : row[j].dir = d
    BY <1>3, <2>1, <2>2 DEF Orphans
  <2>4. j \in Rows
    BY <2>1, <2>3, StoreAssumption DEF Rows, HasRow, NoRow
  <2> QED
    BY <2>3, <2>4
<1>5. \A i, j \in Rows : Dir[i] = Dir[j] => i = j
  BY <1>0, <1>1 DEF RowsApart
<1>6. Dir \in [Rows -> Archives]
  BY <1>2
<1>7. \A d \in Archives : \E j \in Rows : Dir[j] = d
  BY <1>4
<1> HIDE DEF Archives, Dir
<1>8. Dir \in Bijection(Rows, Archives)
  BY <1>5, <1>6, <1>7 DEF Bijection, Injection, Surjection, IsInjective
<1>9. ExistsBijection(Rows, Archives)
  BY <1>8 DEF ExistsBijection
<1>10. Cardinality(Archives) = Cardinality(Rows)
  BY <1>0, <1>9, FS_Bijection DEF RowsApart
<1> QED
  BY <1>2, <1>10 DEF Archives

(* Nothing temporary is left in a quiet library. *)
LEMMA QuietPartials ==
  ASSUME PageInv, mishaps = 0, pc = "idle", rpc = [r \in Requests |-> "idle"]
  PROVE  /\ {j \in Jobs : partial[j].there} = {} /\ scratch = 0
         /\ \A j \in Jobs : exports[j] # "OPEN"
<1>1. \A j \in Jobs : partial[j] = NoPartial
  BY DEF PageInv, CutCount, RequestInv, StoreInv, LeftoversExplained, Executing
<1>2. InScratch = {}
  BY DEF InScratch
<1>3. scratch = 0
  BY <1>2, FS_EmptySet DEF PageInv, ScratchCount
<1>4. \A j \in Jobs : exports[j] # "OPEN"
  BY DEF PageInv, ExportInv, OpenExports
<1> QED
  BY <1>1, <1>3, <1>4 DEF NoPartial

(* Without crashes, failed removals and changes by the user the storage    *)
(* page at rest (Service.Summary, Store.Usage) shows the archives of the   *)
(* snapshots and the files of that name in finished exports, and nothing   *)
(* missing, temporary or half exported.                                    *)
THEOREM QuietSummaryHolds == Spec => []QuietSummary
<1>1. ASSUME PageInv PROVE QuietSummary
  <2>1. SUFFICES ASSUME mishaps = 0, touches = 0, pc = "idle",
                        rpc = [r \in Requests |-> "idle"]
                 PROVE  /\ \A written \in SUBSET Nested("OPEN") :
                             Summary(written) =
                               [snapshots |-> Cardinality(Rows), missing |-> 0,
                                archives |-> Cardinality(Rows)
                                               + Cardinality(Nested("DONE")),
                                partials |-> 0]
                        /\ \A j \in Jobs : exports[j] # "OPEN"
    BY DEF QuietSummary
  <2>2. /\ {j \in Jobs : partial[j].there} = {} /\ scratch = 0
        /\ \A j \in Jobs : exports[j] # "OPEN"
    BY <1>1, <2>1, QuietPartials
  <2>3. /\ {j \in Rows : ~store[row[j].dir].there} = {}
        /\ Cardinality({d \in Dirs : store[d].zip # NoFile}) = Cardinality(Rows)
    BY <1>1, <2>1, QuietArchives
  <2>4. Cardinality({}) = 0
    BY FS_EmptySet
  <2>5. Cardinality({j \in Rows : ~store[row[j].dir].there}) = 0
    BY <2>3, <2>4, Zenon
  <2>6. Cardinality({j \in Jobs : partial[j].there}) = 0
    BY <2>2, <2>4, Zenon
  <2>7. Nested("OPEN") = {}
    BY <2>2, NestedAssumption DEF NestedAssumption, Nested
  <2>8. ASSUME NEW written \in SUBSET Nested("OPEN")
        PROVE  Summary(written) =
                 [snapshots |-> Cardinality(Rows), missing |-> 0,
                  archives |-> Cardinality(Rows) + Cardinality(Nested("DONE")),
                  partials |-> 0]
    <3> DEFINE Missing == Cardinality({j \in Rows : ~store[row[j].dir].there})
               Archives == Cardinality({d \in Dirs : store[d].zip # NoFile})
               Partials == Cardinality({j \in Jobs : partial[j].there})
               Copies == Cardinality(Nested("DONE") \cup written)
    <3>1. Summary(written) =
            [snapshots |-> Cardinality(Rows), missing |-> Missing,
             archives |-> Archives + Copies, partials |-> Partials + scratch]
      BY DEF Summary
    <3>2. Nested("DONE") \cup written = Nested("DONE")
      BY <2>7
    <3>3. Copies = Cardinality(Nested("DONE"))
      BY <3>2, Zenon
    <3>4. /\ Missing = 0 /\ Archives = Cardinality(Rows)
          /\ Partials = 0 /\ scratch = 0
      BY <2>2, <2>3, <2>5, <2>6
    <3> HIDE DEF Missing, Archives, Partials, Copies
    <3> QED
      BY <3>1, <3>3, <3>4
  <2> QED
    BY <2>2, <2>8
<1>2. PageInv /\ [Next]_vars => PageInv'
  BY PageStep
<1> QED
  BY <1>1, <1>2, PageStart, PTL DEF Spec

(* The library is well typed in every reachable state; in particular no    *)
(* scratch directory is removed twice (FullVerify).                        *)
THEOREM LibraryTypeCorrect == Spec => []TypeOK
<1> DEFINE Misread == misread \in SUBSET Jobs
<1>1. LibraryInit => Misread
  BY DEF LibraryInit
<1>2. ASSUME PageInv, Misread, [Next]_vars PROVE Misread'
  <2>0. RequestTypes /\ RequestsBound
    BY <1>2 DEF PageInv, RequestInv
  <2>1. ASSUME NEW r \in Requests, RequestStep(r)
        PROVE  Misread'
    <3>1. rpc[r] \in {"quick", "full", "entries"} => rjob[r] \in Jobs
      BY <2>0, <2>1 DEF RequestsBound, WithSnapshot, Rows
    <3>2. ASSUME NEW j \in Jobs, ScanItem(r, j) PROVE Misread'
      BY <1>2, <3>2 DEF ScanItem
    <3>3. CheckError(r) => Misread'
      BY <1>2, <3>1 DEF CheckError
    <3>4. (\E j \in Jobs : BeginVerify(r, j) \/ BeginExport(r, j))
          => misread' = misread
      BY DEF BeginVerify, BeginExport, Begin
    <3>5. CheckQuick(r) \/ FullVerifyFails(r) \/ OpenScratch(r)
          \/ ReadEntries(r) => misread' = misread
      BY DEF CheckQuick, FullVerifyFails, OpenScratch, ReadEntries
    <3>6. SetSnapshotVerification(r) \/ ClientGone(r) \/ BeginScan(r)
          \/ ScanMarks(r) \/ ScanEnds(r) => misread' = misread
      BY DEF SetSnapshotVerification, ClientGone, BeginScan, ScanMarks, ScanEnds
    <3>7. ExportLstat(r) \/ ExportMkdir(r) \/ ExportDone(r) \/ ExportFails(r)
          \/ ExportStays(r) => misread' = misread
      BY DEF ExportLstat, ExportMkdir, ExportDone, ExportFails, ExportStays
    <3>8. misread' = misread => Misread'
      BY <1>2
    <3> QED
      BY <2>1, <3>2, <3>3, <3>4, <3>5, <3>6, <3>7, <3>8 DEF RequestStep
  <2>2. UNCHANGED misread => Misread'
    BY <1>2
  <2> QED
    BY <1>2, <2>1, <2>2 DEF Next, vars, libraryVars, CrashAll
<1>3. PageInv /\ Misread => TypeOK
  BY DEF PageInv, RequestInv, StoreInv, RequestTypes, RequestSteps, ExportInv,
         ExportTypes, ScratchCount, TypeOK
<1>4. PageInv /\ [Next]_vars => PageInv'
  BY PageStep
<1> HIDE DEF Misread
<1> QED
  BY <1>1, <1>2, <1>3, <1>4, PageStart, PTL DEF Spec

(* Requests of the library break no promise of the store: with them too,   *)
(* snapshots appear whole and once, and only the user spoils them.         *)
THEOREM LibraryKeepsPromise == Spec => PromiseKept
<1>1. ASSUME RequestInv, [Next]_vars
      PROVE  [Promise!Next]_<<Library, touches>>
  <2>0. StoreInv /\ RequestTypes /\ RequestsBound
    BY <1>1 DEF RequestInv
  <2>1. ASSUME NEW j \in Rows, NEW v \in {"VERIFIED", "FAILED"}, Relabels(j, v)
        PROVE  UNCHANGED <<Library, touches>>
    <3>1. \A i \in Jobs : /\ row'[i].dir = row[i].dir
                          /\ row'[i].digest = row[i].digest
                          /\ HasRow(i)' <=> HasRow(i)
      BY <2>0, <2>1, RelabelledRows DEF Rows
    <3>2. store' = store /\ touches' = touches
      BY <2>1 DEF Relabels, auxVars
    <3>3. \A i \in Jobs : Shown(i)' = Shown(i)
      BY <3>1, <3>2 DEF Shown, Verified, QuickVerify
    <3> QED
      BY <3>2, <3>3 DEF Library
  <2>2. Stumbles => UNCHANGED <<row, store, touches>>
    BY DEF Stumbles, dbVars
  <2> QED
    BY <1>1, <2>0, <2>1, <2>2, LibraryMoves, PromiseStep, SameStore
<1>2. LibraryInit => Promise!Init
  BY PromiseStart DEF LibraryInit
<1>3. RequestInv /\ [Next]_vars => RequestInv'
  BY RequestInvStep
<1> QED
  BY <1>1, <1>2, <1>3, RequestInvStart, PTL
  DEF Spec, PromiseKept, Promise!Spec
================================================================================
