--------------------------- MODULE BackupQueueProofs ---------------------------
(***************************************************************************)
(* Proofs about BackupQueue for every set of tasks, batches, instances and *)
(* workers, and every bound.                                               *)
(***************************************************************************)
EXTENDS BackupQueue, FiniteSetTheorems, TLAPS

USE DEF dbVars, leaseVars, workerVars, expansionVars, cancelVars, processVars,
        envVars

--------------------------------------------------------------------------------
(* Type correctness *)

(* A count of task rows is a natural number. *)
LEMMA CountInNat ==
  ASSUME NEW b, NEW S, NEW ts
  PROVE  CountIn(b, S, ts) \in Nat
<1>1. IsFiniteSet(Tasks)
  BY QueueAssumption
<1>2. IsFiniteSet({t \in Tasks : BatchOf[t] = b /\ ts[t] \in S})
  BY <1>1, FS_Subset
<1> QED
  BY <1>2, FS_CardinalityType DEF CountIn

(* refreshBatch writes a well-formed batch row, whatever the task rows. *)
LEMMA RefreshedRow ==
  ASSUME NEW b, NEW ts
  PROVE  refreshBatch(b, ts) \in BatchRows
<1>1. /\ CountIn(b, {"SUCCEEDED"}, ts) \in Nat
      /\ CountIn(b, FailedStatuses, ts) \in Nat
      /\ CountIn(b, {"SKIPPED"}, ts) \in Nat
      /\ CountIn(b, ActiveStatuses, ts) \in Nat
      /\ CountIn(b, {"QUEUED"}, ts) \in Nat
  BY CountInNat
<1> QED
  BY <1>1 DEF refreshBatch, BatchRows, BatchStatuses

(* Closing the RUNNING attempts keeps the journal's length and its type. *)
LEMMA ClosedAttempts ==
  ASSUME NEW log \in Seq(AttemptStatuses), NEW s \in AttemptStatuses
  PROVE  /\ CloseAttempts(log, s) \in Seq(AttemptStatuses)
         /\ Len(CloseAttempts(log, s)) = Len(log)
         /\ \A i \in 1..Len(log) : CloseAttempts(log, s)[i] =
              IF log[i] = "RUNNING" THEN s ELSE log[i]
  BY DEF CloseAttempts


(* What every action that refreshes batch b leaves in batchRow. *)
LEMMA RefreshType ==
  ASSUME TypeOK, NEW b, Refresh(b)
  PROVE  batchRow' \in [Batches -> BatchRows]
  BY RefreshedRow DEF TypeOK, Refresh

(* What closing the attempts of a task leaves in attemptLog. *)
LEMMA ClosedJournal ==
  ASSUME attemptLog \in [Tasks -> Seq(AttemptStatuses)],
         NEW t, NEW s \in AttemptStatuses
  PROVE  [attemptLog EXCEPT ![t] = CloseAttempts(attemptLog[t], s)]
           \in [Tasks -> Seq(AttemptStatuses)]
<1>1. ASSUME t \in Tasks
      PROVE  CloseAttempts(attemptLog[t], s) \in Seq(AttemptStatuses)
  BY <1>1, ClosedAttempts
<1> QED
  BY <1>1

(* What pausing or editing the plan leaves in the rows. *)
LEMMA ClosedPlan ==
  ASSUME TypeOK, NEW status \in TaskStatuses, ClosePlanQueue(status)
  PROVE  /\ taskStatus' \in [Tasks -> TaskStatuses]
         /\ jobStatus' \in [Tasks -> JobStatuses]
<1>1. taskStatus' \in [Tasks -> TaskStatuses]
  BY DEF TypeOK, ClosePlanQueue
<1>2. jobStatus' \in [Tasks -> JobStatuses]
  BY DEF TypeOK, ClosePlanQueue, JobStatuses
<1> QED
  BY <1>1, <1>2

(* The rows after the end of a lease. *)
LEMMA TypeCloseLease ==
  ASSUME TypeOK, NEW w \in Workers, NEW status \in TaskStatuses,
         NEW attempt \in AttemptStatuses, CloseLease(w, status, attempt)
  PROVE  /\ taskStatus' \in [Tasks -> TaskStatuses]
         /\ leaseToken' \in [Tasks -> Nat]
         /\ leaseExpired' \in [Tasks -> BOOLEAN]
         /\ attemptLog' \in [Tasks -> Seq(AttemptStatuses)]
         /\ batchRow' \in [Batches -> BatchRows]
<1>1. batchRow' \in [Batches -> BatchRows]
  BY RefreshType DEF CloseLease
<1>2. attemptLog' \in [Tasks -> Seq(AttemptStatuses)]
  BY ClosedJournal DEF TypeOK, CloseLease
<1> QED
  BY <1>1, <1>2 DEF TypeOK, CloseLease

(* The memory of the process after a worker lets go of its task. *)
LEMMA TypeRelease ==
  ASSUME TypeOK, NEW w \in Workers, Release(w)
  PROVE  /\ pc' \in [Workers -> WorkerPcs]
         /\ held' \in [Workers -> Tasks \cup {NoTask}]
         /\ token' \in [Workers -> Nat]
         /\ code' \in [Workers -> Codes \cup {"NONE", "OK"}]
         /\ ctxDone' \in [Workers -> BOOLEAN]
         /\ cancelByID' \in [Tasks -> Workers \cup {NoWorker}]
  BY DEF TypeOK, Release, WorkerPcs

(* Ending a task, whether or not the lease is still held, keeps TypeOK. *)
LEMMA TypeEndTask ==
  ASSUME TypeOK, NEW w \in Workers, NEW status, EndTask(w, status),
         status \in TaskStatuses, status \in AttemptStatuses
  PROVE  TypeOK'
<1>1. CASE HoldsLease(w)
  <2>1. CloseLease(w, status, status) /\ UNCHANGED available
    BY <1>1 DEF EndTask
  <2> QED
    BY <2>1, TypeCloseLease, TypeRelease DEF EndTask, TypeOK
<1>2. CASE ~HoldsLease(w)
  <2>1. UNCHANGED <<taskStatus, leaseVars, batchRow>>
    BY <1>2 DEF EndTask
  <2> QED
    BY <2>1, TypeRelease DEF EndTask, TypeOK
<1> QED
  BY <1>1, <1>2

(* Every action keeps TypeOK. *)
LEMMA TypeOKStep ==
  ASSUME TypeOK, Next
  PROVE  TypeOK'
<1>1. ASSUME NEW b \in Batches, CreateBatch(b)
      PROVE  TypeOK'
  <2>1. EmptyRow("QUEUED") \in BatchRows
    BY DEF EmptyRow, BatchRows, BatchStatuses
  <2>2. batchRow' \in [Batches -> BatchRows]
    BY <1>1, <2>1 DEF TypeOK, Phases, CreateBatch
  <2>3. remaining' \in [Batches -> SUBSET Tasks]
    BY <1>1 DEF TypeOK, Phases, CreateBatch
  <2> QED
    BY <1>1, <2>2, <2>3 DEF TypeOK, Phases, CreateBatch
<1>2. ASSUME NEW b \in Batches, ScopesValid(b)
      PROVE  TypeOK'
  BY <1>2 DEF TypeOK, Phases, ScopesValid
<1>3. ASSUME NEW b \in Batches, ScopeInvalid(b)
      PROVE  TypeOK'
  BY <1>3, ClosedPlan DEF TypeOK, Phases, ScopeInvalid, PausePlanForScope,
    TaskStatuses, TerminalStatuses
<1>4. ASSUME NEW b \in Batches, ExpansionFails(b)
      PROVE  TypeOK'
  BY <1>4 DEF TypeOK, Phases, ExpansionFails
<1>5. ASSUME NEW b \in Batches, ExpansionEnds(b)
      PROVE  TypeOK'
  BY <1>5 DEF TypeOK, Phases, ExpansionEnds
<1>6. ASSUME NEW b \in Batches, NEW t \in Tasks, SkipTarget(b, t)
      PROVE  TypeOK'
  BY <1>6, RefreshType DEF TypeOK, SkipTarget, recordSkipped, TaskStatuses,
    TerminalStatuses
<1>7. ASSUME NEW b \in Batches, NEW t \in Tasks, SkipBusyTarget(b, t)
      PROVE  TypeOK'
  BY <1>7, RefreshType DEF TypeOK, SkipBusyTarget, recordSkipped,
    TaskStatuses, TerminalStatuses
<1>8. ASSUME NEW b \in Batches, NEW t \in Tasks, CreateBackupJob(b, t)
      PROVE  TypeOK'
  BY <1>8 DEF TypeOK, Phases, CreateBackupJob, JobStatuses
<1>9. ASSUME NEW b \in Batches, NEW t \in Tasks, AddTask(b, t)
      PROVE  TypeOK'
  BY <1>9, RefreshType DEF TypeOK, Phases, AddTask, Adding, TaskStatuses
<1>10. ASSUME NEW b \in Batches, NEW t \in Tasks, AddTaskFails(b, t)
       PROVE  TypeOK'
  BY <1>10 DEF TypeOK, Phases, AddTaskFails, Adding, JobStatuses
<1>11. ASSUME NEW w \in Workers, BeginRequeue(w)
       PROVE  TypeOK'
  BY <1>11 DEF TypeOK, BeginRequeue, WorkerPcs
<1>12. ASSUME NEW w \in Workers, RequeueExpiredTasks(w)
       PROVE  TypeOK'
  <2>1. batchRow' \in [Batches -> BatchRows]
    BY <1>12, RefreshedRow DEF TypeOK, RequeueExpiredTasks
  <2>2. attemptLog' \in [Tasks -> Seq(AttemptStatuses)]
    BY <1>12, ClosedAttempts DEF TypeOK, RequeueExpiredTasks, AttemptStatuses
  <2> QED
    BY <1>12, <2>1, <2>2 DEF TypeOK, RequeueExpiredTasks, WorkerPcs,
       TaskStatuses, JobStatuses
<1>13. ASSUME NEW w \in Workers, NEW t \in Tasks, ClaimNextTask(w, t)
       PROVE  TypeOK'
  BY <1>13, RefreshType DEF TypeOK, ClaimNextTask, WorkerPcs, TaskStatuses,
    ActiveStatuses, AttemptStatuses
<1>14. ASSUME NEW w \in Workers, RegisterCancel(w)
       PROVE  TypeOK'
  BY <1>14 DEF TypeOK, RegisterCancel, WorkerPcs
<1>15. ASSUME NEW w \in Workers, SetTaskStatus(w)
       PROVE  TypeOK'
  BY <1>15 DEF TypeOK, SetTaskStatus, WorkerPcs, TaskStatuses, ActiveStatuses
<1>16. ASSUME NEW w \in Workers, StartBackupJob(w)
       PROVE  TypeOK'
  BY <1>16 DEF TypeOK, StartBackupJob, WorkerPcs, JobStatuses, Codes
<1>17. ASSUME NEW w \in Workers, NEW c \in Codes, ExecuteFails(w, c)
       PROVE  TypeOK'
  BY <1>17 DEF TypeOK, ExecuteFails, WorkerPcs, JobStatuses, Codes
<1>18. ASSUME NEW w \in Workers, CommitSnapshot(w)
       PROVE  TypeOK'
  BY <1>18 DEF TypeOK, CommitSnapshot, WorkerPcs, JobStatuses, Codes
<1>19. ASSUME NEW w \in Workers, PauseAfterScopeFailure(w)
       PROVE  TypeOK'
  BY <1>19, ClosedPlan DEF TypeOK, PauseAfterScopeFailure, PausePlanForScope,
    TaskStatuses, TerminalStatuses, Codes
<1>20. ASSUME NEW w \in Workers, FinishCancelled(w)
       PROVE  TypeOK'
  BY <1>20, TypeEndTask DEF FinishCancelled, TaskStatuses, TerminalStatuses,
    FailedStatuses, AttemptStatuses
<1>21. ASSUME NEW w \in Workers, CompleteTask(w)
       PROVE  TypeOK'
  BY <1>21, TypeEndTask DEF CompleteTask, TaskStatuses, TerminalStatuses,
    AttemptStatuses
<1>22. ASSUME NEW w \in Workers, FinishTaskFailure(w)
       PROVE  TypeOK'
  BY <1>22, TypeEndTask DEF FinishTaskFailure, TaskStatuses, TerminalStatuses,
    FailedStatuses, AttemptStatuses
<1>23. ASSUME NEW w \in Workers, RetryTask(w)
       PROVE  TypeOK'
  <2> DEFINE requeues == /\ HoldsLease(w)
                         /\ ~(Reopens(held[w]) /\ InstanceBusy(held[w]))
  <2>1. Release(w) /\ UNCHANGED <<planPaused, expansionVars, cancelVars,
                                  processVars, envVars>>
    BY <1>23 DEF RetryTask
  <2>2. CASE requeues
    <3>1. /\ CloseLease(w, "QUEUED", "FAILED")
          /\ available' = [available EXCEPT ![held[w]] = FALSE]
          /\ jobStatus' = [jobStatus EXCEPT ![held[w]] =
                              IF Reopens(held[w]) THEN "QUEUED" ELSE @]
      BY <1>23, <2>2 DEF RetryTask
    <3>2. "QUEUED" \in TaskStatuses /\ "FAILED" \in AttemptStatuses
      BY DEF TaskStatuses, AttemptStatuses, FailedStatuses
    <3> QED
      BY <2>1, <3>1, <3>2, TypeCloseLease, TypeRelease DEF TypeOK, JobStatuses
  <2>3. CASE ~requeues
    <3>1. UNCHANGED <<taskStatus, leaseVars, batchRow, jobStatus>>
      BY <1>23, <2>3 DEF RetryTask
    <3> QED
      BY <2>1, <3>1, TypeRelease DEF TypeOK
  <2> QED
    BY <2>2, <2>3
<1>24. ASSUME NEW w \in Workers, HeartbeatTask(w)
       PROVE  TypeOK'
  BY <1>24 DEF TypeOK, HeartbeatTask
<1>25. ASSUME NEW t \in Tasks, CancelRead(t)
       PROVE  TypeOK'
  BY <1>25 DEF TypeOK, CancelRead
<1>26. CASE CancelTaskRow
  BY <1>26 DEF TypeOK, CancelTaskRow, TaskStatuses, TerminalStatuses,
    FailedStatuses
<1>27. CASE CancelJobRow
  BY <1>27 DEF TypeOK, CancelJobRow, JobStatuses
<1>28. CASE CancelLookup
  BY <1>28 DEF TypeOK, CancelLookup
<1>29. CASE CancelAborted
  BY <1>29 DEF TypeOK, CancelAborted
<1>30. ASSUME NEW t \in Tasks, ResetTaskForManualRetry(t)
       PROVE  TypeOK'
  <2>1. batchRow' \in [Batches -> BatchRows]
    BY <1>30, RefreshType DEF ResetTaskForManualRetry
  <2> QED
    BY <1>30, <2>1 DEF TypeOK, ResetTaskForManualRetry, TaskStatuses,
       JobStatuses
<1>31. CASE UpdatePlan
  <2>1. "CANCELLED" \in TaskStatuses
    BY DEF TaskStatuses, TerminalStatuses, FailedStatuses
  <2>2. /\ taskStatus' \in [Tasks -> TaskStatuses]
        /\ jobStatus' \in [Tasks -> JobStatuses]
    BY <1>31, <2>1, ClosedPlan DEF UpdatePlan, TypeOK
  <2>3. /\ planPaused' \in BOOLEAN
        /\ edits' = edits + 1
        /\ UNCHANGED <<leaseVars, batchRow, workerVars, expansionVars,
                       cancelVars, processVars, crashes, cancels, replays>>
    BY <1>31 DEF UpdatePlan
  <2> QED
    BY <2>2, <2>3 DEF TypeOK
<1>32. ASSUME NEW t \in Tasks, BackoffElapses(t)
       PROVE  TypeOK'
  BY <1>32 DEF TypeOK, BackoffElapses
<1>33. ASSUME NEW t \in Tasks, LeaseExpires(t)
       PROVE  TypeOK'
  BY <1>33 DEF TypeOK, LeaseExpires
<1>34. CASE Bind
  BY <1>34 DEF TypeOK, Bind
<1>35. CASE Restart
  <2>1. /\ pc' \in [Workers -> WorkerPcs]
        /\ held' \in [Workers -> Tasks \cup {NoTask}]
        /\ token' \in [Workers -> Nat]
        /\ code' \in [Workers -> Codes \cup {"NONE", "OK"}]
        /\ ctxDone' \in [Workers -> BOOLEAN]
        /\ cancelByID' \in [Tasks -> Workers \cup {NoWorker}]
    BY <1>35 DEF Restart, WorkerPcs
  <2>2. phase' \in [Batches -> Phases]
    BY <1>35 DEF Restart, TypeOK, Phases
  <2>3. /\ UNCHANGED <<dbVars, remaining, cancels, replays, edits>>
        /\ bound' \in BOOLEAN /\ requeued' \in BOOLEAN
        /\ crashes' = crashes + 1
        /\ cancelPc' = "idle" /\ cancelTask' = NoTask
    BY <1>35 DEF Restart
  <2> QED
    BY <2>1, <2>2, <2>3 DEF TypeOK
<1> QED
  BY <1>1, <1>2, <1>3, <1>4, <1>5, <1>6, <1>7, <1>8, <1>9, <1>10, <1>11,
    <1>12, <1>13, <1>14, <1>15, <1>16, <1>17, <1>18, <1>19, <1>20, <1>21,
    <1>22, <1>23, <1>24, <1>25, <1>26, <1>27, <1>28, <1>29, <1>30, <1>31,
    <1>32, <1>33, <1>34, <1>35 DEF Next, Expansion, WorkerStep, CancelStep

(* TypeOK is inductive. *)
LEMMA TypeCorrectStep ==
  ASSUME TypeOK, [Next]_vars
  PROVE  TypeOK'
<1>1. CASE Next
  BY <1>1, TypeOKStep
<1>2. CASE UNCHANGED vars
  BY <1>2 DEF vars, TypeOK
<1> QED
  BY <1>1, <1>2

(* Every column and variable keeps its type in every reachable state. *)
THEOREM TypeCorrect == Spec => []TypeOK
<1>1. Init => TypeOK
  <2> SUFFICES ASSUME Init PROVE TypeOK
    OBVIOUS
  <2>1. batchRow \in [Batches -> BatchRows]
    BY DEF Init, EmptyRow, BatchRows, BatchStatuses
  <2>2. attemptLog \in [Tasks -> Seq(AttemptStatuses)]
    BY DEF Init
  <2>3. /\ jobStatus \in [Tasks -> JobStatuses]
        /\ taskStatus \in [Tasks -> TaskStatuses]
        /\ remaining \in [Batches -> SUBSET Tasks]
    BY DEF Init, JobStatuses, TaskStatuses
  <2> QED
    BY <2>1, <2>2, <2>3 DEF Init, TypeOK, WorkerPcs, Phases
<1>2. TypeOK /\ [Next]_vars => TypeOK'
  BY TypeCorrectStep
<1> QED
  BY <1>1, <1>2, PTL DEF Spec

--------------------------------------------------------------------------------
(* The unique index on open jobs *)

(* Opening the job of an instance that is not busy keeps jobs unique. *)
LEMMA OpenOne ==
  ASSUME TypeOK, OneOpenJob, NEW t \in Tasks, ~InstanceBusy(t),
         NEW job, jobStatus' = [jobStatus EXCEPT ![t] = job]
  PROVE  OneOpenJob'
  BY DEF TypeOK, OneOpenJob, InstanceBusy, OpenJob

(* So does a step after which no job is open that was not open before. *)
LEMMA OpenNone ==
  ASSUME OneOpenJob, \A t \in Tasks : OpenJob(t)' => OpenJob(t)
  PROVE  OneOpenJob'
  BY DEF OneOpenJob

(* The unique index holds after every step. *)
LEMMA OneOpenJobStep ==
  ASSUME TypeOK, OneOpenJob, [Next]_vars
  PROVE  OneOpenJob'
<1>1. ASSUME NEW b \in Batches, NEW t \in Tasks, CreateBackupJob(b, t)
      PROVE  OneOpenJob'
  BY <1>1, OpenOne DEF CreateBackupJob
<1>2. ASSUME NEW w \in Workers, RetryTask(w)
      PROVE  OneOpenJob'
  <2>1. CASE jobStatus' = jobStatus
    BY <2>1 DEF OneOpenJob, OpenJob
  <2>2. CASE jobStatus' # jobStatus
    <3>1. /\ jobStatus' = [jobStatus EXCEPT ![held[w]] = "QUEUED"]
          /\ held[w] \in Tasks /\ ~InstanceBusy(held[w])
      BY <1>2, <2>2 DEF RetryTask, TypeOK
    <3> QED
      BY <3>1, OpenOne
  <2> QED
    BY <2>1, <2>2
<1>3. ASSUME NEW t \in Tasks, ResetTaskForManualRetry(t)
      PROVE  OneOpenJob'
  <2>1. CASE Reopens(t)
    BY <1>3, <2>1, OpenOne DEF ResetTaskForManualRetry
  <2>2. CASE ~Reopens(t)
    BY <1>3, <2>2 DEF ResetTaskForManualRetry, TypeOK, OneOpenJob, OpenJob
  <2> QED
    BY <2>1, <2>2
<1>4. ASSUME NEW w \in Workers, \/ RequeueExpiredTasks(w) \/ StartBackupJob(w)
                                \/ CommitSnapshot(w) \/ PauseAfterScopeFailure(w)
                                \/ \E c \in Codes : ExecuteFails(w, c)
      PROVE  OneOpenJob'
  BY <1>4, OpenNone, ZenonT(40) DEF TypeOK, OpenJob, RequeueExpiredTasks,
     StartBackupJob, CommitSnapshot, PauseAfterScopeFailure, PausePlanForScope,
     ClosePlanQueue, ExecuteFails
<1>5. ASSUME \/ \E b \in Batches : ScopeInvalid(b)
             \/ \E b \in Batches, t \in Tasks : AddTaskFails(b, t)
             \/ CancelJobRow \/ UpdatePlan
      PROVE  OneOpenJob'
  BY <1>5, OpenNone DEF TypeOK, OpenJob, ScopeInvalid, AddTaskFails,
     CancelJobRow, UpdatePlan, PausePlanForScope, ClosePlanQueue
<1>6. CASE UNCHANGED jobStatus
  BY <1>6 DEF OneOpenJob, OpenJob
<1> QED
  BY <1>1, <1>2, <1>3, <1>4, <1>5, <1>6 DEF Next, Expansion, WorkerStep,
     CancelStep, vars, CreateBatch, ScopesValid, ExpansionFails, ExpansionEnds,
     SkipTarget, SkipBusyTarget, recordSkipped, AddTask, BeginRequeue,
     ClaimNextTask, RegisterCancel, SetTaskStatus, FinishCancelled,
     CompleteTask, FinishTaskFailure, EndTask, HeartbeatTask, CancelRead,
     CancelTaskRow, CancelLookup, CancelAborted, BackoffElapses, LeaseExpires,
     Bind, Restart

--------------------------------------------------------------------------------
(* Rows of targets that are not reached *)

(* A worker whose token is current is at work on an active task. *)
LEMMA HolderIsActive ==
  ASSUME TypeOK, WorkerClaims, AttemptJournal, NEW w \in Workers,
         pc[w] \notin {"poll", "requeue"}, HoldsLease(w)
  PROVE  held[w] \in Tasks /\ Active(held[w])
  BY DEF TypeOK, WorkerClaims, ClaimBacked, AttemptJournal, HoldsLease

(* The end of a lease touches no row of a target that is not reached. *)
LEMMA CloseReached ==
  ASSUME TypeOK, WorkerClaims, AttemptJournal, NEW w \in Workers,
         pc[w] = "finish", HoldsLease(w), NEW status, NEW attempt,
         CloseLease(w, status, attempt)
  PROVE  \A t \in Tasks : taskStatus[t] = "NONE" => taskStatus'[t] = "NONE"
<1>1. taskStatus[held[w]] # "NONE"
  BY HolderIsActive DEF Active, ActiveStatuses
<1>2. taskStatus' = [taskStatus EXCEPT ![held[w]] = status]
  BY DEF CloseLease
<1> QED
  BY <1>1, <1>2 DEF TypeOK

(* Steps that reach no new target keep UnreachedTargets. *)
LEMMA ReachNone ==
  ASSUME TypeOK, UnreachedTargets,
         \A t \in Tasks :
           /\ jobStatus[t] = "NONE" => jobStatus'[t] = "NONE"
           /\ taskStatus[t] = "NONE" => taskStatus'[t] = "NONE",
         \A b \in Batches : /\ phase'[b] = "new" => phase[b] = "new"
                            /\ remaining'[b] \subseteq remaining[b]
  PROVE  UnreachedTargets'
  BY DEF TypeOK, UnreachedTargets

(* Rows appear only for targets that an expansion has reached. *)
LEMMA UnreachedStep ==
  ASSUME TypeOK, UnreachedTargets, WorkerClaims, AttemptJournal, [Next]_vars
  PROVE  UnreachedTargets'
<1> USE QueueAssumption
<1>1. ASSUME NEW b \in Batches, CreateBatch(b)
      PROVE  UnreachedTargets'
  BY <1>1 DEF TypeOK, UnreachedTargets, CreateBatch
<1>2. ASSUME NEW b \in Batches, NEW t \in Tasks,
             SkipTarget(b, t) \/ SkipBusyTarget(b, t)
      PROVE  UnreachedTargets'
  <2>1. /\ phase[b] # "new" /\ t \in remaining[b]
        /\ taskStatus' = [taskStatus EXCEPT ![t] = "SKIPPED"]
        /\ remaining' = [remaining EXCEPT ![b] = @ \ {t}]
        /\ UNCHANGED <<jobStatus, phase>>
    BY <1>2 DEF SkipTarget, SkipBusyTarget, recordSkipped
  <2> QED
    BY <2>1 DEF TypeOK, UnreachedTargets
<1>3. ASSUME NEW b \in Batches, NEW t \in Tasks, CreateBackupJob(b, t)
      PROVE  UnreachedTargets'
  BY <1>3 DEF TypeOK, UnreachedTargets, CreateBackupJob
<1>4. ASSUME NEW b \in Batches, NEW t \in Tasks,
             AddTask(b, t) \/ AddTaskFails(b, t)
      PROVE  UnreachedTargets'
  BY <1>4 DEF TypeOK, UnreachedTargets, AddTask, AddTaskFails, Adding, OpenJob
<1>5. ASSUME NEW b \in Batches, ScopesValid(b) \/ ScopeInvalid(b)
                                \/ ExpansionFails(b) \/ ExpansionEnds(b)
      PROVE  UnreachedTargets'
  <2>1. CASE ScopeInvalid(b)
    BY <2>1, ReachNone DEF TypeOK, ScopeInvalid, PausePlanForScope, ClosePlanQueue
  <2>2. CASE ScopesValid(b) \/ ExpansionFails(b) \/ ExpansionEnds(b)
    BY <2>2, ReachNone DEF TypeOK, ScopesValid, ExpansionFails, ExpansionEnds
  <2> QED  BY <1>5, <2>1, <2>2
<1>6. ASSUME NEW w \in Workers, RequeueExpiredTasks(w)
      PROVE  UnreachedTargets'
  BY <1>6, ReachNone DEF TypeOK, RequeueExpiredTasks, Expired, Active,
     ActiveStatuses
<1>7. ASSUME NEW w \in Workers, NEW t \in Tasks, ClaimNextTask(w, t)
      PROVE  UnreachedTargets'
  BY <1>7, ReachNone DEF TypeOK, ClaimNextTask, Claimable
<1>8. ASSUME NEW w \in Workers, SetTaskStatus(w)
      PROVE  UnreachedTargets'
  BY <1>8, ReachNone DEF TypeOK, SetTaskStatus, Active, ActiveStatuses
<1>9. ASSUME NEW w \in Workers, \/ StartBackupJob(w) \/ CommitSnapshot(w)
                                \/ PauseAfterScopeFailure(w)
                                \/ \E c \in Codes : ExecuteFails(w, c)
      PROVE  UnreachedTargets'
  <2>1. CASE StartBackupJob(w) \/ CommitSnapshot(w)
    BY <2>1, ReachNone DEF TypeOK, StartBackupJob, CommitSnapshot, OpenJob
  <2>2. CASE PauseAfterScopeFailure(w)
    BY <2>2, ReachNone DEF TypeOK, PauseAfterScopeFailure, PausePlanForScope,
       ClosePlanQueue
  <2>3. CASE \E c \in Codes : ExecuteFails(w, c)
    BY <2>3, ReachNone DEF TypeOK, ExecuteFails, OpenJob
  <2> QED  BY <1>9, <2>1, <2>2, <2>3
<1>10. ASSUME NEW w \in Workers, NEW status, EndTask(w, status),
              pc[w] = "finish"
       PROVE  UnreachedTargets'
  <2>1. \A t \in Tasks : taskStatus[t] = "NONE" => taskStatus'[t] = "NONE"
    BY <1>10, CloseReached DEF EndTask
  <2> QED
    BY <1>10, <2>1, ReachNone DEF TypeOK, EndTask
<1>11. ASSUME NEW w \in Workers, RetryTask(w)
       PROVE  UnreachedTargets'
  <2>1. \A t \in Tasks : taskStatus[t] = "NONE" => taskStatus'[t] = "NONE"
    BY <1>11, CloseReached DEF RetryTask
  <2>2. \A t \in Tasks : jobStatus[t] = "NONE" => jobStatus'[t] = "NONE"
    BY <1>11 DEF TypeOK, RetryTask, Reopens
  <2> QED
    BY <1>11, <2>1, <2>2, ReachNone DEF TypeOK, RetryTask
<1>12. ASSUME NEW t \in Tasks, ResetTaskForManualRetry(t)
       PROVE  UnreachedTargets'
  BY <1>12, ReachNone DEF TypeOK, ResetTaskForManualRetry, FailedStatuses,
     Reopens
<1>13. ASSUME CancelTaskRow \/ CancelJobRow \/ UpdatePlan
       PROVE  UnreachedTargets'
  BY <1>13, ReachNone DEF TypeOK, CancelTaskRow, CancelJobRow, UpdatePlan,
     ClosePlanQueue
<1>14. CASE Restart
  BY <1>14, ReachNone DEF TypeOK, Restart
<1>15. CASE UNCHANGED <<jobStatus, taskStatus, phase, remaining>>
  BY <1>15 DEF UnreachedTargets
<1> QED
  BY <1>1, <1>2, <1>3, <1>4, <1>5, <1>6, <1>7, <1>8, <1>9, <1>10, <1>11,
     <1>12, <1>13, <1>14, <1>15 DEF Next, Expansion, WorkerStep, CancelStep,
     vars, BeginRequeue, RegisterCancel, FinishCancelled, CompleteTask,
     FinishTaskFailure, HeartbeatTask, CancelRead, CancelLookup,
     CancelAborted, BackoffElapses, LeaseExpires, Bind

--------------------------------------------------------------------------------
(* The attempt journal *)

(* Steps that leave leases and journal alone and move no task into or out  *)
(* of the active statuses.                                                 *)
LEMMA JournalUntouched ==
  ASSUME AttemptJournal, UNCHANGED <<leaseToken, attemptLog>>,
         \A t \in Tasks : Active(t)' <=> Active(t)
  PROVE  AttemptJournal'
  BY DEF AttemptJournal

(* The end of a lease closes the one RUNNING attempt. *)
LEMMA JournalCloseLease ==
  ASSUME TypeOK, AttemptJournal, NEW w \in Workers, NEW status,
         NEW attempt \in AttemptStatuses, attempt # "RUNNING",
         status \notin ActiveStatuses, held[w] \in Tasks,
         CloseLease(w, status, attempt)
  PROVE  AttemptJournal'
<1> DEFINE t == held[w]
<1>1. attemptLog[t] \in Seq(AttemptStatuses)
  BY DEF TypeOK
<1>2. /\ Len(attemptLog'[t]) = Len(attemptLog[t])
      /\ \A i \in 1..Len(attemptLog[t]) : attemptLog'[t][i] # "RUNNING"
  BY <1>1, ClosedAttempts, ZenonT(40) DEF TypeOK, CloseLease
<1>3. /\ taskStatus'[t] = status /\ leaseToken'[t] = 0
      /\ \A s \in Tasks : s # t => /\ taskStatus'[s] = taskStatus[s]
                                   /\ leaseToken'[s] = leaseToken[s]
                                   /\ attemptLog'[s] = attemptLog[s]
  BY DEF TypeOK, CloseLease
<1> QED
  BY <1>2, <1>3 DEF AttemptJournal, Active

(* The attempt journal matches the leases after every step. *)
LEMMA JournalStep ==
  ASSUME TypeOK, UnreachedTargets, WorkerClaims, AttemptJournal, [Next]_vars
  PROVE  AttemptJournal'
<1>1. ASSUME NEW b \in Batches, NEW t \in Tasks,
             SkipTarget(b, t) \/ SkipBusyTarget(b, t) \/ AddTask(b, t)
      PROVE  AttemptJournal'
  BY <1>1, JournalUntouched DEF TypeOK, UnreachedTargets, SkipTarget,
     SkipBusyTarget, recordSkipped, AddTask, Adding, Active, ActiveStatuses
<1>2. ASSUME NEW b \in Batches, ScopeInvalid(b)
      PROVE  AttemptJournal'
  BY <1>2, JournalUntouched DEF TypeOK, ScopeInvalid, PausePlanForScope,
     ClosePlanQueue, Active, ActiveStatuses
<1>3. ASSUME NEW w \in Workers, SetTaskStatus(w) \/ PauseAfterScopeFailure(w)
      PROVE  AttemptJournal'
  BY <1>3, JournalUntouched DEF TypeOK, SetTaskStatus, PauseAfterScopeFailure,
     PausePlanForScope, ClosePlanQueue, Active, ActiveStatuses
<1>4. ASSUME CancelTaskRow \/ UpdatePlan
      PROVE  AttemptJournal'
  BY <1>4, JournalUntouched DEF TypeOK, CancelTaskRow, UpdatePlan,
     ClosePlanQueue, Active, ActiveStatuses
<1>5. ASSUME NEW t \in Tasks, ResetTaskForManualRetry(t)
      PROVE  AttemptJournal'
  BY <1>5 DEF TypeOK, AttemptJournal, ResetTaskForManualRetry, Active,
     ActiveStatuses, FailedStatuses
<1>6. ASSUME NEW w \in Workers, RequeueExpiredTasks(w)
      PROVE  AttemptJournal'
  <2> SUFFICES ASSUME NEW t \in Tasks
               PROVE  /\ Active(t)' <=> leaseToken'[t] # 0
                      /\ leaseToken'[t] # 0 => leaseToken'[t] = Len(attemptLog'[t])
                      /\ \A i \in 1..Len(attemptLog'[t]) :
                           attemptLog'[t][i] = "RUNNING" <=> i = leaseToken'[t]
    BY DEF AttemptJournal
  <2>1. CASE Expired(t)
    <3>1. attemptLog[t] \in Seq(AttemptStatuses)
      BY DEF TypeOK
    <3>2. "INTERRUPTED" \in AttemptStatuses /\ "INTERRUPTED" # "RUNNING"
      BY DEF AttemptStatuses
    <3>3. /\ Len(attemptLog'[t]) = Len(attemptLog[t])
          /\ \A i \in 1..Len(attemptLog[t]) : attemptLog'[t][i] # "RUNNING"
      BY <1>6, <2>1, <3>1, <3>2, ClosedAttempts DEF RequeueExpiredTasks
    <3> QED
      BY <1>6, <2>1, <3>1, <3>3 DEF RequeueExpiredTasks, Active, ActiveStatuses
  <2>2. CASE ~Expired(t)
    BY <1>6, <2>2 DEF RequeueExpiredTasks, AttemptJournal, Active
  <2> QED
    BY <2>1, <2>2
<1>7. ASSUME NEW w \in Workers, NEW t \in Tasks, ClaimNextTask(w, t)
      PROVE  AttemptJournal'
  BY <1>7 DEF TypeOK, ClaimNextTask, Claimable, AttemptJournal, Active,
     ActiveStatuses
<1>8. ASSUME NEW w \in Workers, FinishCancelled(w) \/ CompleteTask(w)
                                \/ FinishTaskFailure(w)
      PROVE  AttemptJournal'
  <2>1. PICK status : /\ EndTask(w, status) /\ status \notin ActiveStatuses
                      /\ status \in AttemptStatuses /\ status # "RUNNING"
    BY <1>8 DEF FinishCancelled, CompleteTask, FinishTaskFailure,
       ActiveStatuses, AttemptStatuses, FailedStatuses
  <2>2. CASE HoldsLease(w)
    BY <1>8, <2>1, <2>2, HolderIsActive, JournalCloseLease DEF EndTask,
       FinishCancelled, CompleteTask, FinishTaskFailure
  <2>3. CASE ~HoldsLease(w)
    BY <2>1, <2>3 DEF EndTask, AttemptJournal, Active
  <2> QED
    BY <2>2, <2>3
<1>9. ASSUME NEW w \in Workers, RetryTask(w)
      PROVE  AttemptJournal'
  <2>1. /\ "FAILED" \in AttemptStatuses /\ "FAILED" # "RUNNING"
        /\ "QUEUED" \notin ActiveStatuses
    BY DEF ActiveStatuses, AttemptStatuses, FailedStatuses
  <2>2. CASE HoldsLease(w) /\ CloseLease(w, "QUEUED", "FAILED")
    BY <1>9, <2>1, <2>2, HolderIsActive, JournalCloseLease DEF RetryTask
  <2>3. CASE UNCHANGED <<taskStatus, leaseVars>>
    BY <2>3 DEF AttemptJournal, Active
  <2> QED
    BY <1>9, <2>2, <2>3 DEF RetryTask
<1>10. CASE UNCHANGED <<taskStatus, leaseToken, attemptLog>>
  BY <1>10 DEF AttemptJournal, Active
<1> QED
  BY <1>1, <1>2, <1>3, <1>4, <1>5, <1>6, <1>7, <1>8, <1>9, <1>10 DEF Next,
     Expansion, WorkerStep, CancelStep, vars, CreateBatch, ScopesValid,
     ExpansionFails, ExpansionEnds, CreateBackupJob, AddTaskFails,
     BeginRequeue, RegisterCancel, StartBackupJob, ExecuteFails,
     CommitSnapshot, HeartbeatTask, CancelRead, CancelJobRow, CancelLookup,
     CancelAborted, BackoffElapses, LeaseExpires, Bind, Restart
--------------------------------------------------------------------------------
(* Committed jobs *)

(* No step moves the job of a committed snapshot. *)
LEMMA JobsFinalStep ==
  ASSUME TypeOK, UnreachedTargets, [Next]_vars,
         NEW t \in Tasks, jobStatus[t] = "SUCCEEDED"
  PROVE  jobStatus'[t] = "SUCCEEDED"
<1>1. ASSUME NEW b \in Batches, NEW s \in Tasks,
             CreateBackupJob(b, s) \/ AddTaskFails(b, s)
      PROVE  jobStatus'[t] = "SUCCEEDED"
  BY <1>1 DEF TypeOK, UnreachedTargets, CreateBackupJob, AddTaskFails, OpenJob
<1>2. ASSUME NEW b \in Batches, ScopeInvalid(b)
      PROVE  jobStatus'[t] = "SUCCEEDED"
  BY <1>2 DEF ScopeInvalid, PausePlanForScope, ClosePlanQueue
<1>3. ASSUME NEW w \in Workers, \/ RequeueExpiredTasks(w) \/ StartBackupJob(w)
                                \/ CommitSnapshot(w) \/ PauseAfterScopeFailure(w)
                                \/ \E c \in Codes : ExecuteFails(w, c)
      PROVE  jobStatus'[t] = "SUCCEEDED"
  BY <1>3, ZenonT(40) DEF TypeOK, OpenJob, RequeueExpiredTasks, StartBackupJob,
     CommitSnapshot, PauseAfterScopeFailure, PausePlanForScope, ClosePlanQueue,
     ExecuteFails
<1>4. ASSUME NEW w \in Workers, RetryTask(w)
      PROVE  jobStatus'[t] = "SUCCEEDED"
  BY <1>4 DEF TypeOK, RetryTask, Reopens
<1>5. ASSUME NEW s \in Tasks, ResetTaskForManualRetry(s)
      PROVE  jobStatus'[t] = "SUCCEEDED"
  BY <1>5 DEF TypeOK, ResetTaskForManualRetry, Reopens
<1>6. ASSUME CancelJobRow \/ UpdatePlan
      PROVE  jobStatus'[t] = "SUCCEEDED"
  BY <1>6 DEF TypeOK, CancelJobRow, UpdatePlan, ClosePlanQueue
<1>7. CASE UNCHANGED jobStatus
  BY <1>7
<1> QED
  BY <1>1, <1>2, <1>3, <1>4, <1>5, <1>6, <1>7 DEF Next, Expansion, WorkerStep,
     CancelStep, vars, CreateBatch, ScopesValid, ExpansionFails, ExpansionEnds,
     SkipTarget, SkipBusyTarget, recordSkipped, AddTask, BeginRequeue,
     ClaimNextTask, RegisterCancel, SetTaskStatus, FinishCancelled,
     CompleteTask, FinishTaskFailure, EndTask, HeartbeatTask, CancelRead,
     CancelTaskRow, CancelLookup, CancelAborted, BackoffElapses, LeaseExpires,
     Bind, Restart

--------------------------------------------------------------------------------
(* The claims of the workers *)

(* The journal of a task only grows. *)
LEMMA JournalGrows ==
  ASSUME TypeOK, [Next]_vars, NEW t \in Tasks
  PROVE  Len(attemptLog[t]) \in Nat /\ Len(attemptLog'[t]) >= Len(attemptLog[t])
<1>1. attemptLog[t] \in Seq(AttemptStatuses) /\ Len(attemptLog[t]) \in Nat
  BY DEF TypeOK
<1>2. ASSUME NEW w \in Workers, NEW s \in Tasks, ClaimNextTask(w, s)
      PROVE  Len(attemptLog'[t]) >= Len(attemptLog[t])
  BY <1>1, <1>2 DEF TypeOK, ClaimNextTask
<1>3. ASSUME NEW s,
             attemptLog'[t] = attemptLog[t]
               \/ (s \in AttemptStatuses
                     /\ attemptLog'[t] = CloseAttempts(attemptLog[t], s))
      PROVE  Len(attemptLog'[t]) >= Len(attemptLog[t])
  BY <1>1, <1>3, ClosedAttempts
<1>4. ASSUME NEW w \in Workers, RequeueExpiredTasks(w)
      PROVE  Len(attemptLog'[t]) >= Len(attemptLog[t])
  BY <1>3, <1>4 DEF RequeueExpiredTasks, AttemptStatuses
<1>5. ASSUME NEW w \in Workers, NEW status, NEW attempt \in AttemptStatuses,
             CloseLease(w, status, attempt)
      PROVE  Len(attemptLog'[t]) >= Len(attemptLog[t])
  BY <1>3, <1>5 DEF TypeOK, CloseLease
<1>6. CASE UNCHANGED attemptLog
  BY <1>1, <1>6
<1>7. ASSUME NEW w \in Workers, RetryTask(w)
      PROVE  Len(attemptLog'[t]) >= Len(attemptLog[t])
  BY <1>5, <1>6, <1>7 DEF RetryTask, AttemptStatuses, FailedStatuses
<1>8. ASSUME NEW w \in Workers, FinishCancelled(w) \/ CompleteTask(w)
                                \/ FinishTaskFailure(w)
      PROVE  Len(attemptLog'[t]) >= Len(attemptLog[t])
  <2>1. PICK status \in AttemptStatuses : EndTask(w, status)
    BY <1>8 DEF FinishCancelled, CompleteTask, FinishTaskFailure,
       AttemptStatuses, FailedStatuses
  <2> QED
    BY <1>5, <1>6, <2>1 DEF EndTask
<1> QED
  BY <1>1, <1>2, <1>4, <1>6, <1>7, <1>8 DEF Next, Expansion, WorkerStep,
     CancelStep, vars, CreateBatch, ScopesValid, ScopeInvalid, ExpansionFails,
     ExpansionEnds, SkipTarget, SkipBusyTarget, recordSkipped, CreateBackupJob,
     AddTask, AddTaskFails, BeginRequeue, RegisterCancel, SetTaskStatus,
     StartBackupJob, ExecuteFails, CommitSnapshot, PauseAfterScopeFailure,
     HeartbeatTask, CancelRead, CancelTaskRow, CancelJobRow, CancelLookup,
     CancelAborted, ResetTaskForManualRetry, UpdatePlan, BackoffElapses,
     LeaseExpires, Bind, Restart

(* A claim stays backed while its worker does not move. *)
LEMMA IdleClaim ==
  ASSUME TypeOK, UnreachedTargets, [Next]_vars, NEW v \in Workers,
         ClaimBacked(v), pc'[v] = pc[v], held'[v] = held[v],
         token'[v] = token[v], code'[v] = code[v]
  PROVE  ClaimBacked(v)'
<1>1. CASE pc[v] \in {"poll", "requeue"}
  BY <1>1 DEF ClaimBacked
<1>2. CASE pc[v] \notin {"poll", "requeue"}
  <2>1. held[v] \in Tasks
    BY <1>2 DEF ClaimBacked
  <2>2. /\ Len(attemptLog[held[v]]) \in Nat
        /\ Len(attemptLog'[held[v]]) >= Len(attemptLog[held[v]])
    BY <2>1, JournalGrows
  <2>3. jobStatus[held[v]] = "SUCCEEDED" => jobStatus'[held[v]] = "SUCCEEDED"
    BY <2>1, JobsFinalStep
  <2>4. Len(attemptLog'[held[v]]) \in Nat
    BY <2>1, TypeCorrectStep DEF TypeOK
  <2> QED
    BY <1>2, <2>1, <2>2, <2>3, <2>4 DEF ClaimBacked
<1> QED
  BY <1>1, <1>2
(* A worker w that moves within its task, or keeps having none. *)
LEMMA MovingClaim ==
  ASSUME TypeOK, UnreachedTargets, WorkerClaims, [Next]_vars,
         NEW w \in Workers, UNCHANGED <<held, token>>,
         \A v \in Workers : v # w => pc'[v] = pc[v] /\ code'[v] = code[v],
         ClaimBacked(w)'
  PROVE  WorkerClaims'
<1>1. ASSUME NEW v \in Workers PROVE ClaimBacked(v)'
  BY IdleClaim DEF WorkerClaims
<1> QED
  BY <1>1 DEF WorkerClaims

(* A worker w that lets go of its task. *)
LEMMA ReleasedClaim ==
  ASSUME TypeOK, UnreachedTargets, WorkerClaims, [Next]_vars,
         NEW w \in Workers, Release(w)
  PROVE  WorkerClaims'
<1>1. /\ pc'[w] = "poll" /\ held'[w] = NoTask /\ code'[w] = "NONE"
      /\ \A v \in Workers : v # w =>
           /\ pc'[v] = pc[v] /\ held'[v] = held[v]
           /\ token'[v] = token[v] /\ code'[v] = code[v]
  BY DEF TypeOK, Release
<1>2. ASSUME NEW v \in Workers PROVE ClaimBacked(v)'
  <2>1. CASE v = w
    BY <1>1, <2>1 DEF ClaimBacked
  <2>2. CASE v # w
    BY <1>1, <2>2, IdleClaim DEF WorkerClaims
  <2> QED
    BY <2>1, <2>2
<1> QED
  BY <1>1, <1>2 DEF WorkerClaims

(* Claims stay backed and tokens unique after every step. *)
LEMMA WorkerClaimsStep ==
  ASSUME TypeOK, UnreachedTargets, WorkerClaims, [Next]_vars
  PROVE  WorkerClaims'
<1>1. ASSUME NEW w \in Workers, BeginRequeue(w) \/ RequeueExpiredTasks(w)
      PROVE  WorkerClaims'
  <2>1. ClaimBacked(w)'
    BY <1>1 DEF TypeOK, WorkerClaims, ClaimBacked, BeginRequeue,
       RequeueExpiredTasks
  <2> QED
    BY <1>1, <2>1, MovingClaim DEF TypeOK, BeginRequeue, RequeueExpiredTasks
<1>2. ASSUME NEW w \in Workers,
             RegisterCancel(w) \/ SetTaskStatus(w) \/ PauseAfterScopeFailure(w)
      PROVE  WorkerClaims'
  <2>1. /\ held[w] \in Tasks /\ token[w] \in 1..Len(attemptLog[held[w]])
        /\ pc'[w] \notin {"poll", "requeue"} /\ code'[w] # "OK"
        /\ UNCHANGED <<held, token, attemptLog>>
    BY <1>2 DEF TypeOK, WorkerClaims, ClaimBacked, RegisterCancel,
       SetTaskStatus, PauseAfterScopeFailure
  <2>2. ClaimBacked(w)'
    BY <2>1 DEF ClaimBacked
  <2> QED
    BY <1>2, <2>1, <2>2, MovingClaim DEF TypeOK, RegisterCancel,
       SetTaskStatus, PauseAfterScopeFailure
<1>3. ASSUME NEW w \in Workers,
             \/ StartBackupJob(w) \/ CommitSnapshot(w)
             \/ \E c \in Codes : ExecuteFails(w, c)
      PROVE  WorkerClaims'
  <2>1. /\ held[w] \in Tasks /\ token[w] \in 1..Len(attemptLog[held[w]])
        /\ pc'[w] \notin {"poll", "requeue"}
        /\ code'[w] = "OK" =>
             pc'[w] = "finish" /\ jobStatus'[held[w]] = "SUCCEEDED"
        /\ UNCHANGED <<held, token, attemptLog>>
    BY <1>3 DEF TypeOK, WorkerClaims, ClaimBacked, StartBackupJob,
       CommitSnapshot, ExecuteFails, Codes
  <2>2. ClaimBacked(w)'
    BY <2>1 DEF ClaimBacked
  <2> QED
    BY <1>3, <2>1, <2>2, MovingClaim DEF TypeOK, StartBackupJob,
       CommitSnapshot, ExecuteFails
<1>4. ASSUME NEW w \in Workers, NEW t \in Tasks, ClaimNextTask(w, t)
      PROVE  WorkerClaims'
  <2>1. /\ pc'[w] = "claimed" /\ held'[w] = t /\ code'[w] = "NONE"
        /\ token'[w] = Len(attemptLog[t]) + 1
        /\ Len(attemptLog'[t]) = Len(attemptLog[t]) + 1
        /\ Len(attemptLog[t]) \in Nat
        /\ \A v \in Workers : v # w =>
             /\ pc'[v] = pc[v] /\ held'[v] = held[v]
             /\ token'[v] = token[v] /\ code'[v] = code[v]
    BY <1>4 DEF TypeOK, WorkerClaims, ClaimBacked, ClaimNextTask
  <2>2. ASSUME NEW v \in Workers PROVE ClaimBacked(v)'
    <3>1. CASE v = w
      BY <2>1, <3>1 DEF ClaimBacked
    <3>2. CASE v # w
      BY <2>1, <3>2, IdleClaim DEF WorkerClaims
    <3> QED
      BY <3>1, <3>2
  <2>3. ASSUME NEW v \in Workers, v # w, held[v] = t
        PROVE  token[v] < Len(attemptLog[t]) + 1
    <3>1. t # NoTask
      BY QueueAssumption
    <3>2. token[v] \in 1..Len(attemptLog[t])
      BY <2>3, <3>1 DEF WorkerClaims, ClaimBacked
    <3> QED
      BY <2>1, <3>2
  <2>4. \A v \in Workers : v # w /\ held'[v] = t => token'[v] # token'[w]
    BY <2>1, <2>3 DEF TypeOK
  <2> QED
    BY <2>1, <2>2, <2>4 DEF WorkerClaims
<1>5. ASSUME NEW w \in Workers, RetryTask(w) \/ FinishCancelled(w)
                                \/ CompleteTask(w) \/ FinishTaskFailure(w)
      PROVE  WorkerClaims'
  BY <1>5, ReleasedClaim DEF RetryTask, FinishCancelled, CompleteTask,
     FinishTaskFailure, EndTask
<1>6. CASE Restart
  BY <1>6 DEF Restart, WorkerClaims, ClaimBacked
<1>7. CASE UNCHANGED <<pc, held, token, code>>
  <2>1. ASSUME NEW v \in Workers PROVE ClaimBacked(v)'
    BY <1>7, IdleClaim DEF WorkerClaims
  <2> QED
    BY <1>7, <2>1 DEF WorkerClaims
<1> QED
  BY <1>1, <1>2, <1>3, <1>4, <1>5, <1>6, <1>7 DEF Next, Expansion, WorkerStep,
     CancelStep, vars, CreateBatch, ScopesValid, ScopeInvalid, ExpansionFails,
     ExpansionEnds, SkipTarget, SkipBusyTarget, recordSkipped, CreateBackupJob,
     AddTask, AddTaskFails, HeartbeatTask, CancelRead, CancelTaskRow,
     CancelJobRow, CancelLookup, CancelAborted, ResetTaskForManualRetry,
     UpdatePlan, BackoffElapses, LeaseExpires, Bind

--------------------------------------------------------------------------------
(* Successful tasks *)

(* Only CompleteTask reports success. *)
LEMMA SuccessStep ==
  ASSUME TypeOK, UnreachedTargets, WorkerClaims, SuccessHasSnapshot,
         [Next]_vars
  PROVE  SuccessHasSnapshot'
<1> DEFINE NoNews == \A t \in Tasks :
             taskStatus'[t] = "SUCCEEDED" => taskStatus[t] = "SUCCEEDED"
<1>1. ASSUME NEW b \in Batches, NEW t \in Tasks,
             SkipTarget(b, t) \/ SkipBusyTarget(b, t) \/ AddTask(b, t)
      PROVE  NoNews
  BY <1>1 DEF TypeOK, SkipTarget, SkipBusyTarget, recordSkipped, AddTask
<1>2. ASSUME ClosePlanQueue("SKIPPED") \/ ClosePlanQueue("CANCELLED")
      PROVE  NoNews
  BY <1>2 DEF ClosePlanQueue
<1>3. ASSUME NEW w \in Workers, RequeueExpiredTasks(w) \/ SetTaskStatus(w)
      PROVE  NoNews
  BY <1>3, ZenonT(40) DEF TypeOK, RequeueExpiredTasks, SetTaskStatus
<1>4. ASSUME NEW w \in Workers, NEW t \in Tasks, ClaimNextTask(w, t)
      PROVE  NoNews
  BY <1>4 DEF TypeOK, ClaimNextTask
<1>5. ASSUME NEW w \in Workers,
             RetryTask(w) \/ FinishCancelled(w) \/ FinishTaskFailure(w)
      PROVE  NoNews
  <2>1. CASE UNCHANGED taskStatus
    BY <2>1
  <2>2. ASSUME NEW status, status # "SUCCEEDED", NEW attempt,
               CloseLease(w, status, attempt)
        PROVE  NoNews
    BY <2>2 DEF TypeOK, CloseLease
  <2> QED
    BY <1>5, <2>1, <2>2 DEF RetryTask, FinishCancelled, FinishTaskFailure,
       EndTask
<1>6. ASSUME NEW t \in Tasks, ResetTaskForManualRetry(t)
      PROVE  NoNews
  BY <1>6 DEF TypeOK, ResetTaskForManualRetry
<1>7. ASSUME NEW w \in Workers, CompleteTask(w)
      PROVE  SuccessHasSnapshot'
  <2>1. held[w] \in Tasks /\ jobStatus[held[w]] = "SUCCEEDED"
    BY <1>7 DEF CompleteTask, WorkerClaims, ClaimBacked
  <2>2. \A t \in Tasks : t # held[w] => taskStatus'[t] = taskStatus[t]
    BY <1>7 DEF TypeOK, CompleteTask, EndTask, CloseLease
  <2> QED
    BY <2>1, <2>2, JobsFinalStep DEF SuccessHasSnapshot
<1>8. CASE NoNews
  BY <1>8, JobsFinalStep DEF SuccessHasSnapshot
<1>9. CASE UNCHANGED taskStatus
  BY <1>9, JobsFinalStep DEF SuccessHasSnapshot
<1>10. CASE CancelTaskRow
  <2>1. NoNews
    BY <1>10 DEF TypeOK, CancelTaskRow
  <2> QED
    BY <2>1, <1>8
<1> HIDE DEF NoNews
<1> QED
  BY <1>1, <1>2, <1>3, <1>4, <1>5, <1>6, <1>7, <1>8, <1>9, <1>10 DEF Next,
     Expansion, WorkerStep, CancelStep, vars, CreateBatch, ScopesValid,
     ScopeInvalid, ExpansionFails, ExpansionEnds, CreateBackupJob,
     AddTaskFails, BeginRequeue, RegisterCancel, StartBackupJob, ExecuteFails,
     CommitSnapshot, PauseAfterScopeFailure, PausePlanForScope, HeartbeatTask,
     CancelRead, CancelJobRow, CancelLookup, CancelAborted, UpdatePlan,
     BackoffElapses, LeaseExpires, Bind, Restart
--------------------------------------------------------------------------------
(* Leases under SafeLeases *)

(* Where leases are safe, the holder of a task is the only one. *)
LEMMA OneHolder ==
  ASSUME WorkerClaims, LiveLeases, NEW v \in Workers, NEW w \in Workers,
         held[v] = held[w], held[w] # NoTask
  PROVE  v = w
  BY DEF WorkerClaims, LiveLeases, LiveLease

(* Nobody holds a task that is not active. *)
LEMMA InactiveNotHeld ==
  ASSUME TypeOK, WorkerClaims, AttemptJournal, LiveLeases,
         NEW t \in Tasks, ~Active(t), NEW w \in Workers
  PROVE  held[w] # t
<1> SUFFICES ASSUME held[w] = t PROVE FALSE
  OBVIOUS
<1>1. t # NoTask
  BY QueueAssumption
<1>2. token[w] \in 1..Len(attemptLog[t])
  BY <1>1 DEF WorkerClaims, ClaimBacked
<1>3. leaseToken[t] # 0
  BY <1>1, <1>2 DEF LiveLeases, LiveLease, TypeOK
<1> QED
  BY <1>3 DEF AttemptJournal

(* A worker keeps its lease when the rows of its task stay as they are. *)
LEMMA LeaseKept ==
  ASSUME LiveLeases, NEW v \in Workers, held'[v] = held[v],
         held[v] # NoTask =>
           /\ token'[v] = token[v]
           /\ leaseToken'[held[v]] = leaseToken[held[v]]
           /\ ~Suspensions => (leaseExpired'[held[v]] => leaseExpired[held[v]])
           /\ pc'[v] = "running" =>
                \/ jobStatus'[held[v]] = "RUNNING"
                \/ pc[v] = "running" /\ jobStatus'[held[v]] = jobStatus[held[v]]
  PROVE  LiveLease(v)'
  BY DEF LiveLeases, LiveLease

(* The holder w lets go; the leases of the others are those of other tasks. *)
LEMMA LeaseReleased ==
  ASSUME TypeOK, WorkerClaims, LiveLeases, NEW w \in Workers, Release(w),
         held[w] \in Tasks,
         \A t \in Tasks : t # held[w] =>
           /\ leaseToken'[t] = leaseToken[t]
           /\ leaseExpired'[t] = leaseExpired[t]
           /\ jobStatus'[t] = jobStatus[t]
  PROVE  LiveLeases'
<1> SUFFICES ASSUME NEW v \in Workers PROVE LiveLease(v)'
  BY DEF LiveLeases
<1>1. CASE v = w
  BY <1>1 DEF TypeOK, Release, LiveLease
<1>2. CASE v # w
  <2>1. held'[v] = held[v] /\ token'[v] = token[v] /\ pc'[v] = pc[v]
    BY <1>2 DEF TypeOK, Release
  <2>2. held[v] # NoTask => held[v] \in Tasks /\ held[v] # held[w]
    BY <1>2, OneHolder DEF TypeOK
  <2> QED
    BY <2>1, <2>2, LeaseKept
<1> QED
  BY <1>1, <1>2

(* Where leases are safe, a worker keeps its lease until it lets go. *)
LEMMA LiveLeasesStep ==
  ASSUME TypeOK, UnreachedTargets, WorkerClaims, AttemptJournal,
         SafeLeases, LiveLeases, [Next]_vars
  PROVE  LiveLeases'
<1> USE QueueAssumption
<1> DEFINE Quiet == /\ UNCHANGED <<pc, held, token, leaseToken, leaseExpired>>
                    /\ \A t \in Tasks :
                         jobStatus[t] = "RUNNING" => jobStatus'[t] = "RUNNING"
<1>1. ASSUME Quiet PROVE LiveLeases'
  <2> SUFFICES ASSUME NEW v \in Workers PROVE LiveLease(v)'
    BY DEF LiveLeases
  <2> QED
    BY <1>1 DEF TypeOK, LiveLeases, LiveLease
<1>2. ASSUME ClosePlanQueue("SKIPPED") \/ ClosePlanQueue("CANCELLED")
                                      \/ CancelJobRow
      PROVE  \A t \in Tasks : jobStatus[t] = "RUNNING" => jobStatus'[t] = "RUNNING"
  BY <1>2 DEF TypeOK, ClosePlanQueue, CancelJobRow
<1>3. ASSUME NEW b \in Batches, NEW t \in Tasks, CreateBackupJob(b, t)
      PROVE  Quiet
  BY <1>3 DEF TypeOK, UnreachedTargets, CreateBackupJob
<1>4. ASSUME NEW b \in Batches, NEW t \in Tasks, AddTaskFails(b, t)
      PROVE  LiveLeases'
  <2> SUFFICES ASSUME NEW v \in Workers PROVE LiveLease(v)'
    BY DEF LiveLeases
  <2>1. held[v] # t
    BY <1>4, InactiveNotHeld DEF AddTaskFails, Adding, Active, ActiveStatuses
  <2> QED
    BY <1>4, <2>1, LeaseKept DEF TypeOK, AddTaskFails
<1>5. ASSUME NEW w \in Workers,
             \/ BeginRequeue(w) \/ RegisterCancel(w) \/ SetTaskStatus(w)
             \/ StartBackupJob(w) \/ HeartbeatTask(w)
      PROVE  LiveLeases'
  <2> SUFFICES ASSUME NEW v \in Workers PROVE LiveLease(v)'
    BY DEF LiveLeases
  <2>1. CASE BeginRequeue(w) \/ RegisterCancel(w) \/ SetTaskStatus(w)
    BY <2>1, LeaseKept, ZenonT(40) DEF TypeOK, BeginRequeue, RegisterCancel,
       SetTaskStatus
  <2>2. CASE StartBackupJob(w)
    <3>1. held[w] \in Tasks
      BY <2>2 DEF StartBackupJob, WorkerClaims, ClaimBacked
    <3>2. pc'[w] = "running" => jobStatus'[held[w]] = "RUNNING"
      BY <2>2, <3>1 DEF TypeOK, StartBackupJob
    <3>3. \A t \in Tasks : jobStatus'[t] = jobStatus[t] \/ jobStatus'[t] = "RUNNING"
      BY <2>2 DEF TypeOK, StartBackupJob
    <3> QED
      BY <2>2, <3>2, <3>3, LeaseKept DEF TypeOK, StartBackupJob
  <2>3. CASE HeartbeatTask(w)
    BY <2>3, LeaseKept DEF TypeOK, HeartbeatTask
  <2> QED
    BY <1>5, <2>1, <2>2, <2>3
<1>6. ASSUME NEW w \in Workers, CommitSnapshot(w)
                                \/ \E c \in Codes : ExecuteFails(w, c)
      PROVE  LiveLeases'
  <2> SUFFICES ASSUME NEW v \in Workers PROVE LiveLease(v)'
    BY DEF LiveLeases
  <2>1. CASE v = w
    BY <1>6, <2>1, LeaseKept, ZenonT(40) DEF TypeOK, CommitSnapshot, ExecuteFails
  <2>2. CASE v # w
    <3>1. held[v] # NoTask => held[v] # held[w]
      BY <2>2, OneHolder
    <3> QED
      BY <1>6, <2>2, <3>1, LeaseKept, ZenonT(40) DEF TypeOK, CommitSnapshot,
         ExecuteFails
  <2> QED
    BY <2>1, <2>2
<1>7. ASSUME NEW w \in Workers, RetryTask(w) \/ FinishCancelled(w)
                                \/ CompleteTask(w) \/ FinishTaskFailure(w)
      PROVE  LiveLeases'
  <2>1. held[w] \in Tasks
    BY <1>7 DEF RetryTask, FinishCancelled, CompleteTask, FinishTaskFailure,
       WorkerClaims, ClaimBacked
  <2>2. \A t \in Tasks : t # held[w] =>
          /\ leaseToken'[t] = leaseToken[t]
          /\ leaseExpired'[t] = leaseExpired[t]
          /\ jobStatus'[t] = jobStatus[t]
    BY <1>7 DEF TypeOK, RetryTask, FinishCancelled, CompleteTask,
       FinishTaskFailure, EndTask, CloseLease
  <2> QED
    BY <1>7, <2>1, <2>2, LeaseReleased DEF RetryTask, FinishCancelled,
       CompleteTask, FinishTaskFailure, EndTask
<1>8. ASSUME NEW w \in Workers, NEW t \in Tasks, ClaimNextTask(w, t)
      PROVE  LiveLeases'
  <2> SUFFICES ASSUME NEW v \in Workers PROVE LiveLease(v)'
    BY DEF LiveLeases
  <2>1. CASE v = w
    BY <1>8, <2>1 DEF TypeOK, ClaimNextTask, LiveLease
  <2>2. CASE v # w
    <3>1. held[v] # t
      BY <1>8, InactiveNotHeld DEF ClaimNextTask, Claimable, Active,
         ActiveStatuses
    <3> QED
      BY <1>8, <2>2, <3>1, LeaseKept DEF TypeOK, ClaimNextTask
  <2> QED
    BY <2>1, <2>2
<1>9. ASSUME NEW w \in Workers, RequeueExpiredTasks(w)
      PROVE  LiveLeases'
  <2> SUFFICES ASSUME NEW v \in Workers PROVE LiveLease(v)'
    BY DEF LiveLeases
  <2>1. held[v] # NoTask => held[v] \in Tasks /\ ~Expired(held[v])
    <3>1. CASE Suspensions
      <4>1. v = w
        BY <3>1 DEF SafeLeases
      <4> QED
        BY <1>9, <4>1 DEF RequeueExpiredTasks, WorkerClaims, ClaimBacked
    <3>2. CASE ~Suspensions
      BY <3>2 DEF TypeOK, LiveLeases, LiveLease, Expired
    <3> QED
      BY <3>1, <3>2
  <2> QED
    BY <1>9, <2>1, LeaseKept DEF TypeOK, RequeueExpiredTasks
<1>10. ASSUME NEW t \in Tasks, ResetTaskForManualRetry(t)
       PROVE  LiveLeases'
  <2> SUFFICES ASSUME NEW v \in Workers PROVE LiveLease(v)'
    BY DEF LiveLeases
  <2>1. held[v] # t
    BY <1>10, InactiveNotHeld DEF ResetTaskForManualRetry, Active,
       ActiveStatuses, FailedStatuses
  <2> QED
    BY <1>10, <2>1, LeaseKept DEF TypeOK, ResetTaskForManualRetry
<1>11. ASSUME NEW t \in Tasks, LeaseExpires(t)
       PROVE  LiveLeases'
  <2> SUFFICES ASSUME NEW v \in Workers PROVE LiveLease(v)'
    BY DEF LiveLeases
  <2> QED
    BY <1>11, LeaseKept DEF TypeOK, LeaseExpires, HeldInProcess
<1>12. CASE Restart
  BY <1>12 DEF Restart, LiveLeases, LiveLease
<1>13. CASE UNCHANGED <<pc, held, token, leaseToken, leaseExpired, jobStatus>>
  BY <1>1, <1>13
<1>14. ASSUME \/ \E b \in Batches : ScopeInvalid(b)
              \/ \E w \in Workers : PauseAfterScopeFailure(w)
              \/ CancelJobRow \/ UpdatePlan
       PROVE  Quiet
  BY <1>2, <1>14 DEF ScopeInvalid, PauseAfterScopeFailure, PausePlanForScope,
     CancelJobRow, UpdatePlan
<1> HIDE DEF Quiet
<1> QED
  BY <1>1, <1>3, <1>4, <1>5, <1>6, <1>7, <1>8, <1>9, <1>10, <1>11, <1>12,
     <1>13, <1>14 DEF Next, Expansion, WorkerStep, CancelStep, vars,
     CreateBatch, ScopesValid, ExpansionFails, ExpansionEnds, SkipTarget,
     SkipBusyTarget, recordSkipped, AddTask, CancelRead, CancelTaskRow,
     CancelLookup, CancelAborted, BackoffElapses, Bind

--------------------------------------------------------------------------------
(* The theorems *)

(***************************************************************************)
(* The inductive invariant holds in every reachable state, for every       *)
(* number of tasks, instances and workers, with restarts, cancellations,   *)
(* stalls, pauses and retries in any order.                                *)
(***************************************************************************)
THEOREM QueueCorrect == Spec => []QueueInv
<1>1. Init => QueueInv
  BY QueueAssumption DEF Init, QueueInv, UnreachedTargets, WorkerClaims,
     ClaimBacked, OneOpenJob, OpenJob, AttemptJournal, Active, ActiveStatuses,
     SuccessHasSnapshot, LiveLeases, LiveLease
<1>2. TypeOK /\ QueueInv /\ [Next]_vars => QueueInv'
  BY UnreachedStep, WorkerClaimsStep, OneOpenJobStep, JournalStep, SuccessStep,
     LiveLeasesStep DEF QueueInv, SafeLeases
<1> QED
  BY <1>1, <1>2, TypeCorrect, PTL DEF Spec

(***************************************************************************)
(* The instance lock: where leases are safe, the engine never runs twice   *)
(* at once on one instance, and its job is RUNNING while it does.          *)
(***************************************************************************)
THEOREM InstanceLockHolds ==
  ASSUME SafeLeases
  PROVE  Spec => []InstanceLock
<1>1. TypeOK /\ QueueInv => InstanceLock
  <2> SUFFICES ASSUME TypeOK, QueueInv PROVE InstanceLock
    OBVIOUS
  <2>1. ASSUME NEW w \in Workers, pc[w] = "running"
        PROVE  held[w] \in Tasks /\ jobStatus[held[w]] = "RUNNING"
    BY <2>1, QueueAssumption DEF QueueInv, WorkerClaims, ClaimBacked,
       LiveLeases, LiveLease
  <2>2. ASSUME NEW v \in Workers, NEW w \in Workers,
               pc[v] = "running", pc[w] = "running",
               DeployOf[held[v]] = DeployOf[held[w]]
        PROVE  v = w
    <3>1. held[v] = held[w] /\ held[w] # NoTask
      BY <2>1, <2>2, QueueAssumption DEF QueueInv, OneOpenJob, OpenJob
    <3> QED
      BY <3>1, OneHolder DEF QueueInv
  <2> QED
    BY <2>1, <2>2 DEF InstanceLock
<1> QED
  BY <1>1, TypeCorrect, QueueCorrect, PTL

(* Every lease has its one RUNNING attempt, even after stalls and restarts. *)
THEOREM AttemptJournalHolds == Spec => []AttemptJournal
<1>1. QueueInv => AttemptJournal
  BY DEF QueueInv
<1> QED
  BY <1>1, QueueCorrect, PTL

(* A task is reported SUCCEEDED only with a committed snapshot. *)
THEOREM SuccessHolds == Spec => []SuccessHasSnapshot
<1>1. QueueInv => SuccessHasSnapshot
  BY DEF QueueInv
<1> QED
  BY <1>1, QueueCorrect, PTL

(* No step ever moves the job of a committed snapshot. *)
THEOREM CommittedFinal == Spec => CommittedJobsAreFinal
<1>1. TypeOK /\ QueueInv /\ [Next]_vars =>
        [\A t \in Tasks : jobStatus[t] = "SUCCEEDED"
                            => jobStatus'[t] = "SUCCEEDED"]_vars
  BY JobsFinalStep DEF QueueInv
<1> QED
  BY <1>1, TypeCorrect, QueueCorrect, PTL DEF Spec, CommittedJobsAreFinal

--------------------------------------------------------------------------------
(* How task rows move *)

(* A step that refreshes no batch row: a queued task is closed, or an active *)
(* one is prechecked.                                                         *)
Unrefreshed ==
  /\ batchRow' = batchRow
  /\ \A s \in Tasks :
       \/ taskStatus'[s] = taskStatus[s]
       \/ taskStatus[s] = "QUEUED" /\ taskStatus'[s] \in {"SKIPPED", "CANCELLED"}
       \/ Active(s) /\ taskStatus'[s] = "PRECHECKING"

(* The holder of a lease ends it. *)
EndedByHolder(t) ==
  \E w \in Workers : held[w] = t /\ token[w] = leaseToken[t] /\ held'[w] = NoTask

(* A step that moves one task and refreshes its batch. *)
MovesOne(t) ==
  /\ Refresh(BatchOf[t])
  /\ \A s \in Tasks : s # t => taskStatus'[s] = taskStatus[s]
  /\ \/ taskStatus[t] = "NONE" /\ taskStatus'[t] \in {"SKIPPED", "QUEUED"}
     \/ taskStatus[t] = "QUEUED" /\ taskStatus'[t] = "LEASED"
     \/ /\ taskStatus[t] \in FailedStatuses /\ taskStatus'[t] = "QUEUED"
        /\ replays' = replays + 1
     \/ Active(t) /\ EndedByHolder(t)

(* The end of a lease moves the task of the worker, and no other. *)
LEMMA EndMovesOne ==
  ASSUME TypeOK, WorkerClaims, AttemptJournal, NEW w \in Workers,
         pc[w] = "finish", HoldsLease(w), NEW status, NEW attempt,
         CloseLease(w, status, attempt), Release(w)
  PROVE  held[w] \in Tasks /\ MovesOne(held[w])
<1> DEFINE t == held[w]
<1>1. t \in Tasks /\ Active(t)
  BY HolderIsActive
<1>2. Refresh(BatchOf[t]) /\ \A s \in Tasks : s # t => taskStatus'[s] = taskStatus[s]
  BY DEF TypeOK, CloseLease
<1>3. held'[w] = NoTask /\ token[w] = leaseToken[t]
  BY DEF TypeOK, Release, HoldsLease
<1>4. EndedByHolder(t)
  BY <1>3 DEF EndedByHolder
<1> HIDE DEF t
<1>5. MovesOne(t)
  BY <1>1, <1>2, <1>4 DEF MovesOne
<1> QED
  BY <1>1, <1>5 DEF t

(* Every step that moves task rows or batch rows is of one of these kinds. *)
LEMMA TaskMoves ==
  ASSUME TypeOK, QueueInv, [Next]_vars
  PROVE  \/ Unrefreshed
         \/ \E t \in Tasks : MovesOne(t)
         \/ \E b \in Batches : CreateBatch(b)
         \/ \E w \in Workers : RequeueExpiredTasks(w)
<1> DEFINE Goal == \/ Unrefreshed
                   \/ \E t \in Tasks : MovesOne(t)
                   \/ \E b \in Batches : CreateBatch(b)
                   \/ \E w \in Workers : RequeueExpiredTasks(w)
<1>1. ASSUME NEW b \in Batches, NEW t \in Tasks,
             SkipTarget(b, t) \/ SkipBusyTarget(b, t)
      PROVE  Goal
  <2>1. BatchOf[t] = b /\ taskStatus[t] = "NONE" /\ recordSkipped(b, t)
    BY <1>1 DEF SkipTarget, SkipBusyTarget, QueueInv, UnreachedTargets
  <2>2. MovesOne(t)
    BY <2>1 DEF TypeOK, recordSkipped, MovesOne
  <2> QED
    BY <2>2
<1>2. ASSUME NEW b \in Batches, NEW t \in Tasks, AddTask(b, t)
      PROVE  Goal
  <2>1. MovesOne(t)
    BY <1>2 DEF TypeOK, AddTask, Adding, MovesOne
  <2> QED
    BY <2>1
<1>3. ASSUME NEW w \in Workers, NEW t \in Tasks, ClaimNextTask(w, t)
      PROVE  Goal
  <2>1. MovesOne(t)
    BY <1>3 DEF TypeOK, ClaimNextTask, Claimable, MovesOne
  <2> QED
    BY <2>1
<1>4. ASSUME NEW t \in Tasks, ResetTaskForManualRetry(t)
      PROVE  Goal
  <2>1. MovesOne(t)
    BY <1>4 DEF TypeOK, ResetTaskForManualRetry, MovesOne
  <2> QED
    BY <2>1
<1>5. ASSUME UNCHANGED <<taskStatus, batchRow>> PROVE Goal
  BY <1>5 DEF Unrefreshed
<1>6. ASSUME NEW w \in Workers,
             RetryTask(w) \/ FinishCancelled(w) \/ CompleteTask(w)
               \/ FinishTaskFailure(w)
      PROVE  Goal
  <2>1. pc[w] = "finish" /\ Release(w)
    BY <1>6 DEF RetryTask, FinishCancelled, CompleteTask, FinishTaskFailure,
       EndTask
  <2>2. ASSUME NEW status, NEW attempt, CloseLease(w, status, attempt),
               HoldsLease(w)
        PROVE  Goal
    <3>1. held[w] \in Tasks /\ MovesOne(held[w])
      BY <2>1, <2>2, EndMovesOne DEF QueueInv
    <3> QED
      BY <3>1
  <2> HIDE DEF Goal
  <2> QED
    BY <1>5, <1>6, <2>2 DEF RetryTask, FinishCancelled, CompleteTask,
       FinishTaskFailure, EndTask
<1>7. ASSUME ClosePlanQueue("SKIPPED") \/ ClosePlanQueue("CANCELLED"),
             batchRow' = batchRow
      PROVE  Goal
  <2>1. Unrefreshed
    BY <1>7 DEF ClosePlanQueue, Unrefreshed
  <2> QED
    BY <2>1
<1>8. ASSUME CancelTaskRow PROVE Goal
  <2>1. Unrefreshed
    BY <1>8 DEF TypeOK, CancelTaskRow, Unrefreshed
  <2> QED
    BY <2>1
<1>9. ASSUME NEW w \in Workers, SetTaskStatus(w) PROVE Goal
  <2>1. Unrefreshed
    BY <1>9 DEF TypeOK, SetTaskStatus, Unrefreshed
  <2> QED
    BY <2>1
<1>10. ASSUME NEW b \in Batches, CreateBatch(b) PROVE Goal
  BY <1>10
<1>11. ASSUME NEW w \in Workers, RequeueExpiredTasks(w) PROVE Goal
  BY <1>11
<1> HIDE DEF Goal
<1>12. Goal
  BY <1>1, <1>2, <1>3, <1>4, <1>5, <1>6, <1>7, <1>8, <1>9, <1>10, <1>11
     DEF Next, Expansion, WorkerStep, CancelStep, vars, ScopesValid,
     ScopeInvalid, ExpansionFails, ExpansionEnds, CreateBackupJob,
     AddTaskFails, BeginRequeue, RegisterCancel, StartBackupJob, ExecuteFails,
     CommitSnapshot, PauseAfterScopeFailure, PausePlanForScope, HeartbeatTask,
     CancelRead, CancelJobRow, CancelLookup, CancelAborted, UpdatePlan,
     BackoffElapses, LeaseExpires, Bind, Restart
<1> QED
  BY <1>12 DEF Goal

(* The outcome of a task is only reopened by a manual retry, for any tasks   *)
(* and workers: late cancel requests and workers that lost their lease do     *)
(* not overwrite it (CancelTask, CompleteTask, RetryTask, FinishTaskFailure).  *)
THEOREM OutcomesKept == Spec => OutcomesAreKept
<1> DEFINE Kept == \A t \in Tasks :
             taskStatus[t] \in TerminalStatuses /\ taskStatus'[t] # taskStatus[t] =>
               /\ taskStatus[t] \in FailedStatuses
               /\ taskStatus'[t] = "QUEUED"
               /\ replays' = replays + 1
<1>1. TypeOK /\ QueueInv /\ [Next]_vars => [Kept]_vars
  <2> SUFFICES ASSUME TypeOK, QueueInv, [Next]_vars PROVE Kept
    OBVIOUS
  <2>0. /\ "NONE" \notin TerminalStatuses /\ "QUEUED" \notin TerminalStatuses
        /\ \A s \in Tasks : Active(s) => taskStatus[s] \notin TerminalStatuses
    BY DEF TerminalStatuses, FailedStatuses, Active, ActiveStatuses
  <2>1. ASSUME Unrefreshed PROVE Kept
    BY <2>0, <2>1 DEF Unrefreshed
  <2>2. ASSUME NEW t \in Tasks, MovesOne(t) PROVE Kept
    BY <2>0, <2>2 DEF MovesOne
  <2>3. ASSUME NEW b \in Batches, CreateBatch(b) PROVE Kept
    BY <2>3 DEF CreateBatch
  <2>4. ASSUME NEW w \in Workers, RequeueExpiredTasks(w) PROVE Kept
    BY <2>0, <2>4 DEF RequeueExpiredTasks, Expired
  <2> HIDE DEF Kept
  <2> QED
    BY <2>1, <2>2, <2>3, <2>4, TaskMoves
<1> QED
  BY <1>1, TypeCorrect, QueueCorrect, PTL DEF Spec, OutcomesAreKept

(* Fencing, for any tasks and workers: only the worker that drew the current  *)
(* lease token, or the recovery of an expired lease, ends an active task.       *)
THEOREM OnlyHolderEnds == Spec => OnlyHolderEndsTask
<1> DEFINE Fenced == \A t \in Tasks :
             Active(t) /\ ~(taskStatus'[t] \in ActiveStatuses) =>
               \/ Expired(t)
               \/ \E w \in Workers : /\ held[w] = t /\ token[w] = leaseToken[t]
                                      /\ held'[w] = NoTask
<1>1. TypeOK /\ QueueInv /\ [Next]_vars => [Fenced]_vars
  <2> SUFFICES ASSUME TypeOK, QueueInv, [Next]_vars PROVE Fenced
    OBVIOUS
  <2>0. /\ "PRECHECKING" \in ActiveStatuses /\ "LEASED" \in ActiveStatuses
        /\ \A s \in Tasks : Active(s) => /\ taskStatus[s] \in ActiveStatuses
                                         /\ taskStatus[s] # "NONE"
                                         /\ taskStatus[s] # "QUEUED"
                                         /\ taskStatus[s] \notin FailedStatuses
    BY DEF FailedStatuses, Active, ActiveStatuses
  <2>1. ASSUME Unrefreshed PROVE Fenced
    BY <2>0, <2>1 DEF Unrefreshed
  <2>2. ASSUME NEW t \in Tasks, MovesOne(t) PROVE Fenced
    BY <2>0, <2>2 DEF MovesOne, EndedByHolder
  <2>3. ASSUME NEW b \in Batches, CreateBatch(b) PROVE Fenced
    BY <2>0, <2>3 DEF CreateBatch
  <2>4. ASSUME NEW w \in Workers, RequeueExpiredTasks(w) PROVE Fenced
    BY <2>0, <2>4 DEF RequeueExpiredTasks
  <2> HIDE DEF Fenced
  <2> QED
    BY <2>1, <2>2, <2>3, <2>4, TaskMoves
<1> QED
  BY <1>1, TypeCorrect, QueueCorrect, PTL DEF Spec, OnlyHolderEndsTask

--------------------------------------------------------------------------------
(* Batch rows *)

(* What BatchAccounting says of one row. *)
RowTrue(b, row, ts) ==
  /\ row.running = CountIn(b, ActiveStatuses, ts)
  /\ row.succeeded = CountIn(b, {"SUCCEEDED"}, ts)
  /\ row.status \in FinishedBatch =>
       CountIn(b, ActiveStatuses \cup {"QUEUED"}, ts) = 0

(* Counts depend on which tasks of the batch are in the set only. *)
LEMMA SameCount ==
  ASSUME NEW b, NEW S, NEW ts, NEW us,
         \A t \in Tasks : BatchOf[t] = b => (ts[t] \in S <=> us[t] \in S)
  PROVE  CountIn(b, S, ts) = CountIn(b, S, us)
<1>1. {t \in Tasks : BatchOf[t] = b /\ ts[t] \in S}
        = {t \in Tasks : BatchOf[t] = b /\ us[t] \in S}
  OBVIOUS
<1> QED
  BY <1>1 DEF CountIn

(* A count is zero when there is no such task. *)
LEMMA ZeroCount ==
  ASSUME NEW b, NEW S, NEW ts
  PROVE  CountIn(b, S, ts) = 0 <=> \A t \in Tasks : ~(BatchOf[t] = b /\ ts[t] \in S)
<1> DEFINE A == {t \in Tasks : BatchOf[t] = b /\ ts[t] \in S}
<1>1. IsFiniteSet(A)
  BY QueueAssumption, FS_Subset
<1>2. Cardinality(A) = 0 <=> A = {}
  BY <1>1, FS_EmptySet
<1> QED
  BY <1>2 DEF CountIn

(* A refreshed row is true of the tasks it was computed from. *)
LEMMA RefreshedTrue ==
  ASSUME NEW b, NEW ts
  PROVE  RowTrue(b, refreshBatch(b, ts), ts)
<1> DEFINE row == refreshBatch(b, ts)
<1>1. /\ row.running = CountIn(b, ActiveStatuses, ts)
      /\ row.succeeded = CountIn(b, {"SUCCEEDED"}, ts)
  BY DEF refreshBatch
<1>2. ASSUME row.status \in FinishedBatch
      PROVE  CountIn(b, {"QUEUED"}, ts) = 0 /\ CountIn(b, ActiveStatuses, ts) = 0
  BY <1>2 DEF refreshBatch, FinishedBatch
<1>3. ASSUME row.status \in FinishedBatch
      PROVE  CountIn(b, ActiveStatuses \cup {"QUEUED"}, ts) = 0
  BY <1>2, <1>3, ZeroCount
<1> HIDE DEF row
<1> QED
  BY <1>1, <1>3 DEF RowTrue, row

(* A row that is not refreshed stays true while no task of its batch becomes *)
(* or stops being active, succeeds or is queued again.                        *)
LEMMA UnrefreshedTrue ==
  ASSUME NEW b, NEW row, NEW ts, NEW us, RowTrue(b, row, ts),
         \A t \in Tasks : BatchOf[t] = b =>
           /\ ts[t] \in ActiveStatuses <=> us[t] \in ActiveStatuses
           /\ ts[t] = "SUCCEEDED" <=> us[t] = "SUCCEEDED"
           /\ us[t] = "QUEUED" => ts[t] = "QUEUED"
  PROVE  RowTrue(b, row, us)
<1>1. CountIn(b, ActiveStatuses, ts) = CountIn(b, ActiveStatuses, us)
  BY SameCount
<1>2. CountIn(b, {"SUCCEEDED"}, ts) = CountIn(b, {"SUCCEEDED"}, us)
  BY SameCount
<1>3. CountIn(b, ActiveStatuses \cup {"QUEUED"}, ts) = 0
        => CountIn(b, ActiveStatuses \cup {"QUEUED"}, us) = 0
  BY ZeroCount
<1> QED
  BY <1>1, <1>2, <1>3 DEF RowTrue

(* Every step keeps the rows true. *)
LEMMA AccountingStep ==
  ASSUME TypeOK, QueueInv, BatchAccounting, [Next]_vars
  PROVE  BatchAccounting'
<1>1. \A b \in Batches : RowTrue(b, batchRow[b], taskStatus)
  BY DEF BatchAccounting, RowTrue
<1>2. ASSUME \A b \in Batches : RowTrue(b, batchRow'[b], taskStatus')
      PROVE  BatchAccounting'
  BY <1>2 DEF BatchAccounting, RowTrue
<1> SUFFICES ASSUME NEW b \in Batches PROVE RowTrue(b, batchRow'[b], taskStatus')
  BY <1>2
<1>3. CASE Unrefreshed
  <2>1. \A t \in Tasks :
          /\ taskStatus[t] \in ActiveStatuses <=> taskStatus'[t] \in ActiveStatuses
          /\ taskStatus[t] = "SUCCEEDED" <=> taskStatus'[t] = "SUCCEEDED"
          /\ taskStatus'[t] = "QUEUED" => taskStatus[t] = "QUEUED"
    BY <1>3 DEF Unrefreshed, Active, ActiveStatuses
  <2>2. batchRow'[b] = batchRow[b]
    BY <1>3 DEF Unrefreshed
  <2> QED
    BY <1>1, <2>1, <2>2, UnrefreshedTrue
<1>4. ASSUME NEW t \in Tasks, MovesOne(t)
      PROVE  RowTrue(b, batchRow'[b], taskStatus')
  <2>1. CASE b = BatchOf[t]
    <3>1. batchRow'[b] = refreshBatch(b, taskStatus')
      BY <1>4, <2>1 DEF MovesOne, Refresh, TypeOK
    <3> QED
      BY <3>1, RefreshedTrue
  <2>2. CASE b # BatchOf[t]
    <3>1. batchRow'[b] = batchRow[b]
      BY <1>4, <2>2 DEF MovesOne, Refresh, TypeOK
    <3>2. \A s \in Tasks : BatchOf[s] = b => taskStatus'[s] = taskStatus[s]
      BY <1>4, <2>2 DEF MovesOne
    <3> QED
      BY <1>1, <3>1, <3>2, UnrefreshedTrue
  <2> QED
    BY <2>1, <2>2
<1>5. ASSUME NEW c \in Batches, CreateBatch(c)
      PROVE  RowTrue(b, batchRow'[b], taskStatus')
  <2>1. /\ phase[c] = "new" /\ taskStatus' = taskStatus
        /\ batchRow' = [batchRow EXCEPT ![c] = EmptyRow("QUEUED")]
    BY <1>5 DEF CreateBatch
  <2>2. CASE b = c
    <3>1. batchRow'[b] = EmptyRow("QUEUED")
      BY <2>1, <2>2 DEF TypeOK
    <3>2. \A t \in Tasks : BatchOf[t] = b => taskStatus[t] = "NONE"
      BY <2>1, <2>2 DEF QueueInv, UnreachedTargets
    <3>3. "NONE" \notin ActiveStatuses /\ "NONE" \notin {"SUCCEEDED"}
      BY DEF ActiveStatuses
    <3>4. /\ CountIn(b, ActiveStatuses, taskStatus) = 0
          /\ CountIn(b, {"SUCCEEDED"}, taskStatus) = 0
      BY <3>2, <3>3, ZeroCount
    <3> QED
      BY <2>1, <3>1, <3>4 DEF RowTrue, EmptyRow, FinishedBatch
  <2>3. CASE b # c
    BY <1>1, <2>1, <2>3 DEF TypeOK
  <2> QED
    BY <2>2, <2>3
<1>6. ASSUME NEW w \in Workers, RequeueExpiredTasks(w)
      PROVE  RowTrue(b, batchRow'[b], taskStatus')
  <2>1. CASE \E t \in Tasks : Expired(t) /\ BatchOf[t] = b
    <3>1. batchRow'[b] = refreshBatch(b, taskStatus')
      BY <1>6, <2>1 DEF RequeueExpiredTasks
    <3> QED
      BY <3>1, RefreshedTrue
  <2>2. CASE ~\E t \in Tasks : Expired(t) /\ BatchOf[t] = b
    <3>1. batchRow'[b] = batchRow[b]
      BY <1>6, <2>2 DEF RequeueExpiredTasks
    <3>2. \A s \in Tasks : BatchOf[s] = b => taskStatus'[s] = taskStatus[s]
      BY <1>6, <2>2 DEF RequeueExpiredTasks
    <3> QED
      BY <1>1, <3>1, <3>2, UnrefreshedTrue
  <2> QED
    BY <2>1, <2>2
<1> QED
  BY <1>3, <1>4, <1>5, <1>6, TaskMoves

(* The counters of running and succeeded tasks are exact, and a finished      *)
(* batch has nothing left to do, for any batches and tasks (refreshBatch and    *)
(* the statements that do without it).                                          *)
THEOREM BatchAccountingHolds == Spec => []BatchAccounting
<1>1. Init => BatchAccounting
  <2> SUFFICES ASSUME Init, NEW b \in Batches
               PROVE  /\ batchRow[b].running = CountIn(b, ActiveStatuses, taskStatus)
                      /\ batchRow[b].succeeded
                           = CountIn(b, {"SUCCEEDED"}, taskStatus)
                      /\ batchRow[b].status \notin FinishedBatch
    BY DEF BatchAccounting
  <2>1. \A t \in Tasks : taskStatus[t] = "NONE"
    BY DEF Init
  <2>2. "NONE" \notin ActiveStatuses /\ "NONE" \notin {"SUCCEEDED"}
    BY DEF ActiveStatuses
  <2>3. /\ CountIn(b, ActiveStatuses, taskStatus) = 0
        /\ CountIn(b, {"SUCCEEDED"}, taskStatus) = 0
    BY <2>1, <2>2, ZeroCount
  <2>4. batchRow[b] = EmptyRow("NONE")
    BY DEF Init
  <2> QED
    BY <2>3, <2>4 DEF EmptyRow, FinishedBatch
<1> QED
  BY <1>1, AccountingStep, TypeCorrect, QueueCorrect, PTL DEF Spec

--------------------------------------------------------------------------------
(* Automatic retries *)

(* The attempts a task may have while a worker of this process is at its last *)
(* one, less one.                                                              *)
Room(t) == RetryBudget(t) + crashes + replays

(* Tasks that may be claimed once more without a manual retry: queued ones,    *)
(* and leases that nobody in this process holds.                                *)
AwaitsClaim(t) ==
  taskStatus[t] \in {"NONE", "QUEUED"} \/ (Active(t) /\ ~HeldInProcess(t))

RetryInv ==
  \A t \in Tasks : /\ Len(attemptLog[t]) <= Room(t) + 1
                   /\ AwaitsClaim(t) => Len(attemptLog[t]) <= Room(t)

(* The numbers involved. *)
LEMMA RoomTypes ==
  ASSUME TypeOK, NEW t \in Tasks
  PROVE  /\ RetryBudget(t) \in Nat /\ Room(t) \in Nat
         /\ RetryBudget(t) <= Room(t) /\ Len(attemptLog[t]) \in Nat
         /\ attemptLog[t] \in Seq(AttemptStatuses)
<1>1. RetryBudget(t) \in Nat /\ crashes \in Nat /\ replays \in Nat
  BY QueueAssumption DEF TypeOK, RetryBudget
<1>2. attemptLog[t] \in Seq(AttemptStatuses)
  BY DEF TypeOK
<1> QED
  BY <1>1, <1>2 DEF Room

(* A worker that ends its task leaves the other tasks as they were. *)
LEMMA ReleaseKeepsOthers ==
  ASSUME TypeOK, RetryInv, NEW w \in Workers, Release(w),
         NEW s \in Tasks, s # held[w], taskStatus'[s] = taskStatus[s],
         attemptLog'[s] = attemptLog[s], UNCHANGED <<crashes, replays>>
  PROVE  /\ Len(attemptLog'[s]) <= Room(s)' + 1
         /\ AwaitsClaim(s)' => Len(attemptLog'[s]) <= Room(s)'
<1>1. Room(s)' = Room(s)
  BY DEF Room, RetryBudget, PlanTask
<1>2. HeldInProcess(s) => HeldInProcess(s)'
  BY QueueAssumption DEF TypeOK, Release, HeldInProcess
<1>3. AwaitsClaim(s)' => AwaitsClaim(s)
  BY <1>2 DEF AwaitsClaim, Active
<1> QED
  BY <1>1, <1>3 DEF RetryInv

(* Where leases are safe, every step keeps RetryInv. *)
LEMMA RetryStep ==
  ASSUME SafeLeases, TypeOK, QueueInv, RetryInv, [Next]_vars
  PROVE  RetryInv'
<1>0. LiveLeases /\ WorkerClaims /\ AttemptJournal
  BY DEF QueueInv
<1>a. ASSUME NEW s \in Tasks
      PROVE  /\ UNCHANGED <<crashes, replays>> => Room(s)' = Room(s)
             /\ crashes' = crashes + 1 /\ replays' = replays => Room(s)' = Room(s) + 1
             /\ crashes' = crashes /\ replays' = replays + 1 => Room(s)' = Room(s) + 1
  <2>1. RetryBudget(s) \in Nat /\ crashes \in Nat /\ replays \in Nat
    BY RoomTypes DEF TypeOK
  <2>2. Room(s)' = RetryBudget(s) + crashes' + replays'
    BY DEF Room, RetryBudget, PlanTask
  <2> QED
    BY <2>1, <2>2 DEF Room
<1>b. \A s \in Tasks : Len(attemptLog[s]) \in Nat /\ Room(s) \in Nat
  BY RoomTypes
<1> SUFFICES ASSUME NEW s \in Tasks
             PROVE  /\ Len(attemptLog'[s]) <= Room(s)' + 1
                    /\ AwaitsClaim(s)' => Len(attemptLog'[s]) <= Room(s)'
  BY DEF RetryInv
<1> DEFINE Goal == /\ Len(attemptLog'[s]) <= Room(s)' + 1
                   /\ AwaitsClaim(s)' => Len(attemptLog'[s]) <= Room(s)'
<1>1. ASSUME Restart \/ (\E t \in Tasks : ResetTaskForManualRetry(t)) PROVE Goal
  <2>1. attemptLog' = attemptLog /\ Room(s)' = Room(s) + 1
    BY <1>1, <1>a DEF Restart, ResetTaskForManualRetry
  <2>2. Len(attemptLog[s]) <= Room(s) + 1
    BY DEF RetryInv
  <2> QED
    BY <1>b, <2>1, <2>2
<1>2. ASSUME NEW w \in Workers, NEW t \in Tasks, ClaimNextTask(w, t) PROVE Goal
  <2>1. /\ taskStatus[t] = "QUEUED" /\ held[w] = NoTask
        /\ taskStatus' = [taskStatus EXCEPT ![t] = "LEASED"]
        /\ attemptLog' = [attemptLog EXCEPT ![t] = Append(@, "RUNNING")]
        /\ held' = [held EXCEPT ![w] = t] /\ UNCHANGED <<crashes, replays>>
    BY <1>0, <1>2 DEF ClaimNextTask, Claimable, WorkerClaims, ClaimBacked
  <2>2. Room(s)' = Room(s)
    BY <1>a, <2>1
  <2>3. CASE s = t
    <3>1. Len(attemptLog[s]) <= Room(s)
      BY <2>1, <2>3 DEF RetryInv, AwaitsClaim
    <3>2. Len(attemptLog'[s]) = Len(attemptLog[s]) + 1
      BY <2>1, <2>3, RoomTypes DEF TypeOK
    <3>3. held'[w] = s /\ taskStatus'[s] = "LEASED"
      BY <2>1, <2>3 DEF TypeOK
    <3>4. ~AwaitsClaim(s)'
      BY <3>3 DEF AwaitsClaim, HeldInProcess
    <3> QED
      BY <1>b, <2>2, <3>1, <3>2, <3>4
  <2>4. CASE s # t
    <3>1. taskStatus'[s] = taskStatus[s] /\ attemptLog'[s] = attemptLog[s]
      BY <2>1, <2>4 DEF TypeOK
    <3>2. HeldInProcess(s) => HeldInProcess(s)'
      BY <2>1, QueueAssumption DEF TypeOK, HeldInProcess
    <3>3. AwaitsClaim(s)' => AwaitsClaim(s)
      BY <3>1, <3>2 DEF AwaitsClaim, Active
    <3> QED
      BY <2>2, <3>1, <3>3 DEF RetryInv
  <2> QED
    BY <2>3, <2>4
<1>3. ASSUME NEW w \in Workers, RequeueExpiredTasks(w) PROVE Goal
  <2>1. /\ UNCHANGED <<held, crashes, replays>> /\ pc[w] = "requeue"
        /\ held[w] = NoTask
    BY <1>0, <1>3 DEF RequeueExpiredTasks, WorkerClaims, ClaimBacked
  <2>2. Room(s)' = Room(s) /\ (HeldInProcess(s)' <=> HeldInProcess(s))
    BY <1>a, <2>1 DEF HeldInProcess
  <2>3. CASE Expired(s)
    <3>1. ~HeldInProcess(s)
      <4>1. ASSUME NEW v \in Workers, held[v] = s PROVE FALSE
        <5>1. CASE Suspensions
          BY <2>1, <4>1, <5>1, QueueAssumption DEF SafeLeases
        <5>2. CASE ~Suspensions
          BY <1>0, <2>3, <4>1, <5>2, QueueAssumption
             DEF LiveLeases, LiveLease, Expired
        <5> QED
          BY <5>1, <5>2
      <4> QED
        BY <4>1 DEF HeldInProcess
    <3>2. Len(attemptLog[s]) <= Room(s)
      BY <2>3, <3>1 DEF RetryInv, AwaitsClaim, Expired
    <3>3. "INTERRUPTED" \in AttemptStatuses
      BY DEF AttemptStatuses
    <3>4. Len(attemptLog'[s]) = Len(attemptLog[s])
      BY <1>3, <2>3, <3>3, RoomTypes, ClosedAttempts DEF RequeueExpiredTasks
    <3> QED
      BY <1>b, <2>2, <3>2, <3>4
  <2>4. CASE ~Expired(s)
    <3>1. taskStatus'[s] = taskStatus[s] /\ attemptLog'[s] = attemptLog[s]
      BY <1>3, <2>4 DEF RequeueExpiredTasks
    <3>2. AwaitsClaim(s)' => AwaitsClaim(s)
      BY <2>2, <3>1 DEF AwaitsClaim, Active
    <3> QED
      BY <2>2, <3>1, <3>2 DEF RetryInv
  <2> QED
    BY <2>3, <2>4
<1>4. ASSUME NEW w \in Workers, pc[w] = "finish"
      PROVE  /\ held[w] \in Tasks /\ HoldsLease(w) /\ Active(held[w])
             /\ Len(attemptLog[held[w]]) = token[w]
  <2>1. held[w] \in Tasks /\ held[w] # NoTask
    BY <1>0, <1>4, QueueAssumption DEF WorkerClaims, ClaimBacked
  <2>2. HoldsLease(w)
    BY <1>0, <2>1 DEF LiveLeases, LiveLease, HoldsLease
  <2>3. Active(held[w])
    BY <1>0, <1>4, <2>2, HolderIsActive
  <2> QED
    BY <1>0, <2>1, <2>2, <2>3 DEF AttemptJournal, HoldsLease
<1>5. ASSUME NEW w \in Workers, NEW status, NEW attempt \in AttemptStatuses,
             pc[w] = "finish", CloseLease(w, status, attempt), Release(w),
             UNCHANGED <<crashes, replays>>,
             status \in TerminalStatuses
               \/ (status = "QUEUED" /\ token[w] <= RetryBudget(held[w]))
      PROVE  Goal
  <2>1. held[w] \in Tasks /\ Len(attemptLog[held[w]]) = token[w]
    BY <1>4, <1>5
  <2>2. /\ taskStatus' = [taskStatus EXCEPT ![held[w]] = status]
        /\ attemptLog' = [attemptLog EXCEPT ![held[w]] =
                            CloseAttempts(attemptLog[held[w]], attempt)]
    BY <1>5 DEF CloseLease
  <2>3. CASE s = held[w]
    <3>1. taskStatus'[s] = status /\ Room(s)' = Room(s)
      BY <1>5, <1>a, <2>2, <2>3 DEF TypeOK
    <3>2. attemptLog'[s] = CloseAttempts(attemptLog[s], attempt)
      BY <2>2, <2>3 DEF TypeOK
    <3>3. Len(attemptLog'[s]) = Len(attemptLog[s])
      BY <1>5, <3>2, RoomTypes, ClosedAttempts
    <3>4. Len(attemptLog[s]) <= Room(s) + 1
      BY DEF RetryInv
    <3>5. CASE status \in TerminalStatuses
      <4>1. ~AwaitsClaim(s)'
        BY <3>1, <3>5 DEF AwaitsClaim, Active, TerminalStatuses, FailedStatuses,
           ActiveStatuses
      <4> QED
        BY <3>1, <3>3, <3>4, <4>1
    <3>6. CASE token[w] <= RetryBudget(held[w])
      <4>1. Len(attemptLog[s]) <= Room(s)
        BY <1>b, <2>1, <2>3, <3>6, RoomTypes
      <4> QED
        BY <1>b, <3>1, <3>3, <4>1
    <3> QED
      BY <1>5, <3>5, <3>6
  <2>4. CASE s # held[w]
    <3>1. taskStatus'[s] = taskStatus[s] /\ attemptLog'[s] = attemptLog[s]
      BY <2>2, <2>4 DEF TypeOK
    <3> QED
      BY <1>5, <2>4, <3>1, ReleaseKeepsOthers
  <2> QED
    BY <2>3, <2>4
<1>6. ASSUME NEW w \in Workers, FinishCancelled(w) \/ CompleteTask(w)
                                \/ FinishTaskFailure(w)
      PROVE  Goal
  <2>1. PICK status : /\ EndTask(w, status) /\ pc[w] = "finish"
                      /\ status \in AttemptStatuses
                      /\ status \in TerminalStatuses
    BY <1>6 DEF FinishCancelled, CompleteTask, FinishTaskFailure,
       AttemptStatuses, FailedStatuses, TerminalStatuses
  <2>2. HoldsLease(w)
    BY <1>4, <2>1
  <2>3. /\ CloseLease(w, status, status) /\ Release(w)
        /\ UNCHANGED <<crashes, replays>>
    BY <2>1, <2>2 DEF EndTask
  <2> HIDE DEF Goal
  <2> QED
    BY <1>5, <2>1, <2>3
<1>7. ASSUME NEW w \in Workers, RetryTask(w) PROVE Goal
  <2>1. /\ pc[w] = "finish" /\ Release(w) /\ UNCHANGED <<crashes, replays>>
        /\ token[w] <= RetryBudget(held[w])
    BY <1>7 DEF RetryTask, MayRetry
  <2>2. CASE CloseLease(w, "QUEUED", "FAILED")
    <3>1. "FAILED" \in AttemptStatuses
      BY DEF AttemptStatuses, FailedStatuses
    <3> HIDE DEF Goal
    <3>2. Goal
      BY <1>5, <2>1, <2>2, <3>1
    <3> QED
      BY <3>2 DEF Goal
  <2>3. CASE UNCHANGED <<taskStatus, attemptLog>>
    <3>1. CASE s = held[w]
      <4>1. Len(attemptLog[s]) <= Room(s)
        BY <1>4, <1>b, <2>1, <3>1, RoomTypes
      <4>2. Room(s)' = Room(s)
        BY <1>a, <2>1
      <4> QED
        BY <1>b, <2>3, <4>1, <4>2
    <3>2. CASE s # held[w]
      BY <2>1, <2>3, <3>2, ReleaseKeepsOthers
    <3> QED
      BY <3>1, <3>2
  <2> QED
    BY <1>7, <2>2, <2>3 DEF RetryTask
<1>8. ASSUME UNCHANGED <<held, attemptLog, crashes, replays>> PROVE Goal
  <2>1. Room(s)' = Room(s) /\ (HeldInProcess(s)' <=> HeldInProcess(s))
    BY <1>8, <1>a DEF HeldInProcess
  <2>2. ASSUME AwaitsClaim(s)' => AwaitsClaim(s) PROVE Goal
    BY <1>8, <2>1, <2>2 DEF RetryInv
  <2>3. ASSUME Unrefreshed PROVE AwaitsClaim(s)' => AwaitsClaim(s)
    BY <2>1, <2>3 DEF Unrefreshed, AwaitsClaim, Active, ActiveStatuses
  <2>4. ASSUME NEW t \in Tasks, MovesOne(t) PROVE AwaitsClaim(s)' => AwaitsClaim(s)
    <3>1. replays' # replays + 1
      BY <1>8 DEF TypeOK
    <3>2. ~EndedByHolder(t)
      BY <1>8, QueueAssumption DEF EndedByHolder
    <3>3. taskStatus[t] \in {"NONE", "QUEUED"}
      BY <2>4, <3>1, <3>2 DEF MovesOne
    <3>4. CASE s = t
      BY <3>3, <3>4 DEF AwaitsClaim
    <3>5. CASE s # t
      <4>1. taskStatus'[s] = taskStatus[s]
        BY <2>4, <3>5 DEF MovesOne
      <4> QED
        BY <2>1, <4>1 DEF AwaitsClaim, Active
    <3> QED
      BY <3>4, <3>5
  <2>5. ASSUME NEW b \in Batches, CreateBatch(b) PROVE AwaitsClaim(s)' => AwaitsClaim(s)
    BY <2>1, <2>5 DEF CreateBatch, AwaitsClaim, Active
  <2> HIDE DEF Goal
  <2> QED
    BY <1>3, <2>2, <2>3, <2>4, <2>5, TaskMoves
<1> HIDE DEF Goal
<1>9. Goal
  BY <1>1, <1>2, <1>3, <1>6, <1>7, <1>8 DEF Next, Expansion, WorkerStep,
     CancelStep, vars, CreateBatch, ScopesValid, ScopeInvalid, ExpansionFails,
     ExpansionEnds, SkipTarget, SkipBusyTarget, recordSkipped, CreateBackupJob,
     AddTask, AddTaskFails, BeginRequeue, RegisterCancel, SetTaskStatus,
     StartBackupJob, ExecuteFails, CommitSnapshot, PauseAfterScopeFailure,
     HeartbeatTask, CancelRead, CancelTaskRow, CancelJobRow, CancelLookup,
     CancelAborted, UpdatePlan, BackoffElapses, LeaseExpires, Bind
<1> QED
  BY <1>9 DEF Goal

(* Where leases are safe, interruptions use up automatic retries but never    *)
(* add to them, for any budget, number of restarts and of manual retries        *)
(* (RetryTask, RequeueExpiredTasks, ResetTaskForManualRetry).                    *)
THEOREM RetriesBoundedHolds ==
  ASSUME SafeLeases
  PROVE  Spec => []RetriesBounded
<1>1. Init => RetryInv
  <2> SUFFICES ASSUME Init, NEW t \in Tasks
               PROVE  Len(attemptLog[t]) <= Room(t) + 1 /\ Len(attemptLog[t]) <= Room(t)
    BY DEF RetryInv
  <2>1. Len(attemptLog[t]) = 0 /\ crashes = 0 /\ replays = 0
    BY DEF Init
  <2>2. RetryBudget(t) \in Nat
    BY QueueAssumption DEF RetryBudget
  <2> QED
    BY <2>1, <2>2 DEF Room
<1>2. TypeOK /\ QueueInv /\ RetryInv /\ [Next]_vars => RetryInv'
  BY RetryStep
<1>3. TypeOK /\ RetryInv => RetriesBounded
  <2> SUFFICES ASSUME TypeOK, RetryInv, NEW t \in Tasks
               PROVE  Len(attemptLog[t]) <= RetryBudget(t) + 1 + crashes + replays
    BY DEF RetriesBounded
  <2>1. RetryBudget(t) \in Nat /\ crashes \in Nat /\ replays \in Nat
    BY RoomTypes DEF TypeOK
  <2>2. Len(attemptLog[t]) \in Nat /\ Len(attemptLog[t]) <= Room(t) + 1
    BY RoomTypes DEF RetryInv
  <2> QED
    BY <2>1, <2>2 DEF Room
<1> QED
  BY <1>1, <1>2, <1>3, TypeCorrect, QueueCorrect, PTL DEF Spec

================================================================================
