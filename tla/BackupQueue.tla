------------------------------ MODULE BackupQueue ------------------------------
(***************************************************************************)
(* The persistent task queue of the backup server: enqueueing of manual    *)
(* and plan batches, lease-based workers, automatic and manual retries,    *)
(* cancellation, the scope pause of a plan, and restarts of the process.   *)
(*                                                                         *)
(* The control database is SQLite behind a single connection, so every     *)
(* statement outside a transaction, and every transaction, is one step.    *)
(* Sources: internal/queue/service.go, internal/persistence/queue.go and   *)
(* the job operations of internal/persistence/store.go and                 *)
(* internal/backup/service.go.  One tenant is modelled: every statement    *)
(* filters on it.                                                          *)
(***************************************************************************)
EXTENDS Naturals, Sequences, FiniteSets

CONSTANTS
  Tasks,          (* Task ids.  A task has exactly one backup job, so the  *)
                  (* job is named by its task.                             *)
  Batches,        (* Batch ids.                                            *)
  PlanBatches,    (* The batches that expand the plan; others are manual.  *)
  Deploys,        (* Application instances.                                *)
  BatchOf,        (* The batch of a task.                                  *)
  DeployOf,       (* The application instance a task backs up.             *)
  Workers,        (* Worker goroutines.                                    *)
  MaxRetries,     (* plan.Retry.MaxRetries.                                *)
  Missable,       (* Tasks whose instance may be gone from the catalog.    *)
  Suspensions,    (* May the process stall longer than a lease?            *)
  SlowRestart,    (* Does the first request after a restart come only once *)
                  (* every old lease has expired?                          *)
  NoTask, NoWorker,
  MaxCrashes,     (* Bounds: restarts,                                     *)
  MaxCancels,     (* cancel requests,                                      *)
  MaxReplays,     (* manual retries                                        *)
  MaxEdits        (* and edits of the plan.                                *)

(***************************************************************************)
(* What the code guarantees of the constants: ids are not reused as the    *)
(* null values, task ids are finite, and a batch has at most one task per  *)
(* instance (the unique index on batch_id, deploy_id).                     *)
(***************************************************************************)
ASSUME QueueAssumption ==
  /\ IsFiniteSet(Tasks) /\ NoTask \notin Tasks /\ NoWorker \notin Workers
  /\ BatchOf \in [Tasks -> Batches] /\ DeployOf \in [Tasks -> Deploys]
  /\ PlanBatches \subseteq Batches /\ Missable \subseteq Tasks
  /\ \A s, t \in Tasks :
       BatchOf[s] = BatchOf[t] /\ DeployOf[s] = DeployOf[t] => s = t
  /\ MaxRetries \in Nat /\ MaxCrashes \in Nat /\ MaxCancels \in Nat
  /\ MaxReplays \in Nat /\ MaxEdits \in Nat
  /\ Suspensions \in BOOLEAN /\ SlowRestart \in BOOLEAN

VARIABLES
  \* Control database.
  jobStatus,     (* backup_jobs.status.  SUCCEEDED is written in the       *)
                 (* transaction that inserts the snapshot row, so it also  *)
                 (* stands for "the snapshot row exists".                  *)
  taskStatus,    (* backup_tasks.status.                                   *)
  attemptLog,    (* The status column of task_attempts, by attempt number; *)
                 (* its length is backup_tasks.attempt_count.              *)
  leaseToken,    (* lease_token: 0 is '', otherwise the attempt that drew  *)
                 (* the random token.                                      *)
  leaseExpired,  (* lease_expires_at has passed.                           *)
  available,     (* available_at has passed.                               *)
  batchRow,      (* backup_batches: status and counters.                   *)
  planPaused,    (* The plan carries a scope pause reason.                 *)
  \* Memory of the process.
  bound,         (* The tenant scope is bound (first request seen).        *)
  requeued,      (* Service.requeued[tenant].                              *)
  pc, held, token, code, ctxDone, (* Each worker: step, task, lease token, *)
                 (* outcome of ExecuteJob, context cancelled.              *)
  cancelByID,    (* Service.cancelByID: the worker whose context a task id *)
                 (* cancels.                                               *)
  phase, remaining, (* Each batch: step of its expansion, targets left.    *)
  cancelPc, cancelTask, (* The cancel request being served.                *)
  \* Environment counters.
  crashes, cancels, replays, edits

dbVars == <<jobStatus, taskStatus, attemptLog, leaseToken, leaseExpired,
            available, batchRow, planPaused>>
leaseVars == <<attemptLog, leaseToken, leaseExpired, available>>
workerVars == <<pc, held, token, code, ctxDone, cancelByID>>
expansionVars == <<phase, remaining>>
cancelVars == <<cancelPc, cancelTask>>
processVars == <<bound, requeued>>
envVars == <<crashes, cancels, replays, edits>>
vars == <<dbVars, workerVars, expansionVars, cancelVars, processVars, envVars>>

--------------------------------------------------------------------------------
(* Statuses *)

ActiveStatuses == {"LEASED", "PRECHECKING"}
FailedStatuses == {"FAILED", "TIMED_OUT", "CANCELLED"}
TerminalStatuses == FailedStatuses \cup {"SUCCEEDED", "SKIPPED"}
TaskStatuses == {"NONE", "QUEUED"} \cup ActiveStatuses \cup TerminalStatuses
JobStatuses == {"NONE", "QUEUED", "RUNNING", "SUCCEEDED", "FAILED"}
AttemptStatuses == {"RUNNING", "SUCCEEDED", "INTERRUPTED"} \cup FailedStatuses
BatchStatuses == {"NONE", "QUEUED", "RUNNING", "SUCCEEDED", "FAILED", "SKIPPED"}
FinishedBatch == {"SUCCEEDED", "FAILED", "SKIPPED"}

Active(t) == taskStatus[t] \in ActiveStatuses
OpenJob(t) == jobStatus[t] \in {"QUEUED", "RUNNING"}
PlanTask(t) == BatchOf[t] \in PlanBatches

(* The automatic retries a task is allowed: a manual backup gets none. *)
RetryBudget(t) == IF PlanTask(t) THEN MaxRetries ELSE 0

(* Plan tasks are enqueued with priority 10, manual ones with 0. *)
Outranks(s, t) == PlanTask(s) /\ ~PlanTask(t)

(* Mutant: an index that forgets the queued jobs. *)
BusyWhenRunning(t) ==
  \E s \in Tasks : s # t /\ DeployOf[s] = DeployOf[t] /\ jobStatus[s] = "RUNNING"

(* The partial unique index on open jobs: another job holds the instance. *)
InstanceBusy(t) ==
  \E s \in Tasks : s # t /\ DeployOf[s] = DeployOf[t] /\ OpenJob(s)

(* Codes are classed by what Service.execute tells apart. *)
Retryable(c) == c \in {"ERROR", "TIMED_OUT"}

(***************************************************************************)
(* refreshBatch recomputes a batch row from the task rows it is given.     *)
(***************************************************************************)
EmptyRow(status) ==
  [status |-> status, succeeded |-> 0, failed |-> 0, skipped |-> 0,
   running |-> 0, queued |-> 0]

CountIn(b, S, ts) == Cardinality({t \in Tasks : BatchOf[t] = b /\ ts[t] \in S})

refreshBatch(b, ts) ==
  LET succeeded == CountIn(b, {"SUCCEEDED"}, ts)
      failed    == CountIn(b, FailedStatuses, ts)
      skipped   == CountIn(b, {"SKIPPED"}, ts)
      running   == CountIn(b, ActiveStatuses, ts)
      queued    == CountIn(b, {"QUEUED"}, ts)
      finished  == queued = 0 /\ running = 0
  IN  [status |-> IF finished
                    THEN IF failed > 0 THEN "FAILED"
                         ELSE IF succeeded > 0 THEN "SUCCEEDED" ELSE "SKIPPED"
                    ELSE IF running + succeeded + failed + skipped > 0
                           THEN "RUNNING" ELSE "QUEUED",
       succeeded |-> succeeded, failed |-> failed, skipped |-> skipped,
       running |-> running, queued |-> queued]

(* Mutant: the row is recomputed before the task is updated. *)
RefreshTooEarly(b) ==
  batchRow' = [batchRow EXCEPT ![b] = refreshBatch(b, taskStatus)]

Refresh(b) == batchRow' = [batchRow EXCEPT ![b] = refreshBatch(b, taskStatus')]

(* Mutant: the attempts are left as they are. *)
KeepAttempts(log, s) == log

(* UPDATE task_attempts SET status=s WHERE task_id=t AND status='RUNNING' *)
CloseAttempts(log, s) ==
  [i \in 1..Len(log) |-> IF log[i] = "RUNNING" THEN s ELSE log[i]]

--------------------------------------------------------------------------------
Init ==
  /\ jobStatus = [t \in Tasks |-> "NONE"]
  /\ taskStatus = [t \in Tasks |-> "NONE"]
  /\ attemptLog = [t \in Tasks |-> <<>>]
  /\ leaseToken = [t \in Tasks |-> 0]
  /\ leaseExpired = [t \in Tasks |-> FALSE]
  /\ available = [t \in Tasks |-> FALSE]
  /\ batchRow = [b \in Batches |-> EmptyRow("NONE")]
  /\ planPaused = FALSE
  /\ bound = FALSE
  /\ requeued = FALSE
  /\ pc = [w \in Workers |-> "poll"]
  /\ held = [w \in Workers |-> NoTask]
  /\ token = [w \in Workers |-> 0]
  /\ code = [w \in Workers |-> "NONE"]
  /\ ctxDone = [w \in Workers |-> FALSE]
  /\ cancelByID = [t \in Tasks |-> NoWorker]
  /\ phase = [b \in Batches |-> "new"]
  /\ remaining = [b \in Batches |-> {}]
  /\ cancelPc = "idle"
  /\ cancelTask = NoTask
  /\ crashes = 0 /\ cancels = 0 /\ replays = 0 /\ edits = 0

--------------------------------------------------------------------------------
(* Enqueueing: StartManual and RunPlan, one step per transaction. *)

(***************************************************************************)
(* CreateBatch.  A plan run then loads its targets, leaving out those      *)
(* whose instance is gone from the catalog; a manual backup looked its     *)
(* instance up before.                                                     *)
(***************************************************************************)
CreateBatch(b) ==
  /\ bound
  /\ phase[b] = "new"
  /\ batchRow' = [batchRow EXCEPT ![b] = EmptyRow("QUEUED")]
  /\ \E lost \in SUBSET Missable :
       /\ b \notin PlanBatches => lost = {}
       /\ remaining' = [remaining EXCEPT ![b] =
                          {t \in Tasks \ lost : BatchOf[t] = b}]
  /\ phase' = [phase EXCEPT ![b] =
                 IF b \in PlanBatches THEN "validate" ELSE "expand"]
  /\ UNCHANGED <<jobStatus, taskStatus, leaseVars, planPaused, workerVars,
                 cancelVars, processVars, envVars>>

(* Every target's scope is still there. *)
ScopesValid(b) ==
  /\ phase[b] = "validate"
  /\ phase' = [phase EXCEPT ![b] = "expand"]
  /\ UNCHANGED <<dbVars, workerVars, remaining, cancelVars, processVars,
                 envVars>>

(***************************************************************************)
(* PausePlanForScope: one transaction that pauses the plan and closes its  *)
(* queued tasks and queued jobs.  It does not refresh their batches.       *)
(***************************************************************************)
ClosePlanQueue(status) ==
  /\ taskStatus' = [t \in Tasks |->
       IF PlanTask(t) /\ taskStatus[t] = "QUEUED" THEN status ELSE taskStatus[t]]
  /\ jobStatus' = [t \in Tasks |->
       IF PlanTask(t) /\ jobStatus[t] = "QUEUED" THEN "FAILED" ELSE jobStatus[t]]

PausePlanForScope ==
  /\ planPaused' = TRUE
  /\ ClosePlanQueue("SKIPPED")

(* RunPlan finds a scope gone: pause, then record every target as skipped. *)
ScopeInvalid(b) ==
  /\ phase[b] = "validate"
  /\ remaining[b] # {}
  /\ PausePlanForScope
  /\ phase' = [phase EXCEPT ![b] = "skip"]
  /\ UNCHANGED <<leaseVars, batchRow, workerVars, remaining, cancelVars,
                 processVars, envVars>>

(* recordSkipped inserts a task row that has no job. *)
recordSkipped(b, t) ==
  /\ taskStatus' = [taskStatus EXCEPT ![t] = "SKIPPED"]
  /\ remaining' = [remaining EXCEPT ![b] = @ \ {t}]
  /\ Refresh(b)
  /\ UNCHANGED <<jobStatus, leaseVars, planPaused, workerVars, phase,
                 cancelVars, processVars, envVars>>

SkipTarget(b, t) ==
  /\ phase[b] = "skip"
  /\ t \in remaining[b]
  /\ recordSkipped(b, t)

(* An instance that already has an open job is skipped by a plan run. *)
SkipBusyTarget(b, t) ==
  /\ phase[b] = "expand"
  /\ b \in PlanBatches
  /\ t \in remaining[b]
  /\ InstanceBusy(t)
  /\ recordSkipped(b, t)

(* enqueueInstance, first transaction: CreateBackupJob. *)
CreateBackupJob(b, t) ==
  /\ phase[b] = "expand"
  /\ t \in remaining[b]
  /\ ~InstanceBusy(t)
  /\ jobStatus' = [jobStatus EXCEPT ![t] = "QUEUED"]
  /\ phase' = [phase EXCEPT ![b] = "add"]
  /\ remaining' = [remaining EXCEPT ![b] = @ \ {t}]
  /\ UNCHANGED <<taskStatus, leaseVars, batchRow, planPaused, workerVars,
                 cancelVars, processVars, envVars>>

(* The job whose task row the expansion of b is about to insert. *)
Adding(b, t) ==
  /\ phase[b] = "add"
  /\ BatchOf[t] = b
  /\ jobStatus[t] # "NONE"
  /\ taskStatus[t] = "NONE"

(* enqueueInstance, second transaction: AddTask. *)
AddTask(b, t) ==
  /\ Adding(b, t)
  /\ taskStatus' = [taskStatus EXCEPT ![t] = "QUEUED"]
  /\ available' = [available EXCEPT ![t] = TRUE]
  /\ phase' = [phase EXCEPT ![b] = "expand"]
  /\ Refresh(b)
  /\ UNCHANGED <<jobStatus, attemptLog, leaseToken, leaseExpired, planPaused,
                 workerVars, remaining, cancelVars, processVars, envVars>>

(* AddTask fails: the job is failed again and the expansion gives up. *)
AddTaskFails(b, t) ==
  /\ Adding(b, t)
  /\ jobStatus' = [jobStatus EXCEPT ![t] = IF OpenJob(t) THEN "FAILED" ELSE @]
  /\ phase' = [phase EXCEPT ![b] = "done"]
  /\ UNCHANGED <<taskStatus, leaseVars, batchRow, planPaused, workerVars,
                 remaining, cancelVars, processVars, envVars>>

(***************************************************************************)
(* Any other error return: a target that is no longer backupable, a        *)
(* validation error that is not a scope failure, a busy instance of a      *)
(* manual backup, a request context that ended.                            *)
(***************************************************************************)
ExpansionFails(b) ==
  /\ phase[b] \in {"validate", "skip", "expand"}
  /\ remaining[b] # {}
  /\ phase' = [phase EXCEPT ![b] = "done"]
  /\ UNCHANGED <<dbVars, workerVars, remaining, cancelVars, processVars,
                 envVars>>

ExpansionEnds(b) ==
  /\ phase[b] \in {"skip", "expand"}
  /\ remaining[b] = {}
  /\ phase' = [phase EXCEPT ![b] = "done"]
  /\ UNCHANGED <<dbVars, workerVars, remaining, cancelVars, processVars,
                 envVars>>

--------------------------------------------------------------------------------
(* Workers: Service.worker and Service.execute. *)

(* A worker that sees the requeued flag unset goes to recover first. *)
BeginRequeue(w) ==
  /\ bound /\ ~requeued
  /\ pc[w] = "poll"
  /\ pc' = [pc EXCEPT ![w] = "requeue"]
  /\ UNCHANGED <<dbVars, held, token, code, ctxDone, cancelByID, expansionVars,
                 cancelVars, processVars, envVars>>

(* Mutants: leases that still run are recovered; only those are. *)
AnyLeaseExpired(t) == Active(t) /\ leaseToken[t] # 0
LiveLeaseExpired(t) == Active(t) /\ leaseToken[t] # 0 /\ ~leaseExpired[t]

(* RequeueExpiredTasks selects active rows whose lease has run out. *)
Expired(t) == Active(t) /\ leaseToken[t] # 0 /\ leaseExpired[t]

(* RequeueExpiredTasks, then requeued[tenant] = true. *)
RequeueExpiredTasks(w) ==
  /\ pc[w] = "requeue"
  /\ taskStatus' = [t \in Tasks |-> IF Expired(t) THEN "QUEUED" ELSE taskStatus[t]]
  /\ available' = [t \in Tasks |-> IF Expired(t) THEN TRUE ELSE available[t]]
  /\ leaseToken' = [t \in Tasks |-> IF Expired(t) THEN 0 ELSE leaseToken[t]]
  /\ leaseExpired' = [t \in Tasks |-> IF Expired(t) THEN FALSE ELSE leaseExpired[t]]
  /\ jobStatus' = [t \in Tasks |->
       IF Expired(t) /\ jobStatus[t] = "RUNNING" THEN "QUEUED" ELSE jobStatus[t]]
  /\ attemptLog' = [t \in Tasks |->
       IF Expired(t) THEN CloseAttempts(attemptLog[t], "INTERRUPTED")
                     ELSE attemptLog[t]]
  /\ batchRow' = [b \in Batches |->
       IF \E t \in Tasks : Expired(t) /\ BatchOf[t] = b
         THEN refreshBatch(b, taskStatus') ELSE batchRow[b]]
  /\ requeued' = TRUE
  /\ pc' = [pc EXCEPT ![w] = "poll"]
  /\ UNCHANGED <<planPaused, held, token, code, ctxDone, cancelByID,
                 expansionVars, cancelVars, bound, envVars>>

(* Highest priority first; the order by time among equals is left open. *)
Claimable(t) == taskStatus[t] = "QUEUED" /\ available[t]

ClaimNextTask(w, t) ==
  /\ bound /\ requeued
  /\ pc[w] = "poll"
  /\ Claimable(t)
  /\ \A s \in Tasks : Claimable(s) => ~Outranks(s, t)
  /\ taskStatus' = [taskStatus EXCEPT ![t] = "LEASED"]
  /\ attemptLog' = [attemptLog EXCEPT ![t] = Append(@, "RUNNING")]
  /\ leaseToken' = [leaseToken EXCEPT ![t] = Len(attemptLog[t]) + 1]
  /\ leaseExpired' = [leaseExpired EXCEPT ![t] = FALSE]
  /\ Refresh(BatchOf[t])
  /\ pc' = [pc EXCEPT ![w] = "claimed"]
  /\ held' = [held EXCEPT ![w] = t]
  /\ token' = [token EXCEPT ![w] = Len(attemptLog[t]) + 1]
  /\ UNCHANGED <<jobStatus, available, planPaused, code, ctxDone, cancelByID,
                 expansionVars, cancelVars, processVars, envVars>>

(* execute: make the context cancellable through cancelByID. *)
RegisterCancel(w) ==
  /\ pc[w] = "claimed"
  /\ cancelByID' = [cancelByID EXCEPT ![held[w]] = w]
  /\ pc' = [pc EXCEPT ![w] = "registered"]
  /\ UNCHANGED <<dbVars, held, token, code, ctxDone, expansionVars, cancelVars,
                 processVars, envVars>>

(* Mutant: statements that forget to compare the lease token. *)
NoLeaseGuard(w) == TRUE

(* The lease guard of every statement a worker issues for its task. *)
HoldsLease(w) == leaseToken[held[w]] = token[w]

(* SetTaskStatus(PRECHECKING); its failure is ignored. *)
SetTaskStatus(w) ==
  /\ pc[w] = "registered"
  /\ taskStatus' = IF HoldsLease(w) /\ Active(held[w]) /\ ~ctxDone[w]
                     THEN [taskStatus EXCEPT ![held[w]] = "PRECHECKING"]
                     ELSE taskStatus
  /\ pc' = [pc EXCEPT ![w] = "prechecked"]
  /\ UNCHANGED <<jobStatus, leaseVars, batchRow, planPaused, held, token, code,
                 ctxDone, cancelByID, expansionVars, cancelVars, processVars,
                 envVars>>

(***************************************************************************)
(* ExecuteJob up to StartBackupJob.  Its errors leave the job as it is: a  *)
(* cancelled context, or a job that is not QUEUED.                         *)
(***************************************************************************)
StartBackupJob(w) ==
  LET t == held[w]
      started == ~ctxDone[w] /\ jobStatus[t] = "QUEUED"
  IN  /\ pc[w] = "prechecked"
      /\ jobStatus' = IF started THEN [jobStatus EXCEPT ![t] = "RUNNING"]
                                 ELSE jobStatus
      /\ pc' = [pc EXCEPT ![w] = IF started THEN "running" ELSE "finish"]
      /\ code' = [code EXCEPT ![w] = IF started THEN "NONE"
                                     ELSE IF ctxDone[w] THEN "CANCELLED"
                                     ELSE "ERROR"]
      /\ UNCHANGED <<taskStatus, leaseVars, batchRow, planPaused, held, token,
                     ctxDone, cancelByID, expansionVars, cancelVars,
                     processVars, envVars>>

(* Mutant: FailBackupJob without its status condition. *)
FailAnyJob(w, c) ==
  /\ pc[w] = "running"
  /\ c = "CANCELLED" => ctxDone[w]
  /\ jobStatus' = [jobStatus EXCEPT ![held[w]] = "FAILED"]
  /\ pc' = [pc EXCEPT ![w] = "finish"]
  /\ code' = [code EXCEPT ![w] = c]
  /\ UNCHANGED <<taskStatus, leaseVars, batchRow, planPaused, held, token,
                 ctxDone, cancelByID, expansionVars, cancelVars, processVars,
                 envVars>>

(***************************************************************************)
(* The engine fails with an error of class c and FailBackupJob closes the  *)
(* job.  Only a cancelled context gives a cancellation error, but any      *)
(* other error may surface first.                                          *)
(***************************************************************************)
ExecuteFails(w, c) ==
  /\ pc[w] = "running"
  /\ c = "CANCELLED" => ctxDone[w]
  /\ jobStatus' = [jobStatus EXCEPT ![held[w]] =
                     IF OpenJob(held[w]) THEN "FAILED" ELSE @]
  /\ pc' = [pc EXCEPT ![w] = "finish"]
  /\ code' = [code EXCEPT ![w] = c]
  /\ UNCHANGED <<taskStatus, leaseVars, batchRow, planPaused, held, token,
                 ctxDone, cancelByID, expansionVars, cancelVars, processVars,
                 envVars>>

(***************************************************************************)
(* CommitSnapshot: the snapshot row and job RUNNING -> SUCCEEDED in one    *)
(* transaction that a cancelled context rolls back.  A job that is not     *)
(* RUNNING any more is the error of class ERROR above.                     *)
(***************************************************************************)
CommitSnapshot(w) ==
  /\ pc[w] = "running"
  /\ ~ctxDone[w]
  /\ jobStatus[held[w]] = "RUNNING"
  /\ jobStatus' = [jobStatus EXCEPT ![held[w]] = "SUCCEEDED"]
  /\ pc' = [pc EXCEPT ![w] = "finish"]
  /\ code' = [code EXCEPT ![w] = "OK"]
  /\ UNCHANGED <<taskStatus, leaseVars, batchRow, planPaused, held, token,
                 ctxDone, cancelByID, expansionVars, cancelVars, processVars,
                 envVars>>

(* execute returns: the deferred function drops the cancel function. *)
Release(w) ==
  /\ pc' = [pc EXCEPT ![w] = "poll"]
  /\ held' = [held EXCEPT ![w] = NoTask]
  /\ token' = [token EXCEPT ![w] = 0]
  /\ code' = [code EXCEPT ![w] = "NONE"]
  /\ ctxDone' = [ctxDone EXCEPT ![w] = FALSE]
  /\ cancelByID' = [cancelByID EXCEPT ![held[w]] = NoWorker]

(* The shared part of CompleteTask, RetryTask and FinishTaskFailure. *)
CloseLease(w, status, attempt) ==
  LET t == held[w]
  IN  /\ taskStatus' = [taskStatus EXCEPT ![t] = status]
      /\ leaseToken' = [leaseToken EXCEPT ![t] = 0]
      /\ leaseExpired' = [leaseExpired EXCEPT ![t] = FALSE]
      /\ attemptLog' = [attemptLog EXCEPT ![t] = CloseAttempts(@, attempt)]
      /\ Refresh(BatchOf[t])

EndTask(w, status) ==
  /\ IF HoldsLease(w)
       THEN CloseLease(w, status, status) /\ UNCHANGED available
       ELSE UNCHANGED <<taskStatus, leaseVars, batchRow>>
  /\ Release(w)
  /\ UNCHANGED <<jobStatus, planPaused, expansionVars, cancelVars, processVars,
                 envVars>>

FinishCancelled(w) ==
  /\ pc[w] = "finish" /\ code[w] = "CANCELLED"
  /\ EndTask(w, "CANCELLED")

CompleteTask(w) ==
  /\ pc[w] = "finish" /\ code[w] = "OK"
  /\ EndTask(w, "SUCCEEDED")

(* A scope failure of a plan task pauses the plan before the task ends. *)
PauseAfterScopeFailure(w) ==
  /\ pc[w] = "finish" /\ code[w] = "SCOPE"
  /\ IF PlanTask(held[w]) THEN PausePlanForScope
                          ELSE UNCHANGED <<taskStatus, jobStatus, planPaused>>
  /\ code' = [code EXCEPT ![w] = "FATAL"]
  /\ UNCHANGED <<leaseVars, batchRow, pc, held, token, ctxDone, cancelByID,
                 expansionVars, cancelVars, processVars, envVars>>

(* Mutant: one retry too many. *)
MayRetryOnceMore(w) ==
  Retryable(code[w]) /\ token[w] <= RetryBudget(held[w]) + 1

(* task.AttemptCount <= task.MaxRetries, with the count of this claim. *)
MayRetry(w) == Retryable(code[w]) /\ token[w] <= RetryBudget(held[w])

(***************************************************************************)
(* RetryTask.  Reopening a FAILED job of a busy instance breaks the unique *)
(* index: the whole transaction rolls back and the error is ignored.       *)
(***************************************************************************)
Reopens(t) == jobStatus[t] = "FAILED"

RetryTask(w) ==
  LET t == held[w]
  IN  /\ pc[w] = "finish"
      /\ MayRetry(w)
      /\ IF HoldsLease(w) /\ ~(Reopens(t) /\ InstanceBusy(t))
           THEN /\ CloseLease(w, "QUEUED", "FAILED")
                /\ available' = [available EXCEPT ![t] = FALSE]
                /\ jobStatus' = [jobStatus EXCEPT ![t] =
                                   IF Reopens(t) THEN "QUEUED" ELSE @]
           ELSE UNCHANGED <<taskStatus, leaseVars, batchRow, jobStatus>>
      /\ Release(w)
      /\ UNCHANGED <<planPaused, expansionVars, cancelVars, processVars, envVars>>

FinishTaskFailure(w) ==
  /\ pc[w] = "finish"
  /\ code[w] = "FATAL" \/ (Retryable(code[w]) /\ ~MayRetry(w))
  /\ EndTask(w, IF code[w] = "TIMED_OUT" THEN "TIMED_OUT" ELSE "FAILED")

(* The heartbeat goroutine runs while ExecuteJob does. *)
HeartbeatTask(w) ==
  /\ pc[w] \in {"prechecked", "running"}
  /\ HoldsLease(w)
  /\ leaseExpired[held[w]]
  /\ leaseExpired' = [leaseExpired EXCEPT ![held[w]] = FALSE]
  /\ UNCHANGED <<jobStatus, taskStatus, attemptLog, leaseToken, available,
                 batchRow, planPaused, workerVars, expansionVars, cancelVars,
                 processVars, envVars>>

--------------------------------------------------------------------------------
(* Requests of the user. *)

(* CancelTask reads the row first; a terminal task is a conflict. *)
CancelRead(t) ==
  /\ bound /\ cancels < MaxCancels
  /\ cancelPc = "idle"
  /\ taskStatus[t] = "QUEUED" \/ Active(t)
  /\ cancels' = cancels + 1
  /\ cancelTask' = t
  /\ cancelPc' = IF taskStatus[t] = "QUEUED" THEN "row" ELSE "lookup"
  /\ UNCHANGED <<dbVars, workerVars, expansionVars, processVars, crashes,
                 replays, edits>>

(* Mutant: the status read before is trusted. *)
CancelStaleRow ==
  /\ cancelPc = "row"
  /\ taskStatus' = [taskStatus EXCEPT ![cancelTask] = "CANCELLED"]
  /\ cancelPc' = "job"
  /\ UNCHANGED <<jobStatus, leaseVars, batchRow, planPaused, workerVars,
                 expansionVars, cancelTask, processVars, envVars>>

(* First statement: the task, if it is still QUEUED. *)
CancelTaskRow ==
  /\ cancelPc = "row"
  /\ taskStatus' = IF taskStatus[cancelTask] = "QUEUED"
                     THEN [taskStatus EXCEPT ![cancelTask] = "CANCELLED"]
                     ELSE taskStatus
  /\ cancelPc' = "job"
  /\ UNCHANGED <<jobStatus, leaseVars, batchRow, planPaused, workerVars,
                 expansionVars, cancelTask, processVars, envVars>>

(* Second statement: its job, if QUEUED.  The row is then read again.  *)
CancelJobRow ==
  /\ cancelPc = "job"
  /\ jobStatus' = IF jobStatus[cancelTask] = "QUEUED"
                    THEN [jobStatus EXCEPT ![cancelTask] = "FAILED"]
                    ELSE jobStatus
  /\ cancelPc' = "lookup"
  /\ UNCHANGED <<taskStatus, leaseVars, batchRow, planPaused, workerVars,
                 expansionVars, cancelTask, processVars, envVars>>

(* Service.Cancel: call the registered cancel function, if there is one. *)
CancelLookup ==
  /\ cancelPc = "lookup"
  /\ ctxDone' = [w \in Workers |-> ctxDone[w] \/ cancelByID[cancelTask] = w]
  /\ cancelPc' = "idle"
  /\ cancelTask' = NoTask
  /\ UNCHANGED <<dbVars, pc, held, token, code, cancelByID, expansionVars,
                 processVars, envVars>>

(* The request context ends: the statements that follow all fail. *)
CancelAborted ==
  /\ cancelPc \in {"row", "job"}
  /\ cancelPc' = "idle"
  /\ cancelTask' = NoTask
  /\ UNCHANGED <<dbVars, workerVars, expansionVars, processVars, envVars>>

(* ResetTaskForManualRetry; the same unique index can roll it back. *)
ResetTaskForManualRetry(t) ==
  /\ bound /\ replays < MaxReplays
  /\ taskStatus[t] \in FailedStatuses
  /\ ~(Reopens(t) /\ InstanceBusy(t))
  /\ taskStatus' = [taskStatus EXCEPT ![t] = "QUEUED"]
  /\ available' = [available EXCEPT ![t] = TRUE]
  /\ leaseToken' = [leaseToken EXCEPT ![t] = 0]
  /\ leaseExpired' = [leaseExpired EXCEPT ![t] = FALSE]
  /\ jobStatus' = [jobStatus EXCEPT ![t] = IF Reopens(t) THEN "QUEUED" ELSE @]
  /\ Refresh(BatchOf[t])
  /\ replays' = replays + 1
  /\ UNCHANGED <<attemptLog, planPaused, workerVars, expansionVars, cancelVars,
                 processVars, crashes, cancels, edits>>

(***************************************************************************)
(* UpdatePlan clears the pause reason; when the edit changes the scope it  *)
(* also cancels the queued tasks and jobs of the old revision.             *)
(***************************************************************************)
UpdatePlan ==
  /\ bound /\ edits < MaxEdits
  /\ planPaused' = FALSE
  /\ \/ ClosePlanQueue("CANCELLED")
     \/ UNCHANGED <<taskStatus, jobStatus>>
  /\ edits' = edits + 1
  /\ UNCHANGED <<leaseVars, batchRow, workerVars, expansionVars, cancelVars,
                 processVars, crashes, cancels, replays>>

--------------------------------------------------------------------------------
(* Environment: time and the life of the process. *)

(* The retry backoff has passed. *)
BackoffElapses(t) ==
  /\ taskStatus[t] = "QUEUED" /\ ~available[t]
  /\ available' = [available EXCEPT ![t] = TRUE]
  /\ UNCHANGED <<jobStatus, taskStatus, attemptLog, leaseToken, leaseExpired,
                 batchRow, planPaused, workerVars, expansionVars, cancelVars,
                 processVars, envVars>>

HeldInProcess(t) == \E w \in Workers : held[w] = t

(* A lease runs out; a live worker renews its own unless it is stalled. *)
LeaseExpires(t) ==
  /\ leaseToken[t] # 0 /\ ~leaseExpired[t]
  /\ Suspensions \/ ~HeldInProcess(t)
  /\ leaseExpired' = [leaseExpired EXCEPT ![t] = TRUE]
  /\ UNCHANGED <<jobStatus, taskStatus, attemptLog, leaseToken, available,
                 batchRow, planPaused, workerVars, expansionVars, cancelVars,
                 processVars, envVars>>

(* The first authenticated request after a start binds the tenant scope. *)
Bind ==
  /\ ~bound
  /\ SlowRestart => \A t \in Tasks : leaseToken[t] # 0 => leaseExpired[t]
  /\ bound' = TRUE
  /\ UNCHANGED <<dbVars, workerVars, expansionVars, cancelVars, requeued,
                 envVars>>

(* The process dies and a new one starts: only the database survives. *)
Restart ==
  /\ crashes < MaxCrashes
  /\ bound
  /\ crashes' = crashes + 1
  /\ bound' = FALSE /\ requeued' = FALSE
  /\ pc' = [w \in Workers |-> "poll"]
  /\ held' = [w \in Workers |-> NoTask]
  /\ token' = [w \in Workers |-> 0]
  /\ code' = [w \in Workers |-> "NONE"]
  /\ ctxDone' = [w \in Workers |-> FALSE]
  /\ cancelByID' = [t \in Tasks |-> NoWorker]
  /\ phase' = [b \in Batches |-> IF phase[b] = "new" THEN "new" ELSE "done"]
  /\ cancelPc' = "idle" /\ cancelTask' = NoTask
  /\ UNCHANGED <<dbVars, remaining, cancels, replays, edits>>

--------------------------------------------------------------------------------
Expansion(b) ==
  \/ ScopesValid(b) \/ ScopeInvalid(b) \/ ExpansionFails(b) \/ ExpansionEnds(b)
  \/ \E t \in Tasks : \/ SkipTarget(b, t) \/ SkipBusyTarget(b, t)
                      \/ CreateBackupJob(b, t)
                      \/ AddTask(b, t) \/ AddTaskFails(b, t)

Codes == {"ERROR", "TIMED_OUT", "FATAL", "SCOPE", "CANCELLED"}

WorkerStep(w) ==
  \/ BeginRequeue(w) \/ RequeueExpiredTasks(w)
  \/ \E t \in Tasks : ClaimNextTask(w, t)
  \/ RegisterCancel(w) \/ SetTaskStatus(w) \/ StartBackupJob(w)
  \/ \E c \in Codes : ExecuteFails(w, c)
  \/ CommitSnapshot(w)
  \/ FinishCancelled(w) \/ CompleteTask(w) \/ PauseAfterScopeFailure(w)
  \/ RetryTask(w) \/ FinishTaskFailure(w)

CancelStep == CancelTaskRow \/ CancelJobRow \/ CancelLookup \/ CancelAborted

Next ==
  \/ \E b \in Batches : CreateBatch(b) \/ Expansion(b)
  \/ \E w \in Workers : WorkerStep(w) \/ HeartbeatTask(w)
  \/ \E t \in Tasks : CancelRead(t) \/ ResetTaskForManualRetry(t)
  \/ \E t \in Tasks : BackoffElapses(t) \/ LeaseExpires(t)
  \/ CancelStep \/ UpdatePlan \/ Bind \/ Restart

Spec == Init /\ [][Next]_vars

(***************************************************************************)
(* Goroutines that can run do run, a handler that started goes on, clocks  *)
(* advance, and somebody opens the application after a restart.  Users     *)
(* need not do anything else and the process need not die.                 *)
(***************************************************************************)
Fairness ==
  /\ \A w \in Workers : WF_vars(WorkerStep(w))
  /\ \A b \in Batches : WF_vars(Expansion(b))
  /\ WF_vars(CancelStep)
  /\ \A t \in Tasks : WF_vars(BackoffElapses(t)) /\ WF_vars(LeaseExpires(t))
  /\ WF_vars(Bind)

FairSpec == Spec /\ Fairness

--------------------------------------------------------------------------------
(* Properties *)

WorkerPcs == {"poll", "requeue", "claimed", "registered", "prechecked",
              "running", "finish"}

Phases == {"new", "validate", "skip", "expand", "add", "done"}

BatchRows == [status: BatchStatuses, succeeded: Nat, failed: Nat, skipped: Nat,
              running: Nat, queued: Nat]

(* Every column and every variable of the process has its type. *)
TypeOK ==
  /\ jobStatus \in [Tasks -> JobStatuses]
  /\ taskStatus \in [Tasks -> TaskStatuses]
  /\ attemptLog \in [Tasks -> Seq(AttemptStatuses)]
  /\ leaseToken \in [Tasks -> Nat]
  /\ leaseExpired \in [Tasks -> BOOLEAN]
  /\ available \in [Tasks -> BOOLEAN]
  /\ batchRow \in [Batches -> BatchRows]
  /\ planPaused \in BOOLEAN /\ bound \in BOOLEAN /\ requeued \in BOOLEAN
  /\ pc \in [Workers -> WorkerPcs]
  /\ held \in [Workers -> Tasks \cup {NoTask}]
  /\ token \in [Workers -> Nat]
  /\ code \in [Workers -> Codes \cup {"NONE", "OK"}]
  /\ ctxDone \in [Workers -> BOOLEAN]
  /\ cancelByID \in [Tasks -> Workers \cup {NoWorker}]
  /\ phase \in [Batches -> Phases]
  /\ remaining \in [Batches -> SUBSET Tasks]
  /\ cancelPc \in {"idle", "row", "job", "lookup"}
  /\ cancelTask \in Tasks \cup {NoTask}
  /\ cancelPc # "idle" => cancelTask \in Tasks
  /\ crashes \in Nat /\ cancels \in Nat /\ replays \in Nat /\ edits \in Nat

(***************************************************************************)
(* The instance lock: two workers never run the backup engine on the same  *)
(* application instance, and the job of a running engine is RUNNING, so    *)
(* that CreateBackupJob, RetryTask and the manual retry see the instance   *)
(* as busy for as long as its archive is being written.                    *)
(***************************************************************************)
InstanceLock ==
  /\ \A w \in Workers : pc[w] = "running" => jobStatus[held[w]] = "RUNNING"
  /\ \A v, w \in Workers :
       /\ pc[v] = "running" /\ pc[w] = "running"
       /\ DeployOf[held[v]] = DeployOf[held[w]]
       => v = w

(***************************************************************************)
(* The attempt journal: a task is active exactly while it has a lease      *)
(* token, its one RUNNING attempt is then the last row, drawn by that      *)
(* token, and a task that is not active has no RUNNING attempt.            *)
(***************************************************************************)
AttemptJournal ==
  \A t \in Tasks :
    /\ Active(t) <=> leaseToken[t] # 0
    /\ leaseToken[t] # 0 => leaseToken[t] = Len(attemptLog[t])
    /\ \A i \in 1..Len(attemptLog[t]) :
         attemptLog[t][i] = "RUNNING" <=> i = leaseToken[t]

(***************************************************************************)
(* A task reported SUCCEEDED has a committed snapshot, whatever stale      *)
(* workers, cancellations, pauses and restarts did on the way.             *)
(***************************************************************************)
SuccessHasSnapshot ==
  \A t \in Tasks : taskStatus[t] = "SUCCEEDED" => jobStatus[t] = "SUCCEEDED"

(***************************************************************************)
(* Interruptions use up automatic retries but never add to them: attempts  *)
(* exceed MaxRetries + 1 only by restarts and manual retries.              *)
(***************************************************************************)
RetriesBounded ==
  \A t \in Tasks : Len(attemptLog[t]) <= RetryBudget(t) + 1 + crashes + replays

(***************************************************************************)
(* Batch rows: the running and succeeded counters are exact in every       *)
(* state, and a batch shown as finished has neither queued nor active      *)
(* tasks, although cancelling, pausing and editing never refresh the row.  *)
(***************************************************************************)
BatchAccounting ==
  \A b \in Batches :
    /\ batchRow[b].running = CountIn(b, ActiveStatuses, taskStatus)
    /\ batchRow[b].succeeded = CountIn(b, {"SUCCEEDED"}, taskStatus)
    /\ batchRow[b].status \in FinishedBatch =>
         CountIn(b, ActiveStatuses \cup {"QUEUED"}, taskStatus) = 0

(***************************************************************************)
(* A committed snapshot is final: no retry, recovery, cancel, pause or     *)
(* edit moves a SUCCEEDED job, so a snapshot is never written twice.       *)
(***************************************************************************)
CommittedJobsAreFinal ==
  [][\A t \in Tasks : jobStatus[t] = "SUCCEEDED" => jobStatus'[t] = "SUCCEEDED"]_vars

(***************************************************************************)
(* The outcome of a task is only ever reopened by a manual retry: a cancel *)
(* request or a worker that comes late does not overwrite it.              *)
(***************************************************************************)
OutcomesAreKept ==
  [][\A t \in Tasks :
       taskStatus[t] \in TerminalStatuses /\ taskStatus'[t] # taskStatus[t] =>
         /\ taskStatus[t] \in FailedStatuses
         /\ taskStatus'[t] = "QUEUED"
         /\ replays' = replays + 1]_vars

(***************************************************************************)
(* Fencing: an active task is taken out of that state only by the worker   *)
(* that drew its current lease token, or by the recovery of a lease that   *)
(* has expired; a worker that lost its lease changes nothing.              *)
(***************************************************************************)
OnlyHolderEndsTask ==
  [][\A t \in Tasks :
       Active(t) /\ ~(taskStatus'[t] \in ActiveStatuses) =>
         \/ Expired(t)
         \/ \E w \in Workers : /\ held[w] = t /\ token[w] = leaseToken[t]
                                /\ held'[w] = NoTask]_vars

(***************************************************************************)
(* Every task that is queued or leased reaches an outcome.                 *)
(***************************************************************************)
EveryTaskSettles ==
  \A t \in Tasks :
    (taskStatus[t] = "QUEUED" \/ Active(t)) ~> taskStatus[t] \in TerminalStatuses

--------------------------------------------------------------------------------
(* The inductive invariant behind the safety properties. *)

(* Rows of targets that a batch has not reached yet do not exist. *)
UnreachedTargets ==
  \A b \in Batches, t \in Tasks :
    /\ phase[b] = "new" /\ BatchOf[t] = b
         => jobStatus[t] = "NONE" /\ taskStatus[t] = "NONE"
    /\ t \in remaining[b]
         => BatchOf[t] = b /\ jobStatus[t] = "NONE" /\ taskStatus[t] = "NONE"

(* What a worker knows of its task. *)
ClaimBacked(w) ==
  IF pc[w] \in {"poll", "requeue"}
    THEN held[w] = NoTask /\ code[w] = "NONE"
    ELSE /\ held[w] \in Tasks
         /\ token[w] \in 1..Len(attemptLog[held[w]])
         /\ code[w] = "OK" =>
              pc[w] = "finish" /\ jobStatus[held[w]] = "SUCCEEDED"

(* Claims are backed by rows, and no two workers share a lease token. *)
WorkerClaims ==
  /\ \A w \in Workers : ClaimBacked(w)
  /\ \A v, w \in Workers :
       held[v] = held[w] /\ held[w] # NoTask /\ token[v] = token[w] => v = w

(* The unique index on open jobs. *)
OneOpenJob ==
  \A s, t \in Tasks :
    DeployOf[s] = DeployOf[t] /\ OpenJob(s) /\ OpenJob(t) => s = t

(* Leases cannot be lost while held: one worker, or no long stall. *)
SafeLeases == Suspensions => \A v, w \in Workers : v = w

(* Then every worker holds the current, unexpired lease of its task. *)
LiveLease(w) ==
  held[w] # NoTask =>
    /\ leaseToken[held[w]] = token[w]
    /\ ~Suspensions => ~leaseExpired[held[w]]
    /\ pc[w] = "running" => jobStatus[held[w]] = "RUNNING"

LiveLeases == \A w \in Workers : LiveLease(w)

(***************************************************************************)
(* Together: claims are backed by rows, an instance has one open job, and  *)
(* where leases are safe a worker in the middle of a task owns its lease   *)
(* and, once the engine runs, a RUNNING job.                               *)
(***************************************************************************)
QueueInv ==
  /\ UnreachedTargets /\ WorkerClaims /\ OneOpenJob
  /\ AttemptJournal /\ SuccessHasSnapshot
  /\ SafeLeases => LiveLeases

================================================================================
