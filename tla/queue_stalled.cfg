SPECIFICATION Spec
CONSTANTS
  b1 = b1 b2 = b2 d1 = d1 d2 = d2
  t1 = t1 t2 = t2 w1 = w1 w2 = w2
  NoTask = NoTask NoWorker = NoWorker
  Tasks = {t1} Batches = {b1} PlanBatches = {b1} Deploys = {d1}
  BatchOf <- SingleBatchOf DeployOf <- SingleDeployOf
  Workers = {w1, w2}
  MaxRetries = 2 Missable = {t1}
  Suspensions = TRUE SlowRestart = FALSE
  MaxCrashes = 1 MaxCancels = 1 MaxReplays = 1 MaxEdits = 1
INVARIANTS BatchAccounting AttemptJournal SuccessHasSnapshot
PROPERTIES OnlyHolderEndsTask CommittedJobsAreFinal
SYMMETRY WorkerSymmetry
CHECK_DEADLOCK FALSE
