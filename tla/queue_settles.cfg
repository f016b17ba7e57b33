SPECIFICATION FairSpec
CONSTANTS
  b1 = b1 b2 = b2 d1 = d1 d2 = d2
  t1 = t1 t2 = t2 w1 = w1 w2 = w2
  NoTask = NoTask NoWorker = NoWorker
  Tasks = {t1, t2} Batches = {b1, b2} PlanBatches = {b1} Deploys = {d1, d2}
  BatchOf <- DisjointBatchOf DeployOf <- DisjointDeployOf
  Workers = {w1}
  MaxRetries = 1 Missable = {}
  Suspensions = FALSE SlowRestart = TRUE
  MaxCrashes = 1 MaxCancels = 1 MaxReplays = 0 MaxEdits = 0
PROPERTY EveryTaskSettles
CHECK_DEADLOCK FALSE
