SPECIFICATION FairSpec
CONSTANTS
  k1 = k1 None = None
  Keys = {k1} Statuses = {"SUCCEEDED", "FAILED"} History <- OneSuccess
  MaxLog = 3 PollLimit = 1 MaxPipe = 2 MaxChanges = 1 MaxDrops = 1
CHECK_DEADLOCK FALSE
INVARIANTS CursorSound HistoryOnlyAfterReset
PROPERTY EventsArrive
