SPECIFICATION FairSpec
CONSTANTS
  p1 = p1 p2 = p2 NoPlan = NoPlan Manual = 0
  Plans = {p1, p2} Schedules = {1} NextAfter <- PeriodicNext
  CatchUp = {p1} Grace = 0 MaxCatchUp = 1 MaxSteps = 2
  Horizon = 2 MaxRequests = 1 MaxCrashes = 1
INVARIANTS NoGap PlanInv
PROPERTIES ExpandedOnce EveryDuePlanHandled
CHECK_DEADLOCK FALSE
