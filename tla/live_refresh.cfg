SPECIFICATION FairSpec
CONSTANTS
  Secondary <- TwoResources
  Paged <- OnePage
  Values = {v1, v2}
  Seconds = {t1, t2}
  Ops = {o1}
  NoSettings = NoSettings
  MaxFailures = 1 MaxActs = 3
CHECK_DEADLOCK FALSE
INVARIANTS RefreshInv NoDeadSpinner FormTrue
PROPERTY CatalogAwaited
