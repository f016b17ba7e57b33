SPECIFICATION Spec
CONSTANTS
  d = d s = s f = f e = e
  Dirs = {d, s} Files = {f, e} Databases = {e} MaxPaths = 2
  Below <- PathsBelow Depth <- PathDepth Listing <- PathOrder
  Queries = {"", "f"} Matches <- TextMatches PageSize = 2
  Apps = {a1} StoredScopes <- PlanScopes None = None
  MaxChanges = 5 MaxSaves = 3 MaxFlight = 2
INVARIANTS SavedAsChosen OnePlan
CHECK_DEADLOCK FALSE
