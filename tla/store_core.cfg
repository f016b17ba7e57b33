SPECIFICATION StoreSpec
CONSTANTS
  Jobs = {j1, j2}
  Stamps = {s1, s2}
  NoJob = NoJob
  NoDir = NoDir
  MaxExecs = 3
  MaxMishaps = 2
  MaxTouches = 1
SYMMETRY Symmetries
CHECK_DEADLOCK FALSE
INVARIANTS
  StoreInv
  SnapshotsComplete
  ManifestsTrue
  LeftoversExplained
  OrphansBounded
PROPERTY
  PromiseKept
