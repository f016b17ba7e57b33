SPECIFICATION Spec
CONSTANTS
  Jobs = {j1}
  Stamps = {s1, s2}
  Requests = {r1, r2}
  NestedArchives <- TwoPerJob
  NoJob = NoJob
  NoDir = NoDir
  MaxExecs = 2
  MaxMishaps = 1
  MaxTouches = 2
SYMMETRY Symmetries
CHECK_DEADLOCK FALSE
INVARIANTS
  AlarmsJustified
  ExportExclusive
  QuietSummary
PROPERTY
  ExportsKept
