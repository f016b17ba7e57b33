SPECIFICATION Spec
CONSTANTS
  Items = {i1, i2} Batches = {b1, b2} NoItem = NoItem
  MaxMounts = 5 MaxClicks = 2 MaxBatches = 2
INVARIANTS DetailSettles ButtonTrue ReasonsCurrent
SYMMETRY Symmetries
CHECK_DEADLOCK FALSE
