SPECIFICATION Spec
CONSTANTS
  Queries = {"", "a", "b"}
  Tabs = {"all", "protected"}
  Slots = {s1, s2}
  MaxPage = 2 MaxActions = 5 MaxRefresh = 1
SYMMETRY Symmetries
CHECK_DEADLOCK FALSE
INVARIANTS PageCoherent ShownIsCurrent SearchSettles
