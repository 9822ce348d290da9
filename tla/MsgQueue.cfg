CONSTANTS
  t1 = t1
  t2 = t2
  b1 = b1
  b2 = b2
  Tasks = {t1, t2}
  Bodies = {b1, b2}
  PendingCount = 2
  Sizes = {1}
  RegionPages = 1
  Headers <- MCHeaders
  Filters <- MCFilters
  Wildcard = 99
  UnmapsBlindly = FALSE
  Recipients = {t2}
  MaxIncoming = 2
SYMMETRY Symmetric
SPECIFICATION Spec
CHECK_DEADLOCK FALSE
INVARIANTS FreeListSound RefcountExact
PROPERTIES SendWakes InOrder
