CONSTANTS
  Tasks = {t1, t2}
  Idle = idle
  MaxNested = 1
  Mutexes = {salloc, m}
  Events = {e}
  SallocMutex = salloc
  NoOne = NoOne
  Allocators = {}
  CanExit = {t1, t2}
SPECIFICATION Spec
INVARIANTS NeverSwitchToExited
CHECK_DEADLOCK FALSE
