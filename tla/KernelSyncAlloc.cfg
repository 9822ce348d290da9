CONSTANTS
  Tasks = {t1, t2, t3}
  Idle = idle
  MaxNested = 0
  Mutexes = {salloc, m}
  Events = {e}
  SallocMutex = salloc
  NoOne = NoOne
  Allocators = {t1}
  CanExit = {t1}
SPECIFICATION Spec
INVARIANTS ContentionWaits
CHECK_DEADLOCK FALSE
