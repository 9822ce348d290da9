CONSTANTS
  Tasks = {t1, t2, t3}
  Idle = idle
  MaxNested = 1
  Mutexes = {salloc, m}
  Events = {}
  SallocMutex = salloc
  NoOne = NoOne
  Allocators = {t1}
  CanExit = {t1}
SPECIFICATION Spec
INVARIANTS RunqueueExact MutualExclusion WakeupOnTheWay
PROPERTIES ImplementsLock
CHECK_DEADLOCK FALSE
