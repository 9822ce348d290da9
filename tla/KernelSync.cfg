CONSTANTS
  Tasks = {t1, t2, t3}
  Idle = idle
  MaxNested = 0
  Mutexes = {salloc, m}
  Events = {e}
  SallocMutex = salloc
  NoOne = NoOne
  Allocators = {}
  CanExit = {t1}
SPECIFICATION FairSpec
INVARIANTS TypeOK  OnlyRunnableRun SignaledHasNoWaiters NoBugcheck
PROPERTIES RequestServed SleeperLeavesCpu
