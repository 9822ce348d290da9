SPECIFICATION MemorySpec
CONSTANTS
  Orders = 4
  RegionPages = 16
  Metadata = 2
  Requests = {1, 2, 4}
  LastFirst = TRUE
  OwnObjects = 2
  SlabObjects = 2
  SlabPages <- MCSlabPages
  Memory = 4
  Base = 1
  VremapPages = 7
  MayFail = TRUE
  s1 = s1
  s2 = s2
  Spaces = {s1, s2}
  Frames = {1, 2, 3, 4, 5, 6, 7, 8, 9, 10, 11, 12, 13, 14, 15, 16, 17}
  Foreign = {70}
  PageSize = 2
  Pages = 12
  PagesPerTable = 5
  KernelRanges <- MCKernelRanges
  KernelVremap <- MCKernelVremap
  PhysRanges <- MCPhysRanges
  BootStack <- MCBootStack
  IoRanges <- MCIoRanges
  Video <- MCVideo
  MsgqVremap <- MCMsgqVremap
  UserVremap <- MCUserVremap
  StackBottom = 18
  StackPages = 1
  Vdso <- MCVdso
  VdsoBase = 12
  Executables <- MCExecutables
  Heap = 45
INVARIANTS  SlabsExact PagesAccounted
INVARIANTS RegionsDisjoint FramesExact TablesAgree ImageLoaded
PROPERTIES RefusedOnlyWhenFull ImplementsPageMap
CHECK_DEADLOCK FALSE
