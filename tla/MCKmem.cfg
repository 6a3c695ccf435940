SPECIFICATION KmemSpec
CONSTANTS
  self = self
  k1 = k1
  k2 = k2
  c1 = c1
  PAGE_NSIZES = 3
  NPages = 7
  Cache <- MCCache
  Self = self
  kmalloc_allocators <- MCBuckets
  ObjSize <- MCObjSize
  PAGE_SIZE = 11
  SlabSize = 1
  BufctlSize = 1
  RedZone = 1
  Header = 1
  SLAB_MAX_ORDER = 3
  NPagesAsked = {1, 2, 3}
  KmallocSizes = {1, 5}
  MaxHeld = 5
CHECK_DEADLOCK FALSE
INVARIANTS
  MemoryAccounted
  FreeBuddiesJoined
PROPERTIES
  BrokenByTailOnly
  ImplementsHeap
