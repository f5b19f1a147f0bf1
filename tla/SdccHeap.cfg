CONSTANTS
  HeapStart = 1
  HeapEnd = 20
  P = 2
  SizeMod = 32
  LazyInit = FALSE
  Requests <- MCRequests
  Elements <- MCElements
SPECIFICATION FairSpec
INVARIANTS
  TypeOK
  HeapTiled
  FreeListSorted
  FreeOrLive
  Coalesced
  Capacity
  LiveDataIntact
PROPERTIES
  FailsOnlyWhenFull
  CallReturns
  PromiseKept
