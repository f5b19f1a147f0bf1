\* A program that exhausts the heap ends in a state that is not followed.
CONSTANTS
  HeapStart = 1
  HeapEnd = 16
  P = 2
  SizeMod = 32
  LazyInit = TRUE
  Requests <- MCRequests
  Elements <- MCElements
SPECIFICATION Spec
INVARIANT LiveDataIntact
CHECK_DEADLOCK FALSE
