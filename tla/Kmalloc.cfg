SPECIFICATION FairSpec
CONSTANTS
  heap_size = 12
  Requests <- MCRequests
  Values <- MCValues
INVARIANTS
  TypeOK
  HeapTiled
  FreeListComplete
  FaultMeansExhausted
PROPERTIES
  GrowsOnlyWhenNothingFits
  CallReturns
  ImplementsHeapService
