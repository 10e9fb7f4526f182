SPECIFICATION FairSpec
CONSTANTS
  PAGE_SIZE = 4
  UINTPTR_MAX = 255
  BootInfo <- MCBootInfo
INVARIANTS
  TypeOK
  ReservedBytesUntouched
  FailureMeansExhausted
  WalkInvariant
PROPERTIES
  NeverTwice
  FailureIsPermanent
  AllocateReturns
  ImplementsFrameSource
