SPECIFICATION Spec
CONSTANTS
  PAGE_TABLE_ENTRY_COUNT = 4
  PAGE_SIZE = 4
  UINTPTR_MAX = 1023
  Frames <- MCFrames
  Layouts <- MCLayouts
  Leftovers <- ZeroedRam
  NewP4Page = 97
  OldP4Page = 81
  VgaFrame = 4
  HeapStart = 16
  HeapPages = 3
INVARIANTS
  TypeOK
  KernelMapped
  AccessesCoherent
  NullTableMeansExhausted
  EditsTheRightTree
  FinalMapping
  HeapFramesPrivate
PROPERTY StoresToOwn
