SPECIFICATION Spec
CONSTANTS
  PAGE_TABLE_ENTRY_COUNT = 4
  PAGE_SIZE = 4
  UINTPTR_MAX = 1023
  Frames <- MCFrames
  Layouts <- LinkedLayouts
  Leftovers <- UsedRam
  NewP4Page = 97
  OldP4Page = 81
  VgaFrame = 4
  HeapStart = 16
  HeapPages = 3
INVARIANT LeafUnused
