SPECIFICATION Spec
CONSTANTS
  PAGE_TABLE_ENTRY_COUNT = 8
  PAGE_SIZE = 4
  UINTPTR_MAX = 255
  Frames <- MCFrames
  NewP4Page = 3311
  OldP4Page = 3201
  VgaFrame = 34
  HeapStart = 64
  HeapPages = 3
  Leftovers <- ZeroedRam
  Machines <- MCMachines
INVARIANT
  FramesAccounted
PROPERTIES
  ImageUntouched
  BootEnds
  ImplementsPaging
