SPECIFICATION Spec
CONSTANTS
  PAGE_SIZE = 4
  UINTPTR_MAX = 255
  BootInfo <- PCBootInfo
INVARIANT HandedFramesAllowed
