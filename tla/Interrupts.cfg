SPECIFICATION FairSpec
CONSTANTS
  OtherLines <- MCOtherLines
  FirmwareMasks <- MCFirmwareMasks
  PlainKeys = {"a"}
  SilentKeys = {"shift"}
  ExtendedKeys = {"up"}
  Faults <- MCFaults
  MaxTicks = 1
  MaxKeys = 2
INVARIANTS
  TypeOK
  InServiceOnlyInShim
  HaltHasACause
  KeysPrintedInOrder
PROPERTIES
  BootFinishes
  KeysAreRead
CHECK_DEADLOCK FALSE
