SPECIFICATION Spec
CONSTANTS
  OtherLines <- MCOtherLines
  FirmwareMasks <- MCFirmwareMasks
  PlainKeys = {"a"}
  SilentKeys = {"shift"}
  ExtendedKeys = {"up"}
  Faults <- MCFaults
  MaxTicks = 1
  MaxKeys = 2
INVARIANT OnlyKeysPrinted
CHECK_DEADLOCK FALSE
