SPECIFICATION Spec
CONSTANTS
  Boots <- MCBoots
  MaxShown = 12
INVARIANT ReadsWhatWasStored
PROPERTY
  WalkEnds
CHECK_DEADLOCK FALSE
