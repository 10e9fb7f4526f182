SPECIFICATION Spec
CONSTANTS
  Calls <- MCCalls
  WordDigits = 4
  IntDigits = 2
  ShortDigits = 1
INVARIANTS
  FormatUnderstood
  ArgumentsInStep
  NumbersReadBack
CHECK_DEADLOCK FALSE
