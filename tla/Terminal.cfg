SPECIFICATION Spec
CONSTANTS
  ROW_MAX = 3
  COL_MAX = 2
  PageCells = 7
  tab_space_num = 2
  MainChars <- MCMainChars
  HandlerChars <- MCHandlerChars
  MaxLine = 3
  MaxTears = 2
INVARIANTS
  CursorOnScreen
PROPERTIES
  ImplementsConsole
