\* Every ParseResult is shown.
SPECIFICATION Spec
CONSTANTS
  Base = 2
  Widths <- MCWidths
  MaxBytes = 1
  MaxCalls = 2
CHECK_DEADLOCK FALSE
INVARIANT
  EveryResultHasAName
