\* Strings of up to five bytes, cut anywhere; the reader makes up to four calls.
\* The reader may stop at any time.
SPECIFICATION Spec
CONSTANTS
  Base = 2
  Widths <- MCWidths
  MaxBytes = 5
  MaxCalls = 4
CHECK_DEADLOCK FALSE
INVARIANTS
  ParserTypeOK
  RoundTrip
PROPERTIES
  TooShortExact
  ErrorStopsParsing
