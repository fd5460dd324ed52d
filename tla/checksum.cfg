\* With the sum of a pseudo-header, up to the bytes that cannot overflow the sum.
\* The caller may stop at any time.
SPECIFICATION Spec
CONSTANTS
  Base = 2
  InitialSums <- MCOneWord
  MaxChunk = 3
  MaxBytes = 8
CHECK_DEADLOCK FALSE
INVARIANTS
  ValueIsInternetChecksum
  CorrectSegmentGivesZero
