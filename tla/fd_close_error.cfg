\* Careful clients, but close(2) may report an error.
SPECIFICATION FDSpec
CONSTANTS
  Handles = {h1, h2, h3}
  Wrappers = {w1, w2, w3}
  NoWrapper = NoWrapper
  FdNumbers <- MCFdNumbers
  CountModulus = 2
  MaxRead = 1
  MaxWritevs = 1
  CloseMayFail = TRUE
  UseAfterClose = FALSE
SYMMETRY MCSymmetry
INVARIANTS
  LiveWrapperOwnsItsNumber
