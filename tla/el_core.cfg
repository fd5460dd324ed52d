\* Two rules over two descriptors.
SPECIFICATION Spec
CONSTANTS
  r1 = r1
  r2 = r2
  Handles = {c1, r1, r2}
  Rules = {r1, r2}
  Direction <- MCDirection
  Wrappers = {w1, w2}
  NoWrapper = NoWrapper
  FdNumbers <- MCFdNumbers
  CountModulus = 2
  MaxRead = 1
  MaxWritevs = 1
  MaxServices = 1
  CloseMayFail = FALSE
  UseAfterClose = FALSE
  PollFailures = {"EINTR", "other"}
  CallbackMayAdd = FALSE
  ClientMayThrow = TRUE
SYMMETRY MCSymmetry
INVARIANTS
  ELTypeOK
  CallbackWhenReady
PROPERTIES
  PollsOwnDescriptors
  BusyWaitExact
  OnlyDefunctRulesLeave
  CalledOnce
