\* poll(2) fails with an error other than EINTR.
SPECIFICATION Spec
CONSTANTS
  r1 = r1
  r2 = r2
  Handles = {c1, r1, r2}
  Rules = {r1, r2}
  Direction <- MCDirection
  Wrappers = {w1}
  NoWrapper = NoWrapper
  FdNumbers <- MCOneNumber
  CountModulus = 2
  MaxRead = 1
  MaxWritevs = 1
  MaxServices = 1
  CloseMayFail = FALSE
  UseAfterClose = FALSE
  PollFailures = {"other"}
  CallbackMayAdd = FALSE
  ClientMayThrow = FALSE
PROPERTIES
  PollFailureThrows
