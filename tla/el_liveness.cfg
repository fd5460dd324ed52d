\* Two rules on one descriptor, and careless clients that come back.
SPECIFICATION FairSpec
CONSTANTS
  r1 = r1
  r2 = r2
  Handles = {c1, r1, r2}
  Rules = {r1, r2}
  Direction <- MCDirection
  Wrappers = {w1}
  NoWrapper = NoWrapper
  FdNumbers <- MCOneNumber
  CountModulus = 2
  MaxRead = 1
  MaxWritevs = 1
  MaxServices = 1
  CloseMayFail = TRUE
  UseAfterClose = TRUE
  PollFailures = {"EINTR", "other"}
  CallbackMayAdd = TRUE
  ClientMayThrow = FALSE
INVARIANTS
  LoopsAligned
PROPERTIES
  UsesFileDescriptor
  SuccessMeansDealtWith
  WaitProgresses
  DefunctForGood
  WaitReturns
  DefunctRulesRetire
