\* Sockets and plain descriptors; clients stop using a descriptor they closed,
\* and close(2) succeeds.
SPECIFICATION SockSpec
CONSTANTS
  Handles = {h1, h2, h3}
  Wrappers = {w1, w2}
  NoWrapper = NoWrapper
  FdNumbers <- MCFdNumbers
  CountModulus = 1
  MaxRead = 1
  MaxWritevs = 1
  Obtainable <- MCObtainable
  CloseMayFail = FALSE
  UseAfterClose = FALSE
SYMMETRY MCSymmetry
INVARIANTS
  FDTypeOK
  SockTypeOK
  LiveWrapperOwnsItsNumber
  NoLeakedDescriptor
  ClassIsKind
  AcceptKeepsConnection
PROPERTIES
  ForeignDescriptorsUntouched
  ThrowIsHarmless
  SocketUsesFileDescriptor
