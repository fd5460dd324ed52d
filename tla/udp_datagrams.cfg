\* Two sockets on a network that loses, duplicates and reorders; recv is
\* called with buffers that are too small, exact and too large.
SPECIFICATION Spec
CONSTANTS
  Base = 3
  IpBytes = 2
  PortBytes = 1
  StorageSize = 6
  Sockets = {s1, s2}
  Hosts = {5}
  Ports = {1, 2}
  Typed <- MCTyped
  NoEndpoint = NoEndpoint
  Names <- MCNames
  Answer <- MCAnswer
  Chars = {"0", "a", "b", "c"}
  Payloads <- MCPayloads
  Mtus = {1, 2}
  MaxSends = 2
  MaxCopies = 2
  MaxQueue = 2
SYMMETRY MCSymmetry
INVARIANTS
  DgTypeOK
  ReturnedIsOneDatagram
  SenderRecognised
  
PROPERTIES
  TakenInOrder
