\* Lists that share blocks, and every way writev(2) can cut one of them up;
\* writev(2) comes back.
SPECIFICATION WLFairSpec
CONSTANTS
  Lists = {l1, l2}
  Blocks = {b1, b2}
  Null = Null
  Freed = Freed
  Strings <- MCStrings
  MaxLength = 4
  MaxBuffers = 2
  CountModulus = 6
INVARIANTS
  BufferTypeOK
  StorageLifetime
  NothingLostOrRepeated
  ReturnedIsWritten
PROPERTIES
  ImplementsByteStrings
  KeepsContract
  WriteEnds
