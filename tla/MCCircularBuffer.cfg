SPECIFICATION FairSpec
CONSTANTS
  Size = 3
  Byte <- MCByte
  Chunks <- MCChunks
INVARIANTS
  TypeOK
  PutStaysInBounds
PROPERTIES
  PutTerminates
  FifoSpec
