SPECIFICATION ReadingSpec
CONSTANTS
  Size = 3
  RecvBufSize = 5
  TxSpace = 2
  MaxBytes = 6
INVARIANTS
  TypeOK
  EveryByteAccounted
  NeverPaused
  OwnershipConsistent
  SigpipeNeedsFin
  OnlyRestOfLossStays
  NoEdgeMissed
PROPERTIES
  KeepsItsPart
  EchoesInOrder
  BytesAreRead
  PeerCloseNoticed
  BufferFlushed
CHECK_DEADLOCK FALSE
