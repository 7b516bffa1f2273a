SPECIFICATION Spec
CONSTANTS
  Size = 3
  RecvBufSize = 3
  TxSpace = 2
  MaxBytes = 4
INVARIANTS
  EchoIsPrefix
CHECK_DEADLOCK FALSE
