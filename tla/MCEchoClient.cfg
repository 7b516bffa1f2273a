SPECIFICATION FairSpec
CONSTANTS
  Fds = {3}
  MaxLines = 3
INVARIANTS
  TypeOK
  InputInOrder
  EndLosesNoLine
PROPERTIES
  EofEndsClient
  ServerEndNoticed
CHECK_DEADLOCK FALSE
