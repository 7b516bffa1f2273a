SPECIFICATION FairSpec
CONSTANTS
  Commands = {"get-stats"}
  Others = {"other"}
  MaxLines = 4
INVARIANTS
  TypeOK
  RequestsInOrder
  EofComesLast
  WaitsOnlyInsideLine
PROPERTIES
  EofNoticed
CHECK_DEADLOCK FALSE
