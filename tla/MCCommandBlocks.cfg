SPECIFICATION Spec
CONSTANTS
  Commands = {"get-stats"}
  Others = {"other"}
  MaxLines = 3
INVARIANTS
  NeverBlocks
CHECK_DEADLOCK FALSE
