SPECIFICATION FairSpec
CONSTANTS
  Commands = {"get-stats"}
  Others = {}
  MaxLines = 3
PROPERTIES
  RequestAnswered
CHECK_DEADLOCK FALSE
