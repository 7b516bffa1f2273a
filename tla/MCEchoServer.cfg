SPECIFICATION FairSpec
CONSTANTS
  Clients = {c1, c2, c3}
  Fds = {3, 4, 5}
INVARIANTS
  TypeOK
  TableIsCurrent
  NoStaleEvent
  SocketsHaveOwners
  LoopLeavesNothing
PROPERTIES
  EachOnItsOwn
  BacklogEmptied
  HangupsReleased
  StdinEndsServer
CHECK_DEADLOCK FALSE
