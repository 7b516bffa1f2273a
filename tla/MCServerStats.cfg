SPECIFICATION Spec
CONSTANTS
  Clients = {c1}
  Fds = {3, 4}
INVARIANT StatsAnswered
CHECK_DEADLOCK FALSE
