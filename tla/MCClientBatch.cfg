SPECIFICATION Spec
CONSTANTS
  Fds = {3}
  MaxLines = 1
INVARIANT NoUnknownEvent
CHECK_DEADLOCK FALSE
