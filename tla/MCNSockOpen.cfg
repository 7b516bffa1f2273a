SPECIFICATION FairSpec
CONSTANTS
  Fds = {3, 4}
  MaxAddresses = 3
INVARIANTS
  TypeOK
  NothingLeaks
  HeldAreReady
PROPERTIES
  NoAddressSkipped
  CallReturns
