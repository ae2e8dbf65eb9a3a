SPECIFICATION FairSpec
CONSTANTS
  s1 = s1
  s2 = s2
  Subs = {s1, s2}
  SendCap = 1
  MaxRequests = 3
  MaxEvents = 1
  MaxPings = 1
INVARIANTS
  TypeOK
  InOrder
  ClosedInOrder
  MappedAreOpen
PROPERTIES
  Teardown
  CancelledEnds
CHECK_DEADLOCK FALSE
