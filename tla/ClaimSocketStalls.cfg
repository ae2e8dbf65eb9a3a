SPECIFICATION FairSpec
CONSTANTS
  s1 = s1
  s2 = s2
  Subs = {s1}
  SendCap = 1
  MaxRequests = 2
  MaxEvents = 2
  MaxPings = 0
PROPERTY
  EveryMessageWritten
CHECK_DEADLOCK FALSE
