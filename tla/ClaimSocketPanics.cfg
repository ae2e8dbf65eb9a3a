SPECIFICATION Spec
CONSTANTS
  s1 = s1
  s2 = s2
  Subs = {s1}
  SendCap = 2
  MaxRequests = 2
  MaxEvents = 2
  MaxPings = 1
INVARIANT
  NoSendOnClosed
CHECK_DEADLOCK FALSE
