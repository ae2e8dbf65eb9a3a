SPECIFICATION Spec
CONSTANTS
  low = low
  high = high
  refused = refused
  k = k
  l = l
  Clients = {k, l}
  Txs = {low, high}
  Gas <- GasLimits
  Refused = {}
  MaxRequests = 2
  MaxErrors = 1
  MaxCrashes = 0
INVARIANT
  FailedIsRetried
