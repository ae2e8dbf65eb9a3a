SPECIFICATION FairSpec
CONSTANTS
  low = low
  high = high
  refused = refused
  k = k
  l = l
  Clients = {k, l}
  Txs = {low, high, refused}
  Gas <- GasLimits
  Refused = {refused}
  MaxRequests = 4
  MaxErrors = 1
  MaxCrashes = 1
INVARIANTS
  TypeOK
  OfferedOnce
PROPERTIES
  AddedIsOffered
  RequestIsAnswered
