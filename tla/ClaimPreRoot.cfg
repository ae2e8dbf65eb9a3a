SPECIFICATION Spec
CONSTANTS
  BatchSize = 2
  ChanCap = 1
  MaxBlock = 2
  TxsUpTo <- BlocksOfFour
  FaultKinds = {}
  MaxCrashes = 0
  MaxFaults = 0
INVARIANT
  PreRootChains
