SPECIFICATION Spec
CONSTANTS
  BatchSize = 2
  ChanCap = 1
  MaxBlock = 2
  TxsUpTo <- BlocksOfFour
  FaultKinds = {"crash"}
  MaxCrashes = 1
  MaxFaults = 0
INVARIANT
  SettledTxsFinal
