SPECIFICATION FairSpec
CONSTANTS
  BatchSize = 2
  ChanCap = 1
  MaxBlock = 3
  TxsUpTo <- BlocksOfFive
  FaultKinds = {"reject", "blob", "noack", "prover"}
  MaxCrashes = 0
  MaxFaults = 2
INVARIANTS
  InOrderExactlyOnce
  NoEquivocation
  LeadBounded
PROPERTIES
  ImplementsStrictLedger
  EverySliceSettles
