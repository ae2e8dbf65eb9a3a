SPECIFICATION FairSpec
CONSTANTS
  BatchSize = 2
  ChanCap = 1
  MaxBlock = 2
  TxsUpTo <- BlocksOfFour
  FaultKinds = {"crash", "blob", "noack", "prover"}
  MaxCrashes = 1
  MaxFaults = 1
INVARIANTS
  TypeOK
  HashChain
  ChainInv
  DurableFlagsBacked
  SettlementOrder
  SettledAgree
  LossBounded
PROPERTIES
  ImplementsLedger
  CommittedNeverReplayed
  EveryBlockCommitted
