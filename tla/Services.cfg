SPECIFICATION QuerySpec
CONSTANTS
  MaxBatch = 2
  DAClients = {"celestia", "avail"}
INVARIANTS
  TypeOK
  VerifiedIsFinal
PROPERTIES
  WaitsGrow
  CallsImplementLedger
  EveryBatchVerified
  StuckForEver
  LatestFound
