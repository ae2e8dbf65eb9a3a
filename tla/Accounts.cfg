SPECIFICATION Spec
CONSTANTS
  a = a
  b = b
  New = New
  Users = {a, b}
  Genesis <- GenesisAllocation
  Slots = {1, 2}
  Kinds <- TransactionKinds
  BaseFee = 1
  MaxBlock = 2
  TxsUpTo <- TwoBlocks
  MaxCrashes = 1
  MaxFaults = 1
  Radix = 5
  KeyLen = 2
  ZeroLen = 3
  KeyOf <- AddressKey
  BatchSizes = {1, 2, 3, 4, 5, 6, 7, 8, 9, 127, 128, 129}
INVARIANTS
  TypeOK
  
  
  MinedNeverRefused
  NonceBounds
  RootUnique
  RootBinds
  MerkleRootBinds
