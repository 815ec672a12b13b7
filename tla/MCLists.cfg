CONSTANTS
  ListIds = {1, 2, 3, 4, 5, 6, 7, 8, 9, 10, 11, 12, 13, 14, 15, 16}
  ObsIds = {1, 2, 3}
  Lengths = {2}
  Chains <- MCChains
  PoolMax = 2
  PoolCapacity = 2
  MaxPushes = 1
  MaxBlocks = 3
SPECIFICATION Spec
INVARIANTS
  TypeOK
  OneOwner
  BlocksOwned
  PairsOutliveReads
CHECK_DEADLOCK FALSE
