CONSTANTS
  SplitCount <- MCSplitCount
  StripeSize <- MCStripeSize
  NumBlocks <- MCNumBlocks
  Data <- MCData
  MaxFaults <- MCNoFaults
  CrossStripeReads = FALSE
SPECIFICATION Spec
INVARIANTS
  TypeOK
  LockHeldByHandle
PROPERTIES
  BlockStoreSpec
