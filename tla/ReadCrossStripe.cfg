CONSTANTS
  SplitCount <- MCSplitCount
  StripeSize <- MCStripeSize
  NumBlocks <- MCNumBlocks
  Data <- MCData
  MaxFaults <- MCNoFaults
  CrossStripeReads = TRUE
SPECIFICATION Spec
PROPERTIES
  BlockStoreSpec
