CONSTANTS
  SplitCount <- MCSplitCount
  StripeSize <- MCStripeOne
  NumBlocks <- MCNumBlocksSmall
  Data <- MCData
  MaxFaults <- MCMaxFaults
  CrossStripeReads = FALSE
SPECIFICATION Spec
PROPERTIES
  WriteHoldsLock
