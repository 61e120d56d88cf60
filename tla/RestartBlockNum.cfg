CONSTANTS
  SplitCount <- MCSplitCount
  StripeSize <- MCStripeOne
  NumBlocks <- MCNumBlocks
  Data <- MCData
  MaxFaults <- MCNoFaults
  CrossStripeReads = FALSE
SPECIFICATION Spec
PROPERTIES
  OpenCoversData
