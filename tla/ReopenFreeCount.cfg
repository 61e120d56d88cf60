CONSTANTS
  SearchLimit <- MCSearchLimit
  BlockExp <- MCBlockExp
  MaxBlocks <- MCMaxBlocks
  MaxIoCount <- MCMaxIoCount
  LengthBits <- MCLengthBits
  Reopens = TRUE
SPECIFICATION Spec
INVARIANTS
  FreeCountSound
