CONSTANTS
  SearchLimit <- MCSearchLimit
  BlockExp <- MCBlockExp
  MaxBlocks <- MCMaxBlocks
  MaxIoCount <- MCMaxIoCount
  LengthBits <- MCLengthBits
  Reopens = FALSE
SPECIFICATION Spec
INVARIANTS
  TypeOK
  FreeCountSound
PROPERTIES
  AllocateReusesNearbyFree
