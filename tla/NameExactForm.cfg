CONSTANTS
  UIntLimit <- MCUIntLimit
  IntLimit <- MCIntLimit
  NameDigits <- MCNameDigits
  MaxMiddle <- MCMaxMiddle
  UndefPgId = UndefPgId
SPECIFICATION Spec
CHECK_DEADLOCK FALSE
INVARIANTS

  AcceptsExactForm
