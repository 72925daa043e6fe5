SPECIFICATION SearchSpec
CONSTANTS
  Bytes <- TwoBytes
  N = 4
  MaxText = 12
INVARIANTS
  SearchTypeOK
  DllSearchExact
  SearchesAgree
CHECK_DEADLOCK FALSE
