SPECIFICATION FairSpec
CONSTANTS
  Payers = {"u", "x"}
  Extends = {"x"}
  Strategies = {"none", "token", "nwc"}
  Cbor <- Values
  Requests <- Creqs
  Tokens <- Cashubs
  MaxTime = 1
  MaxCalls = 2
INVARIANTS
  DecodersExact
  FreshAnswer
  PaidOnce
PROPERTIES
  CallsEnd
CHECK_DEADLOCK FALSE
