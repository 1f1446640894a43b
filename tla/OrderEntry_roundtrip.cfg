CONSTANTS
  SubAccounts = {"desk1"}
  KnownSecs = {1}
  Sides = {"buy", "sell", "short"}
  CurrentUser = u1
  Requests <- MsgsTypes
  MaxReq = 1
SPECIFICATION Spec
CHECK_DEADLOCK FALSE
INVARIANT TypeRoundTrip
