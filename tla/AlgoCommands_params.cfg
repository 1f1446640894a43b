CONSTANTS
  s1 = s1  s2 = s2  u1 = u1  u2 = u2  a1 = a1  a2 = a2
  Sessions = {s1, s2}
  UserOf <- MCUserOf
  Owns <- MCOwns
  Accounts = {a1, a2}
  KnownSecs = {1}
  Sides = {"buy", "sell"}
  AlgoNames = {"twap"}
  Requests <- MsgsParams
  MaxReq = 3
SPECIFICATION Spec
INVARIANT ParamRoundTrip
INVARIANT TupleReasons
CHECK_DEADLOCK FALSE
