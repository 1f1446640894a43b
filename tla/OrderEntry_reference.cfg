CONSTANTS
  SubAccounts = {"desk1", "desk2"}
  KnownSecs = {1}
  Sides = {"buy", "sell", "short"}
  CurrentUser = u1
  Requests <- MsgsAll
  MaxReq = 1
  Owned = {"desk1"}
  Bods <- MCBods
  MdAdapters = {"md1"}
  EcAdapters = {"ec1"}
  Brokered <- MCBrokered
  OrderIds = {7}
  AlgoLog = {1, 2}
  ConfLog <- MCConfLog
  QRequests <- QueryMsgs
SPECIFICATION QSpec
INVARIANT TypeOK
INVARIANT CodeMatchesSpec
INVARIANT QueriesMatchSpec
CHECK_DEADLOCK FALSE
