CONSTANTS
  u1 = u1
  u2 = u2
  a1 = a1
  a2 = a2
  ad1 = ad1
  nouser = nouser
  bad = bad
  Users <- MCUsers
  NoUser = nouser
  Disabled = {}
  Accounts <- MCAccounts
  Owns <- MCOwns
  SecIds = {1}
  UnknownIds = {}
  BadJson = bad
  Prices = {0, 1}
  PnlVals = {0, 1}
  Adapters = {ad1}
  AlgoTokens = {"t1"}
  HistAccounts = {a1}
  Msgs <- MsgsBad
  MaxMsgs = 3
  MaxPosts = 0
  MaxExt = 1
  MaxTm = 2
  Unseen = Unseen
  Absent = Absent

SPECIFICATION Spec
INVARIANT ClientViewConsistent
CHECK_DEADLOCK FALSE
