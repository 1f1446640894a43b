CONSTANTS
  u1 = u1  u2 = u2  nouser = nouser  t1 = t1  t2 = t2  forged = forged
  Users = {u1, u2}
  NoUser = nouser
  Tokens = {t1, t2}
  NoToken = forged
  Actions = {"order"}
  MaxMsgs = 4
SPECIFICATION Spec
INVARIANT TokenDecidesUser
CHECK_DEADLOCK FALSE
