CONSTANTS
  s1 = s1  s2 = s2  twap = twap  _tmp = _tmp  x = x  y = y
  Sessions = {s1, s2}
  Names = {twap, _tmp}
  Hidden = {_tmp}
  Texts <- MCTexts
  MaxMsgs = 4
SPECIFICATION Spec
INVARIANT SettledFilesWhole
CHECK_DEADLOCK FALSE
