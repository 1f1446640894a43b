CONSTANTS
  None = None
  GraceIn = {None, 4, 7, 10}
  TickIn = {None, 3, 4}
  MaxTicks = 6

SPECIFICATION Spec
INVARIANT NeverPastZero
CHECK_DEADLOCK FALSE
