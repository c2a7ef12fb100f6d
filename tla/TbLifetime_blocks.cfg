CONSTANTS
  State = {P, Q, R}
  First = P
  Tb = {T1, T2, T3}
  Points = 2
  FlushTBsOnStateSwitch = TRUE
  None = None
SPECIFICATION Spec
INVARIANTS BlocksHeld SignalsRight
CHECK_DEADLOCK FALSE
SYMMETRY Alike
