CONSTANTS
  env = env
  cc = cc
  loc = loc
  tmp = tmp
  Fixed = {env}
  Global = {cc}
  Local = {loc}
  Temp = {tmp}
  Base <- BaseOf
  Offset <- OffsetOf
  Field = {2}
  Address = {0, 1, 2, 3}
  Value = {0, 1}
  Arith <- Sum
  None = None
  AssignsBase = FALSE
SPECIFICATION Spec
INVARIANTS TypeOK ValuesCoherent HomesCoherent CachesUsable
CHECK_DEADLOCK FALSE
