CONSTANTS
  A = A
  B = B
  C = C
  State = {A, B, C}
  First = A
  None = None
  Input = {0, 1, 2}
  Condition <- TwoConditions
  Value = {0, 1}
  Expression <- OneAndFirst
  Null = Null
  Caller = {here, there}
  MaxOps = 2
SYMMETRY Forked
SPECIFICATION Spec
INVARIANT MergeSound
CHECK_DEADLOCK FALSE
