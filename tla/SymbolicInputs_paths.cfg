CONSTANTS
  State = {P, Q}
  First = P
  M = M
  Memory = {M, L}
  ObjectStart <- OneObject
  Register = {R}
  Flag = {N}
  Size = 4
  ByteSize = 2
  Ranges <- SomeRanges
  Conditions <- SomeConditions
  Data = {1}
  MaxVars = 2
  MaxSteps = 2
  NoRange = NoRange
SPECIFICATION InputsSpec
INVARIANTS PathsHaveInputs FirstPathNative
CHECK_DEADLOCK FALSE
