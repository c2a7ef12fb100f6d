CONSTANTS
  State = {A, B}
  First = A
  None = None
  Length = 3
  LastOf <- TwoBlocks
  Handler = 2
SPECIFICATION Spec
INVARIANTS AssertsHold ModesRight
PROPERTIES ExecutesGuest
CHECK_DEADLOCK FALSE
