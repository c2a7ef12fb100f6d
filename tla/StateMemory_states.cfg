CONSTANTS
  State = {A, B}
  First = A
  Page = {ram}
  Copies = 3
  Value = {0, 1}
  Zero = 0
  Symbolic = Symbolic
  None = None
  ObjectSize = 4
  Size = {2}
SPECIFICATION Spec
INVARIANTS TypeOK MemoryKept CpuKept ShortcutsCoherent
CHECK_DEADLOCK FALSE
