CONSTANTS
  State = {P, Q}
  First = P
  Device = {hda, cd}
  LastSector = 1
  BlockDevAS = 0
  Data = {X, Y}
  None = None
  MaxWrites = 3
  MaxEvents = 2
SPECIFICATION Spec
INVARIANTS SectorsKept PluginStatesKept
CHECK_DEADLOCK FALSE
SYMMETRY Alike
