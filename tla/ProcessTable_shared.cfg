CONSTANTS
  p1 = p1
  p2 = p2
  p3 = p3
  Pid = {p1, p2, p3}
  Root = p1
  NoPid = NoPid
  MaxProcesses = 2
  MaxFileId = 3
  MaxStateId = 1
  MaxCrashes = 1
SPECIFICATION FairSpec
INVARIANTS TypeOK CountKept NoAssertFails OwnOutputDirectory
PROPERTIES StateIdsFresh ChildRegisters
CHECK_DEADLOCK FALSE
