CONSTANTS
  p1 = p1
  p2 = p2
  s1 = s1
  s2 = s2
  s3 = s3
  Proc = {p1, p2}
  Root = p1
  State = {s1, s2, s3}
  First = s1
  None = None
  ConcolicMode = TRUE
SPECIFICATION FairSpec
INVARIANTS TypeOK EachExploredOnce StatesUsedRightly
PROPERTIES YieldedReturns YieldGivesWay
CHECK_DEADLOCK FALSE
