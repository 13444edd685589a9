SPECIFICATION FairSpec
CONSTANTS
  c1 = c1
  Processes = {p1, p2}
  Clients = {c1}
  NoProcess = NoProcess
  MaxEvent = 3
  Sees <- Admin
  Capacity = 1
  ReplayLimit = 1
CHECK_DEADLOCK FALSE
INVARIANTS
  TypeOK
  InOrderOnce
  NoUnexplainedGap
PROPERTY
  StreamCatchesUp
