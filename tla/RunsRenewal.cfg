SPECIFICATION Spec
CONSTANTS
  j1 = j1
  j2 = j2
  j3 = j3
  r1 = r1
  r2 = r2
  t1 = t1
  Jobs = {j1, j2}
  Workers = {w1, w2}
  NoWorker = NoWorker
  NoClaim = NoClaim
  MaxAttempts = 2
  AttemptBound = 3
  Tasks = {t1}
  Runs = {r1, r2}
  RunOf <- SingleRuns
  TaskOf <- OneTask
  ActionOf <- Renewal
  NoTx = NoTx
  NoFan = NoFan
  MaxConfig = 1
SYMMETRY Symmetry
CHECK_DEADLOCK FALSE
INVARIANTS
  ManualRunsDisjoint
