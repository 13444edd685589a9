SPECIFICATION Spec
CONSTANTS
  up = up
  alb = alb
  Jobs = {j1, j2}
  Workers = {w1, w2}
  NoWorker = NoWorker
  NoClaim = NoClaim
  MaxAttempts = 2
  AttemptBound = 2
  Tasks = {up, alb}
  ActionOf <- Actions
  NoTask = NoTask
  c1 = c1
  c2 = c2
  Credentials = {c1, c2}
  UploadTo = c1
  DeployTo <- OneToTwo
  NoCert = NoCert
  MaxVersion = 2
  MaxRemote = 3
  MaxTrouble = 1
SYMMETRY Symmetry
CHECK_DEADLOCK FALSE
INVARIANTS
  TypeOK
  RecordsMatchCloud
  SuccessWasServed
PROPERTIES
  UploadOnlyWhenNeeded
