SPECIFICATION Spec
CONSTANTS
  Jobs = {i1, i2}
  Workers = {w1, w2}
  NoWorker = NoWorker
  NoClaim = NoClaim
  MaxAttempts = 2
  AttemptBound = 2
  MaxOrders = 2
SYMMETRY Symmetry
CHECK_DEADLOCK FALSE
INVARIANTS
  TypeOK
  RecordsFitJobs
  StatusSupported
