SPECIFICATION FairSpec
CONSTANTS
  Jobs = {j1, j2}
  Workers = {w1, w2}
  NoWorker = NoWorker
  NoClaim = NoClaim
  MaxAttempts = 2
  AttemptBound = 3
CHECK_DEADLOCK FALSE
INVARIANTS
  TypeOK
  ExecutionHistory
  FenceIsCurrent
  OutcomeIsLastAttempt
  RetryWithinBudget
PROPERTIES
  HistoryIsFinal
  EveryJobSettles
  ImplementsLifecycle
