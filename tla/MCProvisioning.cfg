\* Two environments, two claims each, two workers that may follow each other.
CONSTANTS
  Env = {1, 2}
  Project = {p1}
  ProjectOf <- OneProject
  Worker = {w1, w2}
  EnvironmentLimit = 2
  MaxAttempt = 2
  NoToken = NoToken
SYMMETRY WorkerSymmetry
SPECIFICATION Spec
INVARIANTS NoOverlap LiveEffectHoldsClaim RetryableIsClean ReceiptIsAccountable
PROPERTIES ConsumedOnlyWhenRecorded LedgerSpec
CHECK_DEADLOCK FALSE
