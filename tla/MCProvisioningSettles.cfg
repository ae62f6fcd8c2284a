\* One environment through four claims, past the two automatic requeues, with a member who may lose and regain the right to it.
CONSTANTS
  Env = {1}
  Project = {p1}
  ProjectOf <- OneProject
  Worker = {w1}
  EnvironmentLimit = 1
  MaxAttempt = 4
  NoToken = NoToken
SPECIFICATION FairSpec
INVARIANTS RequeueBudget
PROPERTIES JobSettles
CHECK_DEADLOCK FALSE
