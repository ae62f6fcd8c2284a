\* Two environments, a service that drains, a pause, borrowing up to twice the share.
SPECIFICATION GateFairSpec
CONSTANTS
  a = a
  b = b
  c = c
  Env = {a, b}
  Service = {"auth", "rest"}
  Drains = {"rest"}
  Budget <- SmallRestBudget
  DefaultShare = 2
  Maximum = 4
  Ceiling = 4
  Headroom = 1
  Pausable = {a}
  Share = {1, 2, 3}
  MaxLingering = 1
INVARIANTS CountersAgree DrainedIsIdle FullOnlyByBorrowing
PROPERTIES BorrowersKeepReserve ShareComesBack
CHECK_DEADLOCK FALSE
