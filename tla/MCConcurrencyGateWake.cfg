\* One environment alone wakes, with a share above the headroom.
SPECIFICATION GateSpec
CONSTANTS
  a = a
  b = b
  c = c
  Env = {a, b}
  Service = {"auth"}
  Drains = {}
  Budget <- SmallRestBudget
  DefaultShare = 2
  Maximum = 6
  Ceiling = 4
  Headroom = 2
  Pausable = {}
  Share = {2, 3}
  MaxLingering = 0
PROPERTIES RecentKeepsShare
CHECK_DEADLOCK FALSE
