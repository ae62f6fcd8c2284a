\* The same, and nobody helps.
SPECIFICATION UnattendedSpec
CONSTANTS
  Container = {auth, functions}
  Serving = {auth}
  Tenant = tenant
  Adapter = {p1, p2}
  NoAdapter = NoAdapter
  MaxOp = 2
PROPERTIES ReplayFinishes
CHECK_DEADLOCK FALSE
