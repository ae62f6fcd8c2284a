\* A serving and a retained stopped container, two runs, delete - restore - delete, and an operator who follows the manual.
SPECIFICATION AttendedSpec
CONSTANTS
  Container = {auth, functions}
  Serving = {auth}
  Tenant = tenant
  Adapter = {p1, p2}
  NoAdapter = NoAdapter
  MaxOp = 3
INVARIANTS DeletedIsClosed ActiveIsWhole
PROPERTIES OnlyUnderIntent OperationSettles
CHECK_DEADLOCK FALSE
