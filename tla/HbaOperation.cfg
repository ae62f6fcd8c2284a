SPECIFICATION Spec
CONSTANT MaxOp = 3
INVARIANTS NothingUnaccounted
CHECK_DEADLOCK FALSE
