SPECIFICATION Spec
CONSTANTS
    Environments = {e1}
    MaxFaults = 1
    MaxHands = 1
    MaxStops = 2
    MaxFences = 0
    MaxStudio = 0
    MaxRetries = 1
INVARIANT MissingIsCreated
CHECK_DEADLOCK FALSE
