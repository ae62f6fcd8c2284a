SPECIFICATION Spec
CONSTANTS
    Environments = {e1}
    MaxFaults = 1
    MaxHands = 0
    MaxStops = 1
    MaxFences = 1
    MaxStudio = 0
    MaxRetries = 0
PROPERTY FencedKeepsWaiting
CHECK_DEADLOCK FALSE
