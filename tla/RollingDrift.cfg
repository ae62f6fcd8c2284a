SPECIFICATION Spec
CONSTANTS
    Environments = {e1}
    MaxFaults = 2
    MaxHands = 2
    MaxStops = 3
    MaxFences = 0
    MaxStudio = 0
    MaxRetries = 1
INVARIANT ForcedResumes
CHECK_DEADLOCK FALSE
