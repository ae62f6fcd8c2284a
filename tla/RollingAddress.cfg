SPECIFICATION Spec
CONSTANTS
    Environments = {e1}
    MaxFaults = 1
    MaxHands = 0
    MaxStops = 1
    MaxFences = 0
    MaxStudio = 0
    MaxRetries = 0
INVARIANT AddressIsServed
CHECK_DEADLOCK FALSE
