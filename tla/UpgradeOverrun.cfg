CONSTANTS MaxAttempts = 2 MaxFaults = 0 MaxWrites = 1 MaxApplies = 1 Terminal = FALSE
SPECIFICATION Spec
PROPERTIES NoneLandsAfterSnapshot
