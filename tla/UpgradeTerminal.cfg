CONSTANTS MaxAttempts = 2 MaxFaults = 1 MaxWrites = 0 MaxApplies = 1 Terminal = TRUE
SPECIFICATION Spec
PROPERTIES FailsOnlyAfterStarting
