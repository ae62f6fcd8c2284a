CONSTANTS MaxAttempts = 2 MaxFaults = 0 MaxWrites = 0 MaxApplies = 1 Terminal = FALSE
SPECIFICATION Spec
PROPERTIES MismatchNeverConfirmed
