\* Two environments, one fault, one stop, one upgrade fence, one retry.
SPECIFICATION FairSpec
CONSTANTS
    Environments = {e1, e2}
    MaxFaults = 1
    MaxHands = 1
    MaxStops = 1
    MaxFences = 1
    MaxStudio = 1
    MaxRetries = 1
INVARIANTS LimitsGoBack SettledIsWhole
PROPERTIES RollKeepsLedger RecordSettles
CHECK_DEADLOCK FALSE
