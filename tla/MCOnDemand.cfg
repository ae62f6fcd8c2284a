SPECIFICATION FairSpec
CONSTANTS
    Order <- MCFunctions
    Cancels = {"functions"}
    Requests = {1, 2}
    MaxHeld = 1
    WakesPerHour = 1
    MaxChoices = 2
    MaxFaults = 1
    MaxOthers = 1
INVARIANT RowTellsTruth
PROPERTIES NobodyIsCutOff KillSwitchMeansOn
CHECK_DEADLOCK FALSE
