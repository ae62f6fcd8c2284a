SPECIFICATION Spec
CONSTANTS
    Order <- MCFunctions
    Cancels = {"functions"}
    Requests = {1, 2}
    MaxHeld = 1
    WakesPerHour = 1
    MaxChoices = 0
    MaxFaults = 0
    MaxOthers = 0
PROPERTY CalledOffKeepsServing
CHECK_DEADLOCK FALSE
