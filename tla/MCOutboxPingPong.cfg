SPECIFICATION OutboxFairSpec
CONSTANTS
    s1 = s1
    s2 = s2
    s3 = s3
    s4 = s4
    Slots = {s1, s2, s3, s4}
    Channels = {"email", "webhook"}
    k1 = k1
    Keys = {k1}
    d1 = d1
    Drains = {d1}
    Configurations <- MCOnly
    Outcomes <- MCBothBroken
    MAX_ATTEMPTS = 8
    BACKOFF <- RealBackoff
    Limit = 20
    Window <- RealWindow
    Prompt = TRUE
    Refusals = {FALSE}
    MaxEvents = 1
    MaxFaults = 0
    MaxReclaims = 0
    MaxChanges = 0
    MaxTrouble = 9
    Weight = 1
PROPERTY EscalationEnds
CHECK_DEADLOCK FALSE
