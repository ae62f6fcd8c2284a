SPECIFICATION OutboxSpec
CONSTANTS
    s1 = s1
    s2 = s2
    Slots = {s1, s2}
    Channels = {"email", "webhook"}
    k1 = k1
    Keys = {k1}
    d1 = d1
    Drains = {d1}
    Configurations <- MCOnly
    Outcomes <- MCAnything
    MAX_ATTEMPTS = 2
    BACKOFF <- MCBackoff
    Limit = 3
    Window <- MCWindow
    Prompt = FALSE
    Refusals = {FALSE}
    MaxEvents = 1
    MaxFaults = 1
    MaxReclaims = 1
    MaxChanges = 0
    MaxTrouble = 9
    Weight = 1
INVARIANT FailureAlwaysReported
CHECK_DEADLOCK FALSE
