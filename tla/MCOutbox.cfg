\* Two drains, a channel that may be refused or removed beside one that works.
SPECIFICATION OutboxFairSpec
CONSTANTS
    s1 = s1
    s2 = s2
    s3 = s3
    Slots = {s1, s2, s3}
    Channels = {"email", "webhook"}
    k1 = k1
    Keys = {k1}
    d1 = d1
    d2 = d2
    Drains = {d1, d2}
    Configurations <- MCWebhookOn
    Outcomes <- MCOneBroken
    MAX_ATTEMPTS = 2
    BACKOFF <- MCBackoff
    Limit = 3
    Window <- MCWindow
    Prompt = FALSE
    Refusals = {FALSE, TRUE}
    MaxEvents = 1
    MaxFaults = 1
    MaxReclaims = 1
    MaxChanges = 1
    MaxTrouble = 2
    Weight = 2
INVARIANT FailureReported
PROPERTIES DeliveriesKept EveryRowSettles FailureIsHeard
CHECK_DEADLOCK FALSE
