CONSTANTS MaxAttempts = 2 MaxFaults = 3 MaxWrites = 1 MaxApplies = 1 Terminal = FALSE
SPECIFICATION FairSpec
INVARIANTS OldOpensOnlyItsOwn
PROPERTIES KeepsAccepted Settles
