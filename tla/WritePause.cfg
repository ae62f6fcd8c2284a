\* One environment, a body that is read while the window passes, two pauses, one death.
SPECIFICATION FairSpec
CONSTANTS
    BodyRead = 1
    Window = 2
    MaxFaults = 1
    MaxPauses = 2
    MaxOthers = 1
    MaxChanges = 1
INVARIANTS HeldIsQuiet RecordGoesLast
PROPERTIES ResumeGetsOut
CHECK_DEADLOCK FALSE
