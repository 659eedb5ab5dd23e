CONSTANTS
    MaxRuns = 2
    Keep = 2
    MaxFaults = 1
    MaxKills = 0
    MaxCommands = 1
    Faults = {"list"}
    Commands = {"manual"}
    MayAge = {}
    Freezes = TRUE
    PollSet = TRUE
    Scheduled = FALSE
    OAuth = TRUE
    Missing = Missing
SPECIFICATION Spec
INVARIANT AckProvesRestore
CHECK_DEADLOCK FALSE
