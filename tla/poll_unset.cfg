CONSTANTS
    MaxRuns = 2
    Keep = 2
    MaxFaults = 0
    MaxKills = 0
    MaxCommands = 2
    Faults = {}
    Commands = {"manual", "engage"}
    MayAge = {}
    Freezes = TRUE
    PollSet = FALSE
    Scheduled = FALSE
    OAuth = TRUE
    Missing = Missing
SPECIFICATION FairSpec
PROPERTY GracefulStop
CHECK_DEADLOCK FALSE
