CONSTANTS
    MaxRuns = 2
    Keep = 2
    MaxFaults = 0
    MaxKills = 0
    MaxCommands = 1
    Faults = {}
    Commands = {"manual"}
    MayAge = {}
    Freezes = TRUE
    PollSet = TRUE
    Scheduled = FALSE
    OAuth = TRUE
    Missing = Missing
SPECIFICATION Spec
PROPERTY NodeMigrates
CHECK_DEADLOCK FALSE
