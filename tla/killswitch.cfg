CONSTANTS
    MaxRuns = 2
    Keep = 2
    MaxFaults = 1
    MaxKills = 1
    MaxCommands = 3
    Faults <- FaultsButKillSwitch
    Commands = {"manual", "engage", "clear", "failover"}
    MayAge = {"lease"}
    Freezes = TRUE
    PollSet = TRUE
    Scheduled = FALSE
    OAuth = FALSE
    Missing = Missing
SPECIFICATION Spec
INVARIANT TypeOK NoRestoreOfUnfinished
PROPERTY KillSwitchEndsLoop
CHECK_DEADLOCK FALSE
