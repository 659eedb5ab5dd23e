CONSTANTS
    MaxRuns = 2
    Keep = 2
    MaxFaults = 0
    MaxKills = 0
    MaxCommands = 2
    Faults = {}
    Commands = {"manual", "failover"}
    MayAge = {"lease"}
    Freezes = TRUE
    PollSet = TRUE
    Scheduled = FALSE
    OAuth = TRUE
    Missing = Missing
SPECIFICATION Spec
PROPERTY WaitsForLiveHolder
CHECK_DEADLOCK FALSE
