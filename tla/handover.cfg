CONSTANTS
    MaxRuns = 4
    Keep = 2
    MaxFaults = 1
    MaxKills = 0
    MaxCommands = 1
    Faults = {"truncate", "copy", "fetch", "commit"}
    Commands = {"manual"}
    MayAge = {}
    Freezes = TRUE
    PollSet = TRUE
    Scheduled = FALSE
    OAuth = TRUE
    Missing = Missing
SPECIFICATION Spec
INVARIANT DispatchesAreBounded NewestIsRestorable CommittedVerifies RunsOnVouchedTree
CHECK_DEADLOCK FALSE
