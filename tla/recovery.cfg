CONSTANTS
    MaxRuns = 2
    Keep = 2
    MaxFaults = 1
    MaxKills = 0
    MaxCommands = 1
    Faults = {"dispatch", "heartbeat", "killswitch", "release"}
    Commands = {"engage"}
    MayAge = {"heartbeat"}
    Freezes = TRUE
    PollSet = TRUE
    Scheduled = TRUE
    OAuth = TRUE
    Missing = Missing
SPECIFICATION FairSpec
PROPERTY LoopRecovers RunsEnd GracefulStop
CHECK_DEADLOCK FALSE
