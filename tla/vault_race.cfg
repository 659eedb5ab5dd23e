CONSTANTS
    Threads = {main, pool}
    Main = main
    Absent = Absent
    Empty = Empty
    Torn = Torn
    NoName = NoName
    Locked = Locked
    MaxEdits = 2
    MaxPass = 2
    MaxFaults = 0
    MaxCrashes = 0
    Concurrent = TRUE
    OsWrap = TRUE
SPECIFICATION Spec
PROPERTY RotationKeepsEdits
