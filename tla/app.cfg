CONSTANTS
    Threads = {main, pool}
    Main = main
    Absent = Absent
    Empty = Empty
    Torn = Torn
    NoName = NoName
    Locked = Locked
    MaxEdits = 2
    MaxPass = 2
    MaxFaults = 2
    MaxCrashes = 1
    Concurrent = FALSE
    OsWrap = TRUE
    Passphrases = {w1, w2}
    Costs = {low, high}
    MaxWrites = 3
    MaxDamage = 2
    Garbage = Garbage
    Slugs = {r1, r2}
    Busy = {r1}
    NoSlug = NoSlug
    MaxId = 2
    MaxNow = 2
    Cycle = 1
    NoTag = NoTag
    Unset = Unset
    Requests = {q1, q2}
    Lifetime = 4
    Margin = 2
    MaxDelay = 2
    MaxTime = 10
    NoToken = NoToken
    Uploads = {u1, u2}
    Required = 2
    Values = {v1, v2}
    MaxRepoKeys = 2
    NoValue = NoValue
    Polls = {t1, t2}
    LogCapacity = 2
    MaxLines = 4
    Limits = {2, 3, 5}
    Period = 2
    NoTime = NoTime
SPECIFICATION PartsSpec
INVARIANT TypeOK AlarmsHaveCause
INVARIANT SealingTypeOK BothPathsOpen OpenedIsWhole ErrorsTellApart NoncesAreFresh
INVARIANT PollerTypeOK EtagVouches TokenTypeOK SentTokensAreFresh InjectionTypeOK ReportsAreTrue
INVARIANT LogTypeOK NothingSkipped LabelsAreTrue IdleTypeOK LockedInTime
PROPERTY KeepsPromise PreviousGenerationKept DestroyLeavesNothing
PROPERTY CountdownFollowsServer StoresOnlyReadable
