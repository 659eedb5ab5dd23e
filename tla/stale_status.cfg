CONSTANTS
    Slugs = {r1}
    Busy = {r1}
    NoSlug = NoSlug
    MaxId = 1
    MaxNow = 2
    Cycle = 1
    NoTag = NoTag
    Unset = Unset
SPECIFICATION PollerSpec
PROPERTY NotModifiedIsCurrent
