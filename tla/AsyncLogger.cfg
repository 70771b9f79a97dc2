\* Two callers, a queue of one entry, one midnight.
CONSTANTS
    Callers = {c1, c2}
    Capacity = 1
    MaxLogs = 2
    MaxDay = 1
SPECIFICATION FairSpec
CHECK_DEADLOCK FALSE
INVARIANTS
    NothingLost
    DropsAccounted
    OrderedPerThread
PROPERTIES
    DestructorReturns
    EventuallyOnDisk
