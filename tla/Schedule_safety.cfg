\* Two files that each fill a batch, and a calendar whose last interval of the day
\* is short; the window is one period, as shipped, and the retention is MemoryIsLong.
SPECIFICATION Spec
CONSTANTS
    MaxFiles = 2
    Day = 7
    NotifyPeriod = 2
    CleanupInterval = 3
    PurgeInterval = 3
    PurgeOffset = 1
    TTL = 4
    NotifyWindow = 2
    Retention = 7
    BatchSize = 1
    Delay = 1
    Horizon = 13
CHECK_DEADLOCK FALSE
INVARIANTS DeletedInTime WarnedOnce IInv
PROPERTIES DeletedWereWarned
