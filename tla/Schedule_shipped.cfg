\* The settings of the repository in quarters of an hour, one quarter of delay.
SPECIFICATION Spec
CONSTANTS
    MaxFiles = 1
    Day = 96
    NotifyPeriod = 4
    CleanupInterval = 24
    PurgeInterval = 24
    PurgeOffset = 2
    TTL = 96
    NotifyWindow = 4
    Retention = 672
    BatchSize = 1000
    Delay = 1
    Horizon = 240
CHECK_DEADLOCK FALSE
INVARIANT EveryFileIsWarned
