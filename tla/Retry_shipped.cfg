\* The settings of the repository in minutes, two workers, runs of up to the soft
\* time limit, one of which misses the event.
SPECIFICATION Spec
CONSTANTS
    Workers = {w1, w2}
    SweepInterval = 5
    QueueDelay = 1
    RunTime = 4
    BaseDelay = 1
    MaxDelay = 60
    JitterPart = 10
    MaxAttempts = 5
    MaxMisses = 1
    UrlLifetime = 60
\* The clock stops when the event has settled.
CHECK_DEADLOCK FALSE
SYMMETRY WorkerSymmetry
INVARIANTS RefusalsAreSpaced AttemptedInTime SettledInTime UrlIsAlive IInv
