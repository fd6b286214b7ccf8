\* Liveness of two events when a run takes only the newest.
SPECIFICATION FairSpec
CONSTANTS
    a = a
    b = b
    Workers = {w1}
    Endpoints = {p1}
    Types = {a, b}
    TypeOf <- MCTypeOf
    KeyOf <- MCKeyOf
    Configs <- OnOff
    MaxEvents = 2
    MaxAttempts = 1
    BatchSize = 1
    CleanupBatchSize = 1
    MaxTasks = 1
PROPERTIES EveryEventSettles EveryEventIsPurged
