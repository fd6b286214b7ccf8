\* Liveness of one event that two workers may both hold.
SPECIFICATION FairSpec
CONSTANTS
    a = a
    b = b
    Workers = {w1, w2}
    Endpoints = {p1}
    Types = {a, b}
    TypeOf <- MCTypeOf
    KeyOf <- MCKeyOf
    Configs <- OnOff
    MaxEvents = 1
    MaxAttempts = 2
    BatchSize = 1
    CleanupBatchSize = 1
    MaxTasks = 1
PROPERTIES EveryEventSettles EveryEventIsPurged
