\* A second worker writes an older copy over a delivered event.
SPECIFICATION FairSpec
CONSTANTS
    a = a
    b = b
    Workers = {w1, w2}
    Endpoints = {p1}
    Types = {a, b}
    TypeOf <- MCTypeOf
    KeyOf <- MCKeyOf
    Configs <- OnOff
    MaxEvents = 1
    MaxAttempts = 2
    BatchSize = 2
    CleanupBatchSize = 1
    MaxTasks = 1
PROPERTY DeliveredIsFinal
