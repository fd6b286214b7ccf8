\* The cleanup deletes an event that was reset after it chose the key.
SPECIFICATION FairSpec
CONSTANTS
    a = a
    b = b
    Workers = {w1}
    Endpoints = {p1}
    Types = {a, b}
    TypeOf <- MCTypeOf
    KeyOf <- MCKeyOf
    Configs <- OnOff
    MaxEvents = 1
    MaxAttempts = 2
    BatchSize = 2
    CleanupBatchSize = 1
    MaxTasks = 1
PROPERTY CleanupKeepsPending
