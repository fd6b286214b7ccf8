\* Two workers race over one event owed to two endpoints.
SPECIFICATION Spec
CONSTANTS
    a = a
    b = b
    Workers = {w1, w2}
    Endpoints = {p1, p2}
    Types = {a, b}
    TypeOf <- MCTypeOf
    KeyOf <- MCKeyOf
    Configs <- OnOff
    MaxEvents = 1
    MaxAttempts = 2
    BatchSize = 2
    CleanupBatchSize = 1
    MaxTasks = 1
SYMMETRY WorkerSymmetry
INVARIANTS TypeOK RowConsistent AtLeastOnce AttemptsAreFailures NoSilentLoss
PROPERTY ImplementsDelivery
