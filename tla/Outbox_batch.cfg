\* Two workers and the cleanup share batches of two events of two types, one of
\* which the endpoint subscribes to.
SPECIFICATION Spec
CONSTANTS
    a = a
    b = b
    Workers = {w1, w2}
    Endpoints = {p1}
    Types = {a, b}
    TypeOf <- MCTypeOf
    KeyOf <- MCKeyOf
    Configs <- OnlyA
    MaxEvents = 2
    MaxAttempts = 2
    BatchSize = 2
    CleanupBatchSize = 1
    MaxTasks = 1
SYMMETRY WorkerSymmetry
INVARIANT IInv
PROPERTY ImplementsDelivery
