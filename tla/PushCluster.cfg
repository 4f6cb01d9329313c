\* Two processes, every kind of fault, two messages under one key.
CONSTANTS
    Instance = {i1, i2}
    Msg = {m1, m2}
    Key = {k1}
    Delivery = {d1, d2, d3}
    Payloads <- EveryCourse
    WorkerConcurrency = 2
    PrefetchCount = 2
    MaxAttempts = 2
    Environments <- AnyFault
    None = None
SPECIFICATION Spec
SYMMETRY Symmetry
INVARIANTS
    TypeOK
    ExactlyOnePlace
    SentClaimsTrue
    PermitsReturned
PROPERTY ImplementsQueue
