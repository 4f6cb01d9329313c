\* One process under each environment; messages that are delivered, lack a token or panic.
CONSTANTS
    Instance = {i1}
    Msg = {m1, m2}
    Key = {k1}
    Delivery = {d1, d2}
    Payloads <- SomeLeaveProcessing
    WorkerConcurrency = 2
    PrefetchCount = 2
    MaxAttempts = 2
    Environments <- Environs
    None = None
SPECIFICATION FairSpec
INVARIANTS
    AtMostOncePerKey
    AckedMeansDelivered
PROPERTIES
    SentIsFinal
    EverySettled
