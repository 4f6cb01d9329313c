\* Concurrent health checks, failing resources and a broken broker link.
CONSTANTS
    q1 = q1
    q2 = q2
    Request = {q1, q2}
    FailureThreshold = 2
    SuccessThreshold = 2
    Timeout = 1
    Ttl = 2
    Environments <- Environs
    None = None
SPECIFICATION FairSpec
INVARIANTS
    TripsOnRealFailures
    OneAttempt
PROPERTIES
    HealthRecovers
    PublisherRecovers
