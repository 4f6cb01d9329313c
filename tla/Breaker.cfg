\* Every deployment.
CONSTANTS
    c1 = c1
    c2 = c2
    Caller = {c1, c2}
    FailureThreshold = 2
    SuccessThreshold = 2
    TimeoutSeconds = 2
    MaxSkew = 1
    MaxCount = 2
    Environments <- Deployments
    None = None
SPECIFICATION FairSpec
INVARIANTS
    FailureCountExpires
PROPERTIES
    OpenLasts
    OpensOnConsecutiveFailures
    Recovers
