\* README.MD: the circuit stays open for the timeout.
CONSTANTS
    c1 = c1
    c2 = c2
    Caller = {c1, c2}
    FailureThreshold = 2
    SuccessThreshold = 2
    TimeoutSeconds = 2
    MaxSkew = 1
    MaxCount = 3
    Environments <- Together
    None = None
SPECIFICATION FairSpec
PROPERTY OpenEnds
