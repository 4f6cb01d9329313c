\* The breaker as sendEmail uses it, and as its own code expects to be used.
CONSTANTS
    p1 = p1
    p2 = p2
    Process = {p1, p2}
    Call = {c1, c2}
    FailureThreshold = 2
    SuccessThreshold = 2
    Timeout = 1
    RecordTtl = 2
    Environments <- Environs
    None = None
SPECIFICATION FairSpec
INVARIANT OpensWhenThrown
PROPERTY Recovers
