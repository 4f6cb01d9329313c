\* README.MD says failed mails are retried.
CONSTANTS
    m1 = m1
    m2 = m2
    Instance = {i1}
    Msg = {m1}
    Id = {r1, r2}
    r1 = r1
    r2 = r2
    Delivery = {1}
    PrefetchCount = 2
    Contents <- OneMail
    Environments <- NoFault
    None = None
SPECIFICATION Spec
INVARIANT AckedWasSent
