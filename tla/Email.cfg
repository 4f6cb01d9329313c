\* Two processes under each environment, with every format of message.
CONSTANTS
    m1 = m1
    m2 = m2
    Instance = {i1, i2}
    Msg = {m1, m2}
    Id = {r1, r2}
    r1 = r1
    r2 = r2
    Delivery = {1, 2}
    PrefetchCount = 2
    Contents <- SomeMails
    Environments <- Environs
    None = None
SPECIFICATION FairSpec
INVARIANTS
    AtMostOneMail
    MetricsBalance
PROPERTIES
    EverySettled
    ImplementsQueue
