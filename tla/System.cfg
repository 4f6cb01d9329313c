\* Clients in turn or at once, with and without faults.
CONSTANTS
    k1 = k1
    k2 = k2
    i1 = i1
    i2 = i2
    Request = {r1, r2}
    Name = {k1, k2, i1, i2}
    MaxCopies = 3
    Environments <- Environs
    None = None
SPECIFICATION FairSpec
INVARIANTS
    OneEmissionPerKey
    ErrorMeansUnpublished
    StatusTruthful
    OnePushPerKey
PROPERTY AnsweredIsHandled
