\* README.md says delivery is at least once.
CONSTANTS
    k1 = k1
    k2 = k2
    i1 = i1
    i2 = i2
    Request = {r1}
    Name = {k1, k2, i1, i2}
    MaxCopies = 3
    Environments <- IdAsKey
    None = None
SPECIFICATION FairSpec
PROPERTY AtLeastOnce
