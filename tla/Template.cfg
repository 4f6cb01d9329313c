\* Requests that race, fail or come one at a time.
CONSTANTS
    Request = {1, 2, 3, 4}
    Var = {a}
    Ops <- AllOps
    Environments <- Loads
    None = None
SPECIFICATION FairSpec
INVARIANTS
    TypeOK
    NoVersionGap
    CacheTruthful
    ExactVersionServed
    RenderReady
PROPERTIES
    LatestServed
    StalenessEnds
