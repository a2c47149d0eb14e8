SPECIFICATION Spec
CONSTANTS
    t1 = t1
    t2 = t2
    Templates = {t1, t2}
    Specs <- MCSpecs
    FirstSpecs <- MCFirstSpecs
    Replicas = 1
    CacheLag = 1
    MaxDisturbances = 2
    None = None
INVARIANT
    TypeOK
PROPERTIES
    RolloutCounted
    Converges
CHECK_DEADLOCK FALSE
