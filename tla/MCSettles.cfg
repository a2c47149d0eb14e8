CONSTANTS
    Installations = {m1, m2}
    Workers = {w1}
    MaxReconciling = 1
    CacheLag = 1
    MaxGeneration = 2
    NoInstallation = NoInstallation
SPECIFICATION FairSpec
PROPERTIES EventuallySettled StableSeesSpec
