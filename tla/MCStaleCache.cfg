CONSTANTS
    Installations = {m1, m2, m3}
    Workers = {w1, w2}
    MaxReconciling = 2
    CacheLag = 1
    MaxGeneration = 2
    NoInstallation = NoInstallation
SYMMETRY Symmetry
SPECIFICATION Spec
INVARIANTS LimitRespected
