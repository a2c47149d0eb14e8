CONSTANTS
    Installations = {m1, m2, m3}
    Workers = {w1, w2}
    MaxReconciling = 2
    CacheLag = 0
    MaxGeneration = 2
    NoInstallation = NoInstallation
SYMMETRY Symmetry
SPECIFICATION Spec
INVARIANTS TypeOK SlotAccounting LimitRespected
PROPERTIES StableSeesSpec ImplementsAdmission
