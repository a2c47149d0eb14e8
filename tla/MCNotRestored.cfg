CONSTANTS
    Restores = {r1}
    MaxReplicas = 2
    CacheLag = 0
    None = None
SPECIFICATION Spec
INVARIANTS FinishedMeansRestored
