CONSTANTS
    Restores = {r1}
    MaxReplicas = 1
    CacheLag = 1
    None = None
SPECIFICATION FairSpec
INVARIANTS TypeOK DownWhileRestoring
PROPERTIES DatabaseComesBack
