CONSTANTS
    Installations = {m1}
    Images = {i1, i2, i3}
    CacheLag = 1
    None = None
SPECIFICATION FairSpec
INVARIANTS TypeOK
PROPERTIES VerifiedUpgrade UpgradeCompletes
