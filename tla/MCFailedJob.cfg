CONSTANTS
    Installations = {m1}
    Images = {i1, i2}
    CacheLag = 0
    None = None
SPECIFICATION FairSpec
PROPERTIES FailedJobCleanedUp
