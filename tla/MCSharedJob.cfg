CONSTANTS
    Installations = {m1, m2}
    Images = {i1, i2}
    CacheLag = 0
    None = None
SPECIFICATION Spec
PROPERTIES VerifiedUpgrade
