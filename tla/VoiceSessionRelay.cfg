\* Two browsers that present the same remembered identity one after the other
\* through a relay tunnel.
CONSTANTS
    k1 = k1
    k2 = k2
    s1 = s1
    s2 = s2
    s3 = s3
    s4 = s4
    NoKey = NoKey
    NoOwner = NoOwner
    Sessions <- Two
    Keys = {k1}
    KeyOf <- Same
    Prepared <- Two
    MaxActive = 2
    MaxMissed = 2
SPECIFICATION Spec
CHECK_DEADLOCK FALSE
INVARIANTS
    IdentityUsedOnce
