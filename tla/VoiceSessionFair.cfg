\* Two browsers with identities of their own; the second one connects through
\* a relay tunnel, so its connect() has an awaited preparation.
CONSTANTS
    k1 = k1
    k2 = k2
    s1 = s1
    s2 = s2
    s3 = s3
    s4 = s4
    NoKey = NoKey
    NoOwner = NoOwner
    Sessions <- Two
    Keys = {k1, k2}
    KeyOf <- Distinct
    Prepared <- OnlyS2
    MaxActive = 2
    MaxMissed = 1
SPECIFICATION FairSpec
CHECK_DEADLOCK FALSE
INVARIANTS
    OrphansOnlyFromPrepare
PROPERTIES
    RecoveryEnds
    TeardownCompletes
    SilentBrowserRemoved
    ImplementsContract
