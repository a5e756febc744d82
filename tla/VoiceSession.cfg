\* Four browsers, two of them with the same remembered identity, two slots, on a
\* server reached by its public name: connect() has no awaited preparation.
CONSTANTS
    k1 = k1
    k2 = k2
    s1 = s1
    s2 = s2
    s3 = s3
    s4 = s4
    NoKey = NoKey
    NoOwner = NoOwner
    Sessions <- Browsers
    Keys = {k1}
    KeyOf <- Contended
    Prepared <- NoSessions
    MaxActive = 2
    MaxMissed = 2
SPECIFICATION Spec
SYMMETRY Contenders
CHECK_DEADLOCK FALSE
INVARIANTS
    TypeOK
    NeverParked
    CommandGate
    BrowserInformed
    LeaseMatchesSession
    CapacityRespected
    IdentityUsedOnce
PROPERTIES
    WindowNotRestarted
    TeardownIsOneWay
