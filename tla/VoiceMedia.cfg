\* Two overlapping offers; commands and stops arrive while fewer than two updates are pending.
\* A session that has been left stops.
CONSTANTS
    o1 = o1
    o2 = o2
    None = None
    Offers <- TwoOffers
    Values <- AnyValue
    MaxPending = 2
SPECIFICATION Spec
SYMMETRY AnyOffer
CHECK_DEADLOCK FALSE
INVARIANTS
    TypeOK
    PeerOwned
    AnswerMatchesPeer
    SyncedTruthful
    AccompanimentAgrees
    LastRequestHonoured
