\* Two offers and the commands given while one of them is handled.
CONSTANTS
    o1 = o1
    o2 = o2
    None = None
    Offers <- TwoOffers
    Values <- AnyValue
    MaxPending = 2
SPECIFICATION Spec
CHECK_DEADLOCK FALSE
INVARIANTS
    MuteReachesPeer
