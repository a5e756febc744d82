\* Two overlapping offers; commands and stops arrive while fewer than two updates are pending.
\* A session that has been left stops.
CONSTANTS
    o1 = o1
    o2 = o2
    None = None
    Offers <- TwoOffers
    Values <- Unmuted
    MaxPending = 2
SPECIFICATION FairSpec
CHECK_DEADLOCK FALSE
PROPERTIES
    OffersEnd
    LeaveReleasesMedia
