\* A browser shares to another browser and to a native viewer.
SPECIFICATION Spec
CONSTANTS
    b1 = b1
    b2 = b2
    n1 = n1
    c1 = c1
    c2 = c2
    s1 = s1
    s2 = s2
    None = None
    Gone = Gone
    Browsers <- BothBrowsers
    Natives <- OneNative
    Sharers <- OneBrowser
    Publishers <- NoOne
    Watchers <- OneNative
    Queried <- NoOne
    Channels <- TwoChannels
    Ids <- TwoIds
    MaxInbox = 3
    MaxRetry = 1
SYMMETRY ShareSymmetry
CHECK_DEADLOCK FALSE
INVARIANT TypeOK
INVARIANT ChannelIsolation
INVARIANT Told
INVARIANT PublicationsAccounted
INVARIANT AudienceAgrees
