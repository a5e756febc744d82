\* A native user shares to two browsers.
SPECIFICATION Spec
CONSTANTS
    b1 = b1
    b2 = b2
    n1 = n1
    c1 = c1
    c2 = c2
    s1 = s1
    s2 = s2
    None = None
    Gone = Gone
    Browsers <- BothBrowsers
    Natives <- OneNative
    Sharers <- NoOne
    Publishers <- OneNative
    Watchers <- NoOne
    Queried <- OneNative
    Channels <- TwoChannels
    Ids <- OneId
    MaxInbox = 2
    MaxRetry = 1
SYMMETRY CardSymmetry
CHECK_DEADLOCK FALSE
INVARIANT ChannelIsolation
INVARIANT RequestKept
INVARIANT CardsAgree
