\* One browser shares, both watch: the other's share and a native user's.
SPECIFICATION Spec
CONSTANTS
    b1 = b1
    b2 = b2
    n1 = n1
    None = None
    Browsers <- BothBrowsers
    Sharers <- OneBrowser
    Viewers <- BothBrowsers
    Natives <- OneNative
    Requests <- TwoRequests
    MaxWire = 2
CHECK_DEADLOCK FALSE
INVARIANT SharesAgree
INVARIANT ViewersAgree
