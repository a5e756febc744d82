\* A device is changed while the session reconnects.
CONSTANTS
    headset = headset
    internal = internal
    Devices <- MCDevices
    None = None
    MaxReplies = 3

SPECIFICATION Spec

INVARIANTS
    ReplacementRestartsRtc
