\* Two devices; the gateway has up to three WebRTC replies on their way.
CONSTANTS
    headset = headset
    internal = internal
    Devices <- MCDevices
    None = None
    MaxReplies = 3

SPECIFICATION Spec
SYMMETRY MCSymmetry

INVARIANTS
    TypeOK
    NothingLeftBehind
    UplinkAgrees
    DeviceTruthful
