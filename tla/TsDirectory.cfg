\* One session, one other client id and two identities that use it.
SPECIFICATION Spec
CONSTANTS
    i0 = i0
    i1 = i1
    u = u
    p = p
    q = q
    c1 = c1
    c2 = c2
    None = None
    Ids <- TheIds
    Me = i0
    People <- ThePeople
    Us = u
    Pictured <- OnePicture
    Channels <- TwoChannels
    MaxPending = 3
    MaxMoves = 1
SYMMETRY ChannelSymmetry
INVARIANT TypeOK
INVARIANT DirectoryAgrees
INVARIANT WhisperReachesChosen
INVARIANT AvatarsBelong
