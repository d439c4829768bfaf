SPECIFICATION SessionsSpec
CONSTANTS
    Sizes = {2, 3}
    Size0 = 3
    Cap = 2
    MaxBytes = 3
    MaxApps = 2
    MaxAsks = 2
    MaxSpawns = 2
    MaxLink = 2
    Rows = {2, 3}
    Rows0 = 3
    RingCap = 1
    MaxUnacked = 2
    MaxBacklog = 2
    AckEvery = 2
    MaxItems = 4
    MaxProcs = 2
    MaxLinks = 2
    MaxPanes = 1
    Words = {done, ask}
    MaxTurns = 3
INVARIANTS  MirrorInv PeerInv
CHECK_DEADLOCK FALSE
