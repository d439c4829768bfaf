SPECIFICATION DeliverySpec
CONSTANTS
    Listener = {l1, l2}
    Claude = {c1, c2}
    Arrivals = {m1}
    MaxPurges = 1
    NoFile = NoFile
    a1 = a1
    a2 = a2
    b1 = b1
    Instance = {a1, a2, b1}
    Home <- TwoProjects
    Restored = {a1, b1}
    MaxCalls <- OneSender
    MaxChanges = 3
    None = None
    Calls = {c1}
    MaxTasks = 2
    MaxKids = 2
    Words = {done, ask}
    MaxTurns = 2
    Rows = {3}
    Rows0 = 3
    RingCap = 1
    MaxUnacked = 2
    MaxBacklog = 2
    AckEvery = 2
    MaxItems = 3
    MaxProcs = 1
    MaxLinks = 2
    MaxPanes = 1
INVARIANTS ListenerInv 
PROPERTIES ListenerLive KeepsPromise MailLive  MirrorCatchesUp
CHECK_DEADLOCK FALSE
