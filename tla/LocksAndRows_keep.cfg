CONSTANTS
    Instance = {c1, c2}
    Codex = {c1, c2}
    NFiles = 2
    DirFails = TRUE
    Absent = Absent
    Blank = Blank
    MaxId = 2
    MaxLaunches = 2
    MaxEvents = 3
    k1 = k1
    k2 = k2
    d1 = d1
    ClaudeConv <- ConvClaudes
    CodexConv <- ConvCodexes
    Shells = TRUE
    Empty = Empty
SPECIFICATION LocksAndRowsSpec
INVARIANTS  RowsInv
PROPERTIES AllOrNoneNewlyHeld StoreIsKept
SYMMETRY Symmetry
CHECK_DEADLOCK FALSE
