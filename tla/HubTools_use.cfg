CONSTANTS
    MaxSends = 2
    MaxTyped = 1
    Readers = {r}
    MaxRows = 2
    MaxLog = 2
    KeepLog = 1
    MaxFrames = 1
    Tries = 2
    MaxLines = 3
    MaxReads = 2
    Calls = {c1, c2}
    MaxTasks = 2
    MaxKids = 2
    BoardClaudes = {k1, k2}
    MaxCards = 1
    MaxCols = 2
    MaxEdits = 3
    MaxKills = 1
SYMMETRY Symmetry
SPECIFICATION HubToolsSpec
INVARIANTS TerminalsInv  WorkersInv BoardInv
 
CHECK_DEADLOCK FALSE
