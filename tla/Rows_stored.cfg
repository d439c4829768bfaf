SPECIFICATION RowsSpec
CONSTANTS
    MaxId = 2
    MaxLaunches = 2
    MaxEvents = 3
    c1 = c1
    c2 = c2
    d1 = d1
    ClaudeConv <- Claudes
    CodexConv <- Codexes
    Shells = TRUE
    Empty = Empty
PROPERTIES WorkedIsStored
SYMMETRY Uuids
CHECK_DEADLOCK FALSE
