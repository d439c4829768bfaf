CONSTANTS
    Instance = {c1, c2}
    Codex = {c2}
    c1 = c1
    c2 = c2
    NFiles = 1
    DirFails = TRUE
    Absent = Absent
    Blank = Blank
    Claudes = {k1}
    MaxRounds = 2
    MaxLaunches = 1
    MaxWork = 1
SPECIFICATION WaitingSpec
INVARIANTS AwarenessInv 
PROPERTIES LocksLive CheckpointLive
CHECK_DEADLOCK FALSE
