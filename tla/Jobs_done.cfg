SPECIFICATION JobsSpec
CONSTANTS
    MaxMail = 2
    MaxWakes = 1
    Picked = {1}
    Home <- HomeMC
    MaxAsks = 2
    MaxGone = 1
    MaxSummaries = 2
    MaxOrders = 2
    MaxDrops = 1
    NamedRows = {r1}
    RowNames = {"a", "b"}
    MaxRenames = 2
    MaxCalls = 2
    MaxNameRuns = 1
    PhoneClaudes = {p1, p2}
    Silent = {}
    MaxNoteTurns = 3
    MaxBreaks = 1
    MaxSwitches = 1
    Messages = {"a", "b"}
    MaxLines = 2
    History = 1
    MaxChatMoves = 1
    MaxChats = 1
    MaxRequests = 3
    MaxMoves = 1
    Devices = {1}
    Paired0 = {}
    MaxId = 4
    MaxEvents = 1
    MaxRestarts = 1
    MaxLinkAsks = 1
INVARIANTS WakeInv BroadcastInv HostUpdateInv NamesInv NotesInv ChatInv ExplainInv
PROPERTIES AgentsLive PanelsLive
CHECK_DEADLOCK FALSE
