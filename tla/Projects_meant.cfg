SPECIFICATION ProjectsSpec
CONSTANTS
    Dirs <- DirsMC
    Lower <- LowerMC
    Labels = {"deployer"}
    MaxOpens = 2
    MaxRows = 2
    MaxSends = 1
    SaveRows = {1, 2}
    MaxTalks = 2
    MaxFacts = 2
    MaxDocs = 2
    MaxJobs = 2
    MaxReopens = 1
    MaxDialogs = 2
    MaxAsked = 2
    MaxCuts = 1
    Devices = {1}
    Paired0 = {}
    MaxId = 3
    MaxEvents = 2
    MaxRestarts = 1
    MaxLinkAsks = 1
INVARIANTS AddressesInv SavesInv  
PROPERTIES LeaseIsKept
CHECK_DEADLOCK FALSE
