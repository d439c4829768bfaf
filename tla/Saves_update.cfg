CONSTANTS
 SaveRows = {1, 2}
 MaxTalks = 3
 MaxFacts = 3
 MaxDocs = 2
 MaxJobs = 3
 MaxReopens = 0
SPECIFICATION SavesSpec
CHECK_DEADLOCK FALSE
PROPERTY UpdateLosesNothing
