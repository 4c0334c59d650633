\* The console's agent alone; the scheduler accepts it and the disk takes the settings.
CONSTANTS
    Parts = {"agent"}
    Changes = {"h1"}  MaxAgentRuns = 2  Refused = FALSE  DiskFails = FALSE  Factory = "factory"
    Names = {"n1", "n2"}  Asks = {}  Overrides = {}  MaxSetups = 2  MayBreak = TRUE  NoName = "none"
    MaxMacSetups = 3
    MaxAgents = 3  Console = FALSE  WritesFail = TRUE
SPECIFICATION ServicesSpec
PROPERTIES ChangeTakesEffect
CHECK_DEADLOCK FALSE
