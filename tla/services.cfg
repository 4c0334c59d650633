\* All instances.
CONSTANTS
    Parts = {"agent", "asked", "wsl2", "macos", "overlay"}
    Changes = {"h1", "h2"}  MaxAgentRuns = 3  Refused = TRUE  DiskFails = TRUE  Factory = "factory"
    Names = {"n1", "n2"}  Asks = {}  Overrides = {}  MaxSetups = 2  MayBreak = TRUE  NoName = "none"
    MaxMacSetups = 3
    MaxAgents = 3  Console = FALSE  WritesFail = TRUE
SPECIFICATION ServicesSpec
INVARIANTS TypesOK StatusIsOneSetup OwnFiles StopEndsOverlay
PROPERTIES AgentsInTurn SetupEnds ProgramEnds
CHECK_DEADLOCK FALSE
