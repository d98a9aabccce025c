\* ModelLoad: one model, defined, changed and destroyed by scripts.
SPECIFICATION Spec
CONSTANTS
    Models = {m1}
    Values = {0, 1}
    Attributes = {"lights"}
    Lights = {"lights"}
    Inis <- InisDef
    Found <- FoundDef
    Faults <- FaultsDef
    None = None
    NoIni = NoIni
    Reloading = FALSE
    Restaging = FALSE
    Unreliable = {"dff"}
    RpcsOvertake = TRUE
    Hurried = FALSE
    EarlyRetries = FALSE
    MaxCalls = 2
    MaxWire = 2
    MaxJobs = 2
    MaxSessions = 1
    MaxRestarts = 1
    MaxFailures = 1
INVARIANTS ConfigAgrees FinalizedOnce DefinedIsLoaded SoundsAreThere UsedIsKept
CHECK_DEADLOCK FALSE
