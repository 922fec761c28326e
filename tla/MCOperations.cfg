SPECIFICATION Spec
CONSTANTS
    MaxOps = 2
    MaxFaults = 2
    Kinds = {"install", "uninstall", "scan", "stop", "close", "recover"}
    Startup = Startup
    Gate = Gate
    None = None
INVARIANTS SetupExclusive FinishedIsDead NothingStranded
CHECK_DEADLOCK FALSE
