SPECIFICATION FairSpec
CONSTANTS
    Clients = {c1, c2}
    Setups = {e1}
    Classes = {p1}
    SetupOf <- MCSetupOf
    GlobalDsp = 1
    NativeImage = 1
    MaxSession = 2
    MaxFaults = 2
    None = None
PROPERTIES
    AdmissionDecides
    ExitSettles
CHECK_DEADLOCK FALSE
