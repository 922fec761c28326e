SPECIFICATION Spec
CONSTANTS
    Clients = {c1, c2}
    Setups = {e1}
    Classes = {p1}
    SetupOf <- MCSetupOf
    GlobalDsp = 1
    NativeImage = 1
    MaxSession = 3
    MaxFaults = 2
    None = None
SYMMETRY Symmetry
INVARIANTS
    HostsWithinCeiling
    MaintenanceExclusive
    KeeperKept
    OneKeeper
    NoOrphanLease
CHECK_DEADLOCK FALSE
