SPECIFICATION Spec
CONSTANTS
    Params = {p1, p2}
    Modes <- MCModes
    PacketMax = 1
    MaxStamps = 3
    MaxPublished = 5
    MaxEpochs = 2
    MaxSaves = 1
    MaxFaults = 1
SYMMETRY Symmetry
INVARIANTS
    SaveCovers
    UncapturedDisclosed
    NoOwnFault
    StartSeesRequests
    PendingHasSync
PROPERTY NoStaleEdit
CHECK_DEADLOCK FALSE
