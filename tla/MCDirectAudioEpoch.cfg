SPECIFICATION Spec
CONSTANTS
    MaxEpoch = 2
    MaxTicket = 1
INVARIANT EveryStartAccepted
CHECK_DEADLOCK FALSE
