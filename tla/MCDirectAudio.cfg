SPECIFICATION Spec
CONSTANTS
    MaxEpoch = 2
    MaxTicket = 2
INVARIANTS
    SlotOwnership
    NoStaleReply
    NoLostWake
CHECK_DEADLOCK FALSE
