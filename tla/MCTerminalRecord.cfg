SPECIFICATION Spec
CONSTANTS
    Width = 2
    MaxProgress = 4
    s1 = s1
    s2 = s2
    Statuses <- MCStatuses
SYMMETRY Symmetry
INVARIANTS
    CommittedIsWhole
    CommittedIsFirstFailure
    ReadIsCommitted
PROPERTIES
    CommittedKept
CHECK_DEADLOCK FALSE
