SPECIFICATION FairSpec
CONSTANTS
    Values = {a, b}
    NoValue = none
    Capacity = 3
    MaxIndex = 7
INVARIANTS
    RingSafety
PROPERTIES
    RefinesFifo
    NoWorkStranded
