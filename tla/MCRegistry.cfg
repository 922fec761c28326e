SPECIFICATION FairSpec
CONSTANTS
    Threads = {t1, t2}
    Capacity = 2
    SerialLimit = 2
INVARIANTS
    TypeOK
    NoUseAfterFree
    ExclusiveAccess
    NoLeak
    StaleHandlesStayDead
PROPERTY CallsReturn
