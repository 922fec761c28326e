SPECIFICATION LiveSpec
CONSTANTS
    Process = {p}
    None = None
    Foreign = Foreign
    Alien = Alien
    MaxTransactions = 2
    MaxCrashes = 1
    MaxPowerFailures = 2
    MaxMeddling = 0
    MaxDamage = 1
    MaxSibling = 0
INVARIANTS
    SettledAgreement
    RecoveryDecides
    ExactRollback
PROPERTY RecoveryEnds
