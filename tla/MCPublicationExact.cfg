SPECIFICATION Spec
CONSTANTS
    Process = {p}
    None = None
    Foreign = Foreign
    Alien = Alien
    MaxTransactions = 3
    MaxCrashes = 1
    MaxPowerFailures = 0
    MaxMeddling = 0
    MaxDamage = 0
    MaxSibling = 0
INVARIANT ExactUnpublish
