SPECIFICATION Spec
CONSTANTS
    Process = {p}
    None = None
    Foreign = Foreign
    Alien = Alien
    MaxTransactions = 1
    MaxCrashes = 1
    MaxPowerFailures = 1
    MaxMeddling = 0
    MaxDamage = 0
    MaxSibling = 0
INVARIANT PublicationDurable
