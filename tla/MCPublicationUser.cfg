SPECIFICATION Spec
CONSTANTS
    Process = {p, q}
    None = None
    Foreign = Foreign
    Alien = Alien
    MaxTransactions = 2
    MaxCrashes = 1
    MaxPowerFailures = 0
    MaxMeddling = 1
    MaxDamage = 0
    MaxSibling = 1
SYMMETRY Symmetry
INVARIANT SettledAgreement
PROPERTIES
    ActiveLinkStable
    NoLostUpdate
    ForeignKept
