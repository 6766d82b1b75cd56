SPECIFICATION FairSpec
CONSTANTS
    Cache <- AllFiles
    First = "mncache"
    Dependent = {"mnpayments"}
    MaxVersion = 2
    MaxFaults = 2
INVARIANTS
    DamageIsBounded
    CleanStopRestores
PROPERTIES
    DamagedFilesKept
    ComesUp
