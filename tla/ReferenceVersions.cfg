SPECIFICATION Spec
CONSTANTS
    None = None
    ada = ada
    ben = ben
    Unit = 10
    Book <- MCBook
    Tables <- MCTables
    Averages <- MCAverages
    Keys <- MCKeys
    Seed <- MCSeed
    Asked <- MCAsked
    Admins <- MCAdmins
    MaxPreviews = 2
SYMMETRY MCSymmetry
INVARIANTS
    TypeOK
    OneActiveVersion
    ImpactIsWhatHappens
    PricedOrBlocked
CHECK_DEADLOCK FALSE
