SPECIFICATION Spec
CONSTANTS
    None = None
    Orders <- MCOrders
    Species <- MCSpecies
    SpeciesOf <- MCSpeciesOf
    Contents <- MCContents
    ActiveContents <- MCActiveContents
    Fingerprint <- MCFingerprint
    SuppliesValue <- MCSuppliesValue
    Workbooks <- MCWorkbooks
    Refs <- MCRefs
    Codes <- MCCodes
    OutlierCode = "DNBP_OUTLIER"
    Severity <- MCSeverity
    Quote <- MCQuote
    Raises <- MCRaises
    InitialRef = "r1"
    MaxSnapshots = 2
    MaxPublications = 2
    MaxInstructions = 1
    MaxRequests = 1
    QueriedOrders <- MCQueriedOrders
INVARIANTS
    TypeOK
    PublishedPricesAreOneRun
    AcknowledgementsAreEarned
    SupersessionIsAChain
    SnapshotStatusTruth
    InstructionsOwnTheirPublication
PROPERTIES
    KeepsPriceBoard
CHECK_DEADLOCK FALSE
