SPECIFICATION Spec
CONSTANTS
    None = None
    w1 = w1
    w2 = w2
    w3 = w3
    Requests <- MCRequests
    Orders <- MCOrders
    Species <- MCSpecies
    SpeciesOf <- MCSpeciesOf
    LineNo <- MCLineNo
    Contents <- MCContents
    ActiveContents <- MCContents
    Fingerprint <- MCFingerprint
    SuppliesValue <- MCContents
    Workbooks <- MCWorkbooks
    Snapshots <- MCSnapshots
    BookOf <- MCBookOf
    Instructions <- MCInstructions
    InstructionFor <- MCInstructionFor
    Refs <- MCRefs
    Codes <- MCCodes
    OutlierCode = "DNBP_OUTLIER"
    Severity <- MCSeverity
    Quote <- MCQuote
    Raises <- MCRaises
    InitialRef = "r1"
    MaxBegun = 5
    MaxPublications = 3
    MaxFills = 1
SYMMETRY MCSymmetry
INVARIANTS
    EveryPublicationIsCleared
CHECK_DEADLOCK FALSE
