SPECIFICATION Spec
CONSTANTS
    None = None
    r1 = r1
    r2 = r2
    Contracts = {"c1", "c2"}
    Species = {"SHEEP", "GOAT"}
    Customers = {"Acme"}
    Incoterms = {"CIF", "FAS", "FOB"}
    KnownIncoterms = {"CIF", "FAS"}
    Precision = 10
    TableKeys = {"pack", "skin"}
    Files <- MCFiles
    ContentOf <- MCContentOf
    SmallBooks <- MCSmallBooks
    TitleScanRows = 2
    MaxHeaderScanRows = 5
    LoadedScanRows = 2
    MinHeaderMatches = 1
    Requests <- MCRequests
    MaxUploads = 3
    MaxCommits = 3
    MaxReviews = 1
    Buyers = {"ann", "bob"}
    Today = 10
    Purchases <- MCPurchases
    Instructions <- MCInstructions
    FillsThereAre <- MCFills
    Published <- MCPublished
    Sightings <- MCSightings
    SightingOf <- MCSightingOf
    PatchesOf <- MCPatchesOf
    MaxActivity = 6
SYMMETRY MCSymmetry
INVARIANTS
    TypeOK
    NothingDisappears
    FiguresAgree
CHECK_DEADLOCK FALSE
