SPECIFICATION FairSpec
CONSTANTS
    bea = bea
    Buyers <- MCBuyers
    Prices <- MCPrices
    Limit = 1
    MaxPublications = 2
    MaxEndpoints = 2
    MaxAcks = 2
INVARIANTS
    TypeOK
    AlertsKeepUp
    SubscriptionsSurvive
    OneRowUnlessTwice
PROPERTY
    EventuallyShown
CHECK_DEADLOCK FALSE
