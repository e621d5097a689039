SPECIFICATION FairSpec
CONSTANTS
    Changes <- MCChanges
    Error = Error
    Retries = 1
    Ttl = 2
    MaxDay = 3
    Baskets <- MCBaskets
INVARIANT MarketTypeOK
PROPERTY ServedInTime
PROPERTY BestIsBought
PROPERTY OutagesDecay
PROPERTY ScanReturns
CHECK_DEADLOCK FALSE
