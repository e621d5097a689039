SPECIFICATION Spec
CONSTANTS
    Changes <- MCChanges
    Error = Error
    Retries = 1
    Ttl = 2
    MaxDay = 3
    Baskets <- MCBaskets
PROPERTY DriftIsPositive
CHECK_DEADLOCK FALSE
