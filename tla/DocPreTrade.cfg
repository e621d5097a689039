SPECIFICATION Spec
CONSTANTS
    MaxPositions = 2
    MaxPositionPct = 10
    StopLossPct = 5
    TakeProfitPct = 10
    MaxDrawdownPct = 25
    PortfolioFloor = 500
    HeartbeatSize = 500
    MinTradeSize = 100
    MaxSlippage = 1
    MaxExposurePct = 90
    LongThreshold = 20
    Places = 1
    PhantomPrice = 100
    WaitTicks = 1
    MaxHold = 2
    Cooldown = 2
    EnvLive = TRUE
    CliLive = TRUE
    MaxCycles = 2
    MaxFaults = 0
    Outcome = {"filled"}
    InitialCash = {100000}
    Prices = {0, 90, 100}
    Convictions = {12, 24}
    Token <- MCToken
    Narratives <- MCNarratives
    Regime <- MCTransition
PROPERTY BuysAreApproved
CHECK_DEADLOCK FALSE
