SPECIFICATION Spec
CONSTANTS
    MaxPositions = 2
    MaxPositionPct = 70
    StopLossPct = 5
    TakeProfitPct = 10
    MaxDrawdownPct = 25
    PortfolioFloor = 500
    HeartbeatSize = 7000
    MinTradeSize = 100
    MaxSlippage = 1
    MaxExposurePct = 90
    LongThreshold = 20
    Places = 1
    PhantomPrice = 100
    WaitTicks = 1
    MaxHold = 4
    Cooldown = 1
    EnvLive = FALSE
    CliLive = FALSE
    MaxCycles = 4
    MaxFaults = 1
    Outcome = {"filled"}
    InitialCash = {10000}
    Prices = {0, 100}
    Convictions = {12, 24}
    Token <- MCToken3
    Narratives <- MCDisjoint
    Regime <- MCTransition
INVARIANT ExposureBounded
INVARIANT BookAgreement
CHECK_DEADLOCK FALSE
