SPECIFICATION Spec
CONSTANTS
    MaxPositions = 2
    MaxPositionPct = 10
    StopLossPct = 5
    TakeProfitPct = 10
    MaxDrawdownPct = 25
    PortfolioFloor = 5
    HeartbeatSize = 5
    MinTradeSize = 1
    MaxSlippage = 1
    MaxExposurePct = 90
    Amounts = {0, 1, 3, 5, 20, 24, 25, 26, 40, 49, 50, 51, 75, 100, 133, 134, 400, 1000}
    Parts = {0, 49, 50, 99}
    Ranks = {1, 10, 11, 25, 26, 39, 40}
    Volatilities = {60, 61, 100, 101}
    Factors = {0, 12, 24, 75, 90}
    Baskets = {1, 2, 3, 5}
    EntryPrices <- MCPrices
    MarketPrices <- MCPrices
    Cap = 75
    Mult = 6
    Places = 10
    Names = {"AI Tokens", "DePIN", "Meme", "other"}
    Figures <- MCFigures
    Outputs = {0, 1, 2, 3}
INVARIANT BreakerMonotone
INVARIANT SizeWithinCap
INVARIANT SplitWithinSize
INVARIANT SizeAffordable
INVARIANT ExitRulesAgree
INVARIANT TrendIsFaded
INVARIANT RiskNeverRewarded
INVARIANT RegimesOrdered
INVARIANT QuoteIsBest
INVARIANT SilentPoolsIgnored
CHECK_DEADLOCK FALSE
