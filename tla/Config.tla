------------------------------- MODULE Config -------------------------------
(***************************************************************************)
(* The risk limits of src/config.py.  Money is in cents, a percentage is an *)
(* integer percent, a regime multiplier an integer number of tenths (6 for  *)
(* TRANSITION), a conviction the integer signal.py has.  MaxSlippage is the *)
(* number the code compares with: 0.01 in config.py, hence 1 in hundredths. *)
(* Most of these are read from the environment, so they are constants; the  *)
(* assumptions are what any sensible deployment satisfies.  portfolio.py    *)
(* has the stop-loss and take-profit percentages of its own, with the same  *)
(* values (lines 13 and 14); they are taken to be equal.                    *)
(***************************************************************************)
EXTENDS Integers

CONSTANTS
    MaxPositions,       \* MAX_POSITIONS
    MaxPositionPct,     \* MAX_POSITION_PCT
    StopLossPct,        \* STOP_LOSS_PCT
    TakeProfitPct,      \* TAKE_PROFIT_PCT
    MaxDrawdownPct,     \* MAX_DRAWDOWN_PCT
    PortfolioFloor,     \* PORTFOLIO_FLOOR_USD
    HeartbeatSize,      \* HEARTBEAT_SIZE_USD
    MinTradeSize,       \* MIN_TRADE_SIZE_USD
    MaxSlippage,        \* MAX_SLIPPAGE_PCT
    MaxExposurePct      \* MAX_EXPOSURE_RATIO of risk.exposure_check

Pct == 0 .. 100

ASSUME PctAssumption ==
    /\ MaxPositionPct \in Pct
    /\ StopLossPct \in Pct \ {0}
    /\ TakeProfitPct \in Nat \ {0}
    /\ MaxDrawdownPct \in Pct \ {0}
    /\ MaxExposurePct \in Pct

ASSUME SizeAssumption ==
    /\ MaxPositions \in Nat
    /\ PortfolioFloor \in Nat \ {0}
    /\ HeartbeatSize \in Nat
    /\ MinTradeSize \in Nat
    /\ MaxSlippage \in Nat
=============================================================================
