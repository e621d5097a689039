----------------------------- MODULE RiskGuard -----------------------------
(***************************************************************************)
(* src/risk.py: the guards as predicates over the figures they are given.   *)
(* Only circuit_breaker reads anything itself (the largest recorded peak);  *)
(* here that figure is an argument.  Ratios are compared by cross           *)
(* multiplication, so nothing is rounded that the code does not round.      *)
(***************************************************************************)
EXTENDS Config, Arith

(* mutant: any distance from the peak counts as a drawdown *)
CircuitBreakerAbs(peak, value) ==
    peak > 0 => Greater(value - peak, peak - value) * 100 < MaxDrawdownPct * peak

(* circuit_breaker: drawdown of value below peak, as check_drawdown sees it *)
CircuitBreakerOk(peak, value) ==
    peak > 0 => Greater(0, peak - value) * 100 < MaxDrawdownPct * peak

(* exposure_check: nothing to measure against means nothing to refuse *)
ExposureOk(exposure, total) ==
    total > 0 => exposure * 100 <= MaxExposurePct * total

(* check_portfolio_floor / floor_guard *)
AboveFloor(total) == total >= PortfolioFloor

(* pre_trade_check: the "approved" entry of its dict *)
PreTradeApproved(drawdownPct, total, slippage, heldCount) ==
    /\ drawdownPct < MaxDrawdownPct
    /\ AboveFloor(total)
    /\ heldCount < MaxPositions
    /\ slippage <= MaxSlippage

(* mutant: the heartbeat minimum regardless of the cash at hand *)
PositionSizeUnfunded(cash, value) ==
    LET size == Lesser(value * MaxPositionPct, 100 * cash)
    IN  RoundDiv(IF value >= 500 * HeartbeatSize
                 THEN Greater(size, 10000 * HeartbeatSize)
                 ELSE size, 10000)

(* position_size, of cash and value in hundredths of a cent, for floats are *)
(* not whole cents; size is in ten-thousandths of a cent, so that only the  *)
(* result is rounded, to whole cents                                        *)
PositionSize(cash, value) ==
    LET size == Lesser(value * MaxPositionPct, 100 * cash)
    IN  RoundDiv(IF cash >= 100 * HeartbeatSize /\ value >= 500 * HeartbeatSize
                 THEN Greater(size, 10000 * HeartbeatSize)
                 ELSE size, 10000)

(* check_exits, one position: loss of price against entry beyond the stop *)
ExitTriggered(entry, price) ==
    price > 0 /\ entry > 0 /\ (price - entry) * 100 <= -(StopLossPct * entry)

(* check_exits: every position under a global drawdown, else the losers *)
CheckExits(held, entry, price, drawdownPct) ==
    IF drawdownPct >= MaxDrawdownPct
    THEN held
    ELSE {t \in held : ExitTriggered(entry[t], price[t])}
=============================================================================
