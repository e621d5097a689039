------------------------------- MODULE Sizing -------------------------------
(***************************************************************************)
(* The arithmetic of src/decision.py (_size_position, _split_across_basket) *)
(* and src/portfolio.py (_compute_stop_take).                               *)
(***************************************************************************)
EXTENDS RiskGuard

(* MAX_POSITION_PCT of the cash, and that share scaled by regime and        *)
(* conviction, each to the cent.  The code rounds once, after taking the    *)
(* larger and the smaller of them; rounding is monotone, so it is the same. *)
(* mult is in tenths.                                                       *)
Ceiling(cash) == RoundDiv(cash * MaxPositionPct, 100)
Scaled(cash, mult, conviction, cap) ==
    LET most == Greater(cap, 1)
    IN  RoundDiv(cash * MaxPositionPct * mult * Lesser(conviction, most),
                 1000 * most)

(* mutant: the cap applied before the minimum *)
SizePositionCapFirst(cash, mult, conviction, cap) ==
    Greater(Lesser(Scaled(cash, mult, conviction, cap), Ceiling(cash)), HeartbeatSize)

(* _size_position: raised to the heartbeat size, then capped again *)
SizePosition(cash, mult, conviction, cap) ==
    Lesser(Greater(Scaled(cash, mult, conviction, cap), HeartbeatSize), Ceiling(cash))

(* mutant: the whole amount for every token *)
PerTokenWhole(amount, n) == amount

(* _split_across_basket: what one of the n tokens of a basket is given *)
PerToken(amount, n) == RoundDiv(amount, n)

(* mutant: truncated instead of rounded *)
ComputeStopTruncated(entry, places) ==
    places * ((entry * (100 - StopLossPct)) \div (100 * places))

(* _compute_stop_take with prices counted in fractions of the sixth decimal *)
(* place: Places is how many of them one unit of that place holds           *)
ComputeStop(entry, places) ==
    places * RoundDiv(entry * (100 - StopLossPct), 100 * places)

ComputeTake(entry, places) ==
    places * RoundDiv(entry * (100 + TakeProfitPct), 100 * places)

(* Agent.run_cycle, Phase 4: is the row's stop or take price reached? *)
StopReached(stop, price) == price > 0 /\ stop > 0 /\ price <= stop
TakeReached(take, price) == price > 0 /\ take > 0 /\ price >= take
=============================================================================
