------------------------------- MODULE Quoter -------------------------------
(***************************************************************************)
(* Quoter.estimate_slippage_single of src/quoter.py: the best answer of the *)
(* pools of two tokens, one per fee tier.  answer[fee] is what the pool of  *)
(* that fee pays out, or NoAnswer when its call raises, reverts or is late; *)
(* a price the map does not have is 0.  Slippage is a fraction of the ideal *)
(* output, amount * from / to, and is kept as numerator and denominator.    *)
(***************************************************************************)
EXTENDS Arith, Sequences

PCS_FEE_TIERS == <<100, 500, 3000, 10000>>
NoAnswer == -1

Whole == [lost |-> 1, of |-> 1]
Refused(status) == [out |-> 0, fee |-> 0, slippage |-> Whole, status |-> status]

Priced(from, to) == from > 0 /\ to > 0

Slippage(amount, from, to, out) ==
    [lost |-> Greater(0, amount * from - out * to), of |-> amount * from]

(* mutant: the last of equal pools, which has the highest fee *)
BetterOrEqual(out, best) == out >= best.out

Better(out, best) == out > best.out

(* mutant: a tier that fails ends the search with nothing *)
ConsideredReset(answer, amount, from, to, best, fee) ==
    IF answer[fee] = NoAnswer THEN Refused("no_liquidity")
    ELSE IF Better(answer[fee], best)
         THEN [out |-> answer[fee], fee |-> fee,
               slippage |-> Slippage(amount, from, to, answer[fee]), status |-> "ok"]
         ELSE best

(* one pass through the loop over the tiers *)
Considered(answer, amount, from, to, best, fee) ==
    IF Better(answer[fee], best)
    THEN [out |-> answer[fee], fee |-> fee,
          slippage |-> IF Priced(from, to) THEN Slippage(amount, from, to, answer[fee]) ELSE Whole,
          status |-> IF Priced(from, to) THEN "ok" ELSE "no_price_data"]
    ELSE best

BestAnswer(answer, amount, from, to) ==
    LET best[i \in 0 .. Len(PCS_FEE_TIERS)] ==
            IF i = 0 THEN Refused("no_liquidity")
            ELSE Considered(answer, amount, from, to, best[i - 1], PCS_FEE_TIERS[i])
    IN  best[Len(PCS_FEE_TIERS)]

(* The log line multiplies the slippage by 100, so a best answer without    *)
(* price data raises instead of being returned.                             *)
Estimate(connected, addressed, answer, amount, from, to) ==
    LET best == BestAnswer(answer, amount, from, to)
    IN  IF ~connected THEN Refused("rpc_error")
        ELSE IF ~addressed THEN Refused("missing_addresses")
        ELSE IF amount = 0 THEN Refused("zero_input")
        ELSE IF best.status = "no_price_data" THEN Refused("raises")
        ELSE best
=============================================================================
