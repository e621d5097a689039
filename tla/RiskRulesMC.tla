---------------------------- MODULE RiskRulesMC ----------------------------
(***************************************************************************)
(* The pure rules of risk.py, decision.py, portfolio.py, signal.py and      *)
(* quoter.py over all small inputs: a state is one sample, and nothing      *)
(* happens to it.                                                           *)
(***************************************************************************)
EXTENDS Sizing, Scoring, Quoter

CONSTANTS
    Amounts, Factors, Baskets, EntryPrices, MarketPrices,   \* bounds of the samples
    Parts,                                  \* hundredths of a cent beside an amount
    Ranks, Volatilities,                    \* what a figure is changed to
    Cap, Mult, Places,
    Names, Figures,                         \* narratives, and the figures of a basket
    Outputs                                 \* what a pool answers

(* what signal.py fills in; a trending rank counts from 1 *)
FigureType ==
    [rs : Int, ret : Int, dd : Int, volume : Int, holders : Int, volatility : Int,
     rsi : Int, liquidity : Int, spread : Int, rank : Nat \ {0}, social : Int,
     kaito : BOOLEAN, first : BOOLEAN, second : BOOLEAN]

ASSUME SampleAssumption ==
    /\ Amounts \subseteq Nat /\ Factors \subseteq Nat /\ Parts \subseteq Nat
    /\ Ranks \subseteq Nat \ {0} /\ Volatilities \subseteq Int
    /\ Baskets \subseteq Nat \ {0}
    /\ EntryPrices \subseteq Nat /\ MarketPrices \subseteq Nat
    /\ Cap \in Nat /\ Mult \in Nat /\ Places \in Nat \ {0}
    /\ Figures \subseteq FigureType /\ Figures # {}
    /\ Outputs \subseteq Nat

VARIABLES cash, value, conviction, tokens, entry, price, name, figures, answer

MCPrices == 0 .. 120

(* both sides of the bounds the buckets test, in the figures that meet in   *)
(* more than one bucket                                                     *)
MCFigures ==
    [rs : {90, 120}, ret : {-5, 0, 10, 30, 45}, dd : {3, 15}, volume : {-5, 0, 40},
     holders : {0, 12}, volatility : {50, 80, 120}, rsi : {50}, liquidity : {30},
     spread : {5}, rank : {1, 20, 30, 50}, social : {0, 20}, kaito : {FALSE},
     first : {FALSE}, second : BOOLEAN]

Tiers == {PCS_FEE_TIERS[i] : i \in DOMAIN PCS_FEE_TIERS}
QuotedAmounts == {0, 3}      \* bounds of the samples of quotes
QuotedPrices == {0, 1, 2}

Figure == CHOOSE d \in Figures : TRUE

sample == <<cash, value, conviction, tokens, entry, price, name, figures, answer>>

NoAmounts == cash = 0 /\ value = 0 /\ conviction = 0 /\ tokens = 1
NoPrices == entry = 0 /\ price = 0
NoFigures == name = "other" /\ figures = Figure
NoPools == answer = [fee \in Tiers |-> NoAnswer]

Init ==
    \/ /\ cash \in Amounts /\ value \in Amounts
       /\ conviction \in Factors /\ tokens \in Baskets
       /\ NoPrices /\ NoFigures /\ NoPools
    \/ /\ entry \in EntryPrices /\ price \in MarketPrices
       /\ NoAmounts /\ NoFigures /\ NoPools
    \/ /\ name \in Names /\ figures \in Figures
       /\ NoAmounts /\ NoPrices /\ NoPools
    \/ /\ answer \in [Tiers -> Outputs \cup {NoAnswer}]
       /\ cash \in QuotedAmounts /\ entry \in QuotedPrices /\ price \in QuotedPrices
       /\ value = 0 /\ conviction = 0 /\ tokens = 1
       /\ NoFigures

Next == UNCHANGED sample

Spec == Init /\ [][Next]_sample

Size == SizePosition(cash, Mult, conviction, Cap)

(* A breaker that trips also trips at a lower value and at a higher peak:   *)
(* restarting with less cash or after a new high cannot switch it off.      *)
BreakerMonotone ==
    ~CircuitBreakerOk(value, cash) =>
        \A higher \in Amounts, lower \in Amounts :
            higher >= value /\ lower <= cash => ~CircuitBreakerOk(higher, lower)

(* The size of a cycle's buys never exceeds the cap, not even to reach the  *)
(* heartbeat size, by more than the half cent of the final rounding.        *)
SizeWithinCap == 100 * Size <= cash * MaxPositionPct + 50

(* What a basket is given in all is the size, to half a cent per token. *)
SplitWithinSize ==
    /\ 2 * (tokens * PerToken(Size, tokens)) <= 2 * Size + tokens
    /\ 2 * (tokens * PerToken(Size, tokens)) >= 2 * Size - tokens

(* position_size never asks for more than the cash there is, by more than   *)
(* the half cent of the final rounding, of which the cash, a float, may be  *)
(* short.                                                                   *)
SizeAffordable ==
    \A part \in Parts :
        LET exact == 100 * cash + part
        IN  100 * PositionSize(exact, 100 * value) <= exact + 50

(* The stop stored in the row and the percentage test of check_exits differ *)
(* by no more than half a unit of the sixth decimal place.                  *)
ExitRulesAgree ==
    /\ ExitTriggered(entry, price) =>
           2 * price <= 2 * ComputeStop(entry, Places) + Places
    /\ StopReached(ComputeStop(entry, Places), price) =>
           200 * price <= 2 * (100 - StopLossPct) * entry + 100 * Places

(* Of two baskets alike but for the trending rank, the one that trends less *)
(* (the larger rank) never has the lower conviction, in any regime.  It is  *)
(* the rank alone that score_attention fades: social volume and a surge of  *)
(* mindshare it rewards.                                                    *)
TrendIsFaded ==
    \A regime \in RegimeName, rank \in Ranks :
        rank >= figures.rank =>
            Fresh(name, [figures EXCEPT !.rank = rank], regime)
                >= Fresh(name, figures, regime)

(* More volatility never raises a conviction, although it is counted twice, *)
(* in the risk bucket and in the exhaustion that bucket looks at.           *)
RiskNeverRewarded ==
    \A regime \in RegimeName, volatility \in Volatilities :
        volatility >= figures.volatility =>
            Fresh(name, [figures EXCEPT !.volatility = volatility], regime)
                <= Fresh(name, figures, regime)

(* The same figures never earn more conviction in a worse regime, the       *)
(* adjustments for single narratives included.                              *)
RegimesOrdered ==
    /\ Fresh(name, figures, "RISK_OFF") <= Fresh(name, figures, "TRANSITION")
    /\ Fresh(name, figures, "TRANSITION") <= Fresh(name, figures, "RISK_ON")

(* The quote of the sample's pools, for all of the cash, and the same with  *)
(* the pool of one tier not answering.                                      *)
Quote == Estimate(TRUE, TRUE, answer, cash, entry, price)
QuoteWithout(fee) == Estimate(TRUE, TRUE, [answer EXCEPT ![fee] = NoAnswer], cash, entry, price)

(* The quote is the largest output of any pool, from the pool with the      *)
(* lowest fee of those that pay it.                                         *)
QuoteIsBest ==
    Quote.status = "ok" =>
        /\ answer[Quote.fee] = Quote.out
        /\ \A fee \in Tiers :
               /\ answer[fee] <= Quote.out
               /\ answer[fee] = Quote.out => Quote.fee <= fee

(* A pool that does not answer, whichever it is, costs the quote no more    *)
(* than that pool: a quote from another one stands, none gets better, and   *)
(* the slippage never looks smaller for it.                                 *)
SilentPoolsIgnored ==
    \A fee \in Tiers :
        /\ Quote.status = "ok" /\ Quote.fee # fee => QuoteWithout(fee) = Quote
        /\ QuoteWithout(fee).out <= Quote.out
        /\ QuoteWithout(fee).slippage.lost * Quote.slippage.of
               >= Quote.slippage.lost * QuoteWithout(fee).slippage.of
=============================================================================
