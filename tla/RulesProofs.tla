---------------------------- MODULE RulesProofs ----------------------------
(***************************************************************************)
(* The arithmetic that RiskRulesMC samples, proved for all amounts, prices, *)
(* figures and limits.  A sample never changes, so a property holds if it   *)
(* holds of everything that has the types of SampleTypes.                   *)
(***************************************************************************)
EXTENDS RiskRulesMC, RiskProofs, Induction

(* what the pools may answer, one by one *)
Answers == [Tiers -> Nat \cup {NoAnswer}]

SampleTypes ==
    /\ cash \in Nat /\ value \in Nat /\ conviction \in Nat
    /\ tokens \in Nat \ {0}
    /\ entry \in Nat /\ price \in Nat
    /\ figures \in FigureType
    /\ answer \in Answers

(* every sampled figure has its type at the start *)
LEMMA InitTypes == Init => SampleTypes
<1> SUFFICES ASSUME Init PROVE SampleTypes
    OBVIOUS
<1>1. Figure \in FigureType
    BY SampleAssumption DEF Figure
<1>2. 0 \in Nat /\ 1 \in Nat \ {0}
    OBVIOUS
<1>7. answer \in Answers
    BY SampleAssumption DEF Init, NoPools, Answers
<1> USE SampleAssumption
<1>3. CASE /\ cash \in Amounts /\ value \in Amounts
           /\ conviction \in Factors /\ tokens \in Baskets
           /\ NoPrices /\ NoFigures
    BY <1>7, <1>1, <1>3 DEF SampleTypes, NoPrices, NoFigures
<1>4. CASE entry \in EntryPrices /\ price \in MarketPrices /\ NoAmounts /\ NoFigures
    BY <1>7, <1>1, <1>4 DEF SampleTypes, NoAmounts, NoFigures
<1>5. CASE figures \in Figures /\ NoAmounts /\ NoPrices
    BY <1>7, <1>5 DEF SampleTypes, NoAmounts, NoPrices
<1>6. CASE /\ cash \in QuotedAmounts /\ entry \in QuotedPrices /\ price \in QuotedPrices
           /\ value = 0 /\ conviction = 0 /\ tokens = 1
           /\ NoFigures
    BY <1>7, <1>1, <1>6 DEF SampleTypes, QuotedAmounts, QuotedPrices, NoFigures
<1> QED
    BY <1>3, <1>4, <1>5, <1>6 DEF Init

(* Every sample is of these types. *)
THEOREM SamplesTyped == Spec => []SampleTypes
<1>1. SampleTypes /\ [Next]_sample => SampleTypes'
    BY DEF SampleTypes, Next, sample
<1> QED
    BY <1>1, InitTypes, PTL DEF Spec

(* The size never asks for more cash than there is, but for the half cent   *)
(* of its rounding (risk.position_size).                                    *)
THEOREM SizesAreAffordable == Spec => []SizeAffordable
<1>1. SampleTypes => SizeAffordable
  <2> SUFFICES ASSUME SampleTypes, NEW part \in Parts
               PROVE  100 * PositionSize(100 * cash + part, 100 * value)
                          <= 100 * cash + part + 50
      BY DEF SizeAffordable
  <2> DEFINE exact == 100 * cash + part
             size == Lesser(100 * value * MaxPositionPct, 100 * exact)
             least == 10000 * HeartbeatSize
             wanted == IF exact >= 100 * HeartbeatSize /\ 100 * value >= 500 * HeartbeatSize
                       THEN Greater(size, least)
                       ELSE size
  <2>1. exact \in Nat /\ HeartbeatSize \in Nat /\ 100 * value * MaxPositionPct \in Nat
      BY PctAssumption, SizeAssumption, SampleAssumption DEF SampleTypes, Pct
  <2>2. PositionSize(exact, 100 * value) = RoundDiv(wanted, 10000)
      BY DEF PositionSize
  <2> HIDE DEF exact
  <2>3. size \in Nat /\ size <= 100 * exact
      BY <2>1 DEF Lesser
  <2> HIDE DEF size
  <2>4. wanted \in Nat /\ wanted <= 100 * exact
      BY <2>1, <2>3 DEF Greater
  <2> HIDE DEF wanted
  <2>5. /\ RoundDiv(wanted, 10000) \in Nat
        /\ 2 * (10000 * RoundDiv(wanted, 10000)) <= 2 * wanted + 10000
    <3> DEFINE n == 10000
    <3>1. n \in Nat \ {0}
        OBVIOUS
    <3> HIDE DEF n
    <3>2. /\ RoundDiv(wanted, n) \in Nat
          /\ 2 * (n * RoundDiv(wanted, n)) <= 2 * wanted + n
        BY <2>4, <3>1, ShareRounding
    <3> QED
        BY <3>2 DEF n
  <2>6. 100 * RoundDiv(wanted, 10000) <= exact + 50
      BY <2>1, <2>4, <2>5
  <2> QED
      BY <2>2, <2>6 DEF exact
<1> QED
    BY <1>1, SamplesTyped, PTL

(* A breaker that trips at a value trips at every lower one and under every *)
(* higher peak (risk.circuit_breaker).                                      *)
THEOREM BreakerIsMonotone == Spec => []BreakerMonotone
<1>1. SampleTypes => BreakerMonotone
    BY BreakerStaysTripped, SampleAssumption DEF SampleTypes, BreakerMonotone
<1> QED
    BY <1>1, SamplesTyped, PTL

(* The size is an amount, and within the cap. *)
LEMMA SizeTyped ==
    ASSUME SampleTypes
    PROVE  Size \in Nat /\ 100 * Size <= cash * MaxPositionPct + 50
<1> DEFINE most == Greater(Cap, 1)
           scaled == Scaled(cash, Mult, conviction, Cap)
<1>1. cash * MaxPositionPct \in Nat
    BY PctAssumption DEF SampleTypes, Pct
<1>2. 100 * Ceiling(cash) <= cash * MaxPositionPct + 50 /\ Ceiling(cash) \in Nat
    BY <1>1, CentRounding DEF Ceiling
<1>3. scaled \in Int
  <2>1. most \in Nat /\ most >= 1 /\ Lesser(conviction, most) \in Nat
      BY SampleAssumption DEF SampleTypes, Greater, Lesser
  <2>2. cash * MaxPositionPct * Mult * Lesser(conviction, most) \in Nat
      BY <1>1, <2>1, SampleAssumption
  <2>3. 1000 * most \in Nat /\ 1000 * most >= 1
      BY <2>1
  <2> QED
      BY <2>2, <2>3 DEF Scaled, RoundDiv
<1>4. Greater(scaled, HeartbeatSize) \in Nat
    BY <1>3, SizeAssumption DEF Greater
<1> HIDE DEF scaled
<1>5. Lesser(Greater(scaled, HeartbeatSize), Ceiling(cash)) <= Ceiling(cash)
      /\ Lesser(Greater(scaled, HeartbeatSize), Ceiling(cash)) \in Nat
    BY <1>2, <1>4 DEF Lesser
<1>6. Size = Lesser(Greater(scaled, HeartbeatSize), Ceiling(cash))
    BY DEF Size, SizePosition, scaled
<1> QED
    BY <1>1, <1>2, <1>5, <1>6

(* The size of a cycle's buys stays within the cap (_size_position). *)
THEOREM SizesAreCapped == Spec => []SizeWithinCap
<1>1. SampleTypes => SizeWithinCap
    BY SizeTyped DEF SizeWithinCap
<1> QED
    BY <1>1, SamplesTyped, PTL

(* The scores of a basket are natural numbers. *)
LEMMA BucketTypes ==
    ASSUME NEW n, NEW d \in FigureType
    PROVE  /\ Momentum(d) \in Nat /\ Liquidity(d) \in Nat /\ Attention(d) \in Nat
           /\ Fundamental(n, d) \in Nat /\ RiskScore(d) \in Nat
<1> USE DEF FigureType, When, Clamp, Greater, Lesser
<1>1. Momentum(d) \in Nat
    BY DEF Momentum
<1>2. Liquidity(d) \in Nat
    BY DEF Liquidity
<1>3. Attention(d) \in Nat
    BY DEF Attention
<1>4. Fundamental(n, d) \in Nat
    BY DEF Fundamental
<1>5. RiskScore(d) \in Nat
  <2>1. Exhaustion(d) \in Int
      BY DEF Exhaustion
  <2> QED
      BY <2>1 DEF RiskScore
<1> QED
    BY <1>1, <1>2, <1>3, <1>4, <1>5

(* Multiplying by a number of tenths and truncating, as compute_narrative_- *)
(* score does it, keeps order and type.                                     *)
LEMMA Truncation ==
    ASSUME NEW a \in Nat, NEW b \in Nat, a <= b
    PROVE  /\ (a * 11) \div 1000 <= (b * 11) \div 1000 /\ (a * 11) \div 1000 \in Nat
           /\ (a * 9) \div 1000 <= (b * 9) \div 1000 /\ (a * 9) \div 1000 \in Nat
           /\ (a * 7) \div 1000 <= (b * 7) \div 1000 /\ (a * 7) \div 1000 \in Nat
           /\ (a * 6) \div 10 <= (b * 6) \div 10 /\ (a * 6) \div 10 \in Nat
           /\ (a * 11) \div 10 <= (b * 11) \div 10 /\ (a * 11) \div 10 \in Nat
OBVIOUS

(* The multiplier of a regime, before the adjustment for the narrative. *)
Multiplied(n, d, regime) == (RawScore(n, d) * RegimeMult[regime]) \div 1000

(* a multiplier of a regime does not turn an order of scores around *)
LEMMA MultipliedKeepsOrder ==
    ASSUME NEW n, NEW d, NEW e, NEW regime \in RegimeName,
           RawScore(n, d) \in Nat, RawScore(n, e) \in Nat,
           RawScore(n, d) <= RawScore(n, e)
    PROVE  /\ Multiplied(n, d, regime) <= Multiplied(n, e, regime)
           /\ Multiplied(n, d, regime) \in Nat /\ Multiplied(n, e, regime) \in Nat
<1> DEFINE low == RawScore(n, d)
           high == RawScore(n, e)
<1>1. /\ (low * 11) \div 1000 <= (high * 11) \div 1000 /\ (low * 11) \div 1000 \in Nat
      /\ (low * 9) \div 1000 <= (high * 9) \div 1000 /\ (low * 9) \div 1000 \in Nat
      /\ (low * 7) \div 1000 <= (high * 7) \div 1000 /\ (low * 7) \div 1000 \in Nat
    BY Truncation
<1>2. /\ (high * 11) \div 1000 \in Nat /\ (high * 9) \div 1000 \in Nat
      /\ (high * 7) \div 1000 \in Nat
    BY Truncation
<1> HIDE DEF low, high
<1>3. CASE regime = "RISK_ON"
    BY <1>1, <1>2, <1>3 DEF Multiplied, RegimeMult, low, high
<1>4. CASE regime = "TRANSITION"
    BY <1>1, <1>2, <1>4 DEF Multiplied, RegimeMult, low, high
<1>5. CASE regime = "RISK_OFF"
    BY <1>1, <1>2, <1>5 DEF Multiplied, RegimeMult, low, high
<1> QED
    BY <1>3, <1>4, <1>5 DEF RegimeName

(* Multipliers, truncations and caps keep the order of the raw scores. *)
LEMMA FreshKeepsOrder ==
    ASSUME NEW n, NEW d, NEW e, NEW regime \in RegimeName,
           RawScore(n, d) \in Nat, RawScore(n, e) \in Nat,
           RawScore(n, d) <= RawScore(n, e)
    PROVE  /\ Fresh(n, d, regime) <= Fresh(n, e, regime)
           /\ Fresh(n, d, regime) \in Nat /\ Fresh(n, e, regime) \in Nat
<1> DEFINE low == Multiplied(n, d, regime)
           high == Multiplied(n, e, regime)
<1>1. low \in Nat /\ high \in Nat /\ low <= high
    BY MultipliedKeepsOrder
<1> HIDE DEF low, high
<1>2. /\ (low * 6) \div 10 <= (high * 6) \div 10 /\ (low * 6) \div 10 \in Nat
      /\ (low * 11) \div 10 <= (high * 11) \div 10 /\ (low * 11) \div 10 \in Nat
      /\ (high * 6) \div 10 \in Nat /\ (high * 11) \div 10 \in Nat
    BY <1>1, Truncation
<1> DEFINE worse == regime = "RISK_OFF" /\ n = "Meme"
           better == regime = "RISK_ON" /\ n \in {"AI Tokens", "DePIN"}
<1>a. Adjusted(n, d, regime) = IF worse THEN (low * 6) \div 10
                               ELSE IF better THEN (low * 11) \div 10 ELSE low
    BY DEF Adjusted, Multiplied, low
<1>b. Adjusted(n, e, regime) = IF worse THEN (high * 6) \div 10
                               ELSE IF better THEN (high * 11) \div 10 ELSE high
    BY DEF Adjusted, Multiplied, high
<1> HIDE DEF worse, better
<1>3. /\ Adjusted(n, d, regime) <= Adjusted(n, e, regime)
      /\ Adjusted(n, d, regime) \in Nat /\ Adjusted(n, e, regime) \in Nat
    BY <1>1, <1>2, <1>a, <1>b
<1>4. ConvictionCap[regime] \in Nat
    BY DEF ConvictionCap, RegimeName
<1> QED
    BY <1>3, <1>4 DEF Fresh, Lesser

(* the score before the multipliers is a natural number *)
LEMMA RawTyped ==
    ASSUME NEW n, NEW d \in FigureType
    PROVE  RawScore(n, d) \in Nat
BY BucketTypes DEF RawScore

(* A trend is faded: a larger trending rank never means less conviction     *)
(* (signal.score_attention), whatever the other figures are.                *)
THEOREM TrendsAreFaded == Spec => []TrendIsFaded
<1>1. SampleTypes => TrendIsFaded
  <2> SUFFICES ASSUME SampleTypes, NEW regime \in RegimeName,
                      NEW rank \in Ranks, rank >= figures.rank
               PROVE  Fresh(name, [figures EXCEPT !.rank = rank], regime)
                          >= Fresh(name, figures, regime)
      BY DEF TrendIsFaded
  <2> DEFINE other == [figures EXCEPT !.rank = rank]
  <2>1. figures \in FigureType /\ other \in FigureType
      BY SampleAssumption DEF SampleTypes, FigureType
  <2>2. /\ Momentum(other) = Momentum(figures) /\ Liquidity(other) = Liquidity(figures)
        /\ Fundamental(name, other) = Fundamental(name, figures)
        /\ RiskScore(other) = RiskScore(figures)
      BY <2>1 DEF FigureType, Momentum, Liquidity, Fundamental, RiskScore, Exhaustion
  <2>3. Attention(other) >= Attention(figures)
      BY <2>1 DEF FigureType, Attention, When, Clamp, Greater, Lesser
  <2>4. RawScore(name, other) >= RawScore(name, figures)
    <3> HIDE DEF other
    <3> QED
        BY <2>1, <2>2, <2>3, BucketTypes DEF RawScore
  <2>5. RawScore(name, other) \in Nat /\ RawScore(name, figures) \in Nat
      BY <2>1, RawTyped
  <2> HIDE DEF other
  <2>6. /\ Fresh(name, figures, regime) <= Fresh(name, other, regime)
        /\ Fresh(name, figures, regime) \in Nat /\ Fresh(name, other, regime) \in Nat
      BY <2>4, <2>5, FreshKeepsOrder
  <2> QED
      BY <2>6 DEF other
<1> QED
    BY <1>1, SamplesTyped, PTL

(* More volatility never means more conviction, although it counts in two   *)
(* places (signal.score_risk_adjustment and compute_exhaustion_score).      *)
THEOREM RiskIsNeverRewarded == Spec => []RiskNeverRewarded
<1>1. SampleTypes => RiskNeverRewarded
  <2> SUFFICES ASSUME SampleTypes, NEW regime \in RegimeName,
                      NEW volatility \in Volatilities, volatility >= figures.volatility
               PROVE  Fresh(name, [figures EXCEPT !.volatility = volatility], regime)
                          <= Fresh(name, figures, regime)
      BY DEF RiskNeverRewarded
  <2> DEFINE other == [figures EXCEPT !.volatility = volatility]
  <2>1. figures \in FigureType /\ other \in FigureType
      BY SampleAssumption DEF SampleTypes, FigureType
  <2>2. /\ Momentum(other) = Momentum(figures) /\ Liquidity(other) = Liquidity(figures)
        /\ Fundamental(name, other) = Fundamental(name, figures)
        /\ Attention(other) = Attention(figures)
      BY <2>1 DEF FigureType, Momentum, Liquidity, Fundamental, Attention
  <2>3. RiskScore(other) <= RiskScore(figures)
    <3>1. /\ other.volatility = volatility /\ figures.volatility \in Int /\ volatility \in Int
          /\ other.ret = figures.ret /\ other.volume = figures.volume /\ other.dd = figures.dd
          /\ other.social = figures.social /\ other.holders = figures.holders
        BY <2>1 DEF FigureType
    <3>2. /\ Exhaustion(figures) \in Int /\ Exhaustion(other) \in Int
          /\ Exhaustion(figures) <= Exhaustion(other)
      <4> HIDE DEF other
      <4> QED
          BY <3>1 DEF Exhaustion, When
    <3> HIDE DEF other
    <3> QED
        BY <3>1, <3>2 DEF RiskScore, When, Clamp, Greater, Lesser
  <2> HIDE DEF other
  <2>4. RawScore(name, other) <= RawScore(name, figures)
      BY <2>1, <2>2, <2>3, BucketTypes DEF RawScore
  <2>5. RawScore(name, other) \in Nat /\ RawScore(name, figures) \in Nat
      BY <2>1, RawTyped
  <2> QED
      BY <2>4, <2>5, FreshKeepsOrder DEF other
<1> QED
    BY <1>1, SamplesTyped, PTL

(* A worse regime never means more conviction, not even for the narratives  *)
(* with an adjustment of their own (signal.compute_narrative_score).        *)
THEOREM RegimesAreOrdered == Spec => []RegimesOrdered
<1>1. SampleTypes => RegimesOrdered
  <2> SUFFICES ASSUME SampleTypes PROVE RegimesOrdered
      OBVIOUS
  <2> DEFINE raw == RawScore(name, figures)
             off == (raw * 7) \div 1000
             mid == (raw * 9) \div 1000
             on == (raw * 11) \div 1000
  <2>1. raw \in Nat
      BY RawTyped DEF SampleTypes
  <2>2. off \in Nat /\ mid \in Nat /\ on \in Nat /\ off <= mid /\ mid <= on
    <3> HIDE DEF raw
    <3> QED
        BY <2>1
  <2>3. Adjusted(name, figures, "RISK_OFF") = IF name = "Meme" THEN (off * 6) \div 10 ELSE off
      BY DEF Adjusted, RegimeMult
  <2>4. Adjusted(name, figures, "TRANSITION") = mid
      BY DEF Adjusted, RegimeMult
  <2>5. Adjusted(name, figures, "RISK_ON") =
            IF name \in {"AI Tokens", "DePIN"} THEN (on * 11) \div 10 ELSE on
      BY DEF Adjusted, RegimeMult
  <2> HIDE DEF off, mid, on
  <2>6. /\ (off * 6) \div 10 <= off /\ (off * 6) \div 10 \in Nat
        /\ (on * 11) \div 10 >= on /\ (on * 11) \div 10 \in Nat
      BY <2>2
  <2>7. /\ Adjusted(name, figures, "RISK_OFF") <= mid /\ mid <= Adjusted(name, figures, "RISK_ON")
        /\ Adjusted(name, figures, "RISK_OFF") \in Nat /\ Adjusted(name, figures, "RISK_ON") \in Nat
    <3> DEFINE lower == (off * 6) \div 10
               higher == (on * 11) \div 10
    <3>1. lower <= mid /\ lower \in Nat /\ mid <= higher /\ higher \in Nat
        BY <2>2, <2>6
    <3> HIDE DEF lower, higher
    <3>2. Adjusted(name, figures, "RISK_OFF") \in {lower, off}
        BY <2>3 DEF lower
    <3>3. Adjusted(name, figures, "RISK_ON") \in {higher, on}
        BY <2>5 DEF higher
    <3> QED
        BY <2>2, <3>1, <3>2, <3>3
  <2>8. /\ Fresh(name, figures, "RISK_OFF") = Lesser(Adjusted(name, figures, "RISK_OFF"), 50)
        /\ Fresh(name, figures, "TRANSITION") = Lesser(mid, 75)
        /\ Fresh(name, figures, "RISK_ON") = Lesser(Adjusted(name, figures, "RISK_ON"), 100)
      BY <2>4 DEF Fresh, ConvictionCap
  <2> QED
      BY <2>2, <2>7, <2>8 DEF RegimesOrdered, Lesser
<1> QED
    BY <1>1, SamplesTyped, PTL

(* What the tokens of a basket are given adds up to the size, to half a     *)
(* cent each (decision._split_across_basket).                               *)
THEOREM SplitsAddUp == Spec => []SplitWithinSize
<1>1. SampleTypes => SplitWithinSize
  <2> SUFFICES ASSUME SampleTypes PROVE SplitWithinSize
      OBVIOUS
  <2>1. Size \in Nat
      BY SizeTyped
  <2> QED
      BY <2>1, ShareRounding DEF SplitWithinSize, PerToken, SampleTypes
<1> QED
    BY <1>1, SamplesTyped, PTL

(* The stop price of a row and the test of check_exits, which takes the     *)
(* percentage itself, differ by half a unit of the sixth decimal at most.   *)
THEOREM ExitsAgree == Spec => []ExitRulesAgree
<1>1. SampleTypes => ExitRulesAgree
  <2> SUFFICES ASSUME SampleTypes PROVE ExitRulesAgree
      OBVIOUS
  <2> DEFINE kept == entry * (100 - StopLossPct)
             grid == 100 * Places
             units == RoundDiv(kept, grid)
             stop == Places * units
  <2>1. /\ entry \in Nat /\ price \in Nat /\ Places \in Nat /\ grid \in Nat \ {0}
        /\ StopLossPct \in Nat /\ 100 - StopLossPct \in Nat
      BY PctAssumption, SampleAssumption DEF SampleTypes, Pct
  <2>2. kept \in Nat /\ kept = 100 * entry - StopLossPct * entry
      BY <2>1
  <2>3. units \in Nat /\ 2 * (grid * units) <= 2 * kept + grid
                       /\ 2 * (grid * units) >= 2 * kept - grid
    <3> HIDE DEF kept, grid
    <3> QED
        BY <2>1, <2>2, ShareRounding
  <2>4. stop \in Nat /\ grid * units = 100 * stop
    <3> HIDE DEF units
    <3> QED
        BY <2>1, <2>3
  <2>5. /\ StopLossPct * entry \in Nat
        /\ 2 * (100 - StopLossPct) * entry = 2 * kept
      BY <2>1
  <2>6. stop = ComputeStop(entry, Places)
      BY DEF ComputeStop
  <2> HIDE DEF kept, units, stop
  <2>7. ExitTriggered(entry, price) => 2 * price <= 2 * stop + Places
    <3> SUFFICES ASSUME (price - entry) * 100 <= -(StopLossPct * entry)
                 PROVE  2 * price <= 2 * stop + Places
        BY DEF ExitTriggered
    <3>1. 100 * price <= kept
        BY <2>1, <2>2, <2>5
    <3>2. 200 * stop >= 2 * kept - 100 * Places
        BY <2>3, <2>4
    <3> QED
        BY <2>1, <2>2, <2>4, <3>1, <3>2
  <2>8. StopReached(stop, price) =>
            200 * price <= 2 * (100 - StopLossPct) * entry + 100 * Places
      BY <2>1, <2>2, <2>3, <2>4, <2>5 DEF StopReached
  <2> QED
      BY <2>6, <2>7, <2>8 DEF ExitRulesAgree
<1> QED
    BY <1>1, SamplesTyped, PTL

(***************************************************************************)
(* The best quote.  The loop over the tiers keeps an answer that leads the  *)
(* ones before it; which one leads all of them does not depend on the order *)
(* in which they were seen.                                                 *)
(***************************************************************************)
Tier(i) == PCS_FEE_TIERS[i]
Pools == 1 .. 4

LEMMA TierFacts ==
    /\ Len(PCS_FEE_TIERS) = 4
    /\ \A i \in Pools : Tier(i) \in Tiers /\ Tier(i) \in Nat
    /\ \A fee \in Tiers : \E i \in Pools : fee = Tier(i)
    /\ \A i, j \in Pools : i < j <=> Tier(i) < Tier(j)
<1>1. Len(PCS_FEE_TIERS) = 4 /\ DOMAIN PCS_FEE_TIERS = Pools
    BY DEF PCS_FEE_TIERS, Pools
<1>2. Tier(1) = 100 /\ Tier(2) = 500 /\ Tier(3) = 3000 /\ Tier(4) = 10000
    BY DEF Tier, PCS_FEE_TIERS
<1>3. \A i \in Pools : Tier(i) \in Tiers
    BY <1>1 DEF Tiers, Tier
<1>4. \A fee \in Tiers : \E i \in Pools : fee = Tier(i)
    BY <1>1 DEF Tiers, Tier
<1>5. \A i \in Pools : Tier(i) \in Nat
    BY <1>2 DEF Pools
<1>6. \A i, j \in Pools : i < j <=> Tier(i) < Tier(j)
    BY <1>2 DEF Pools
<1> QED
    BY <1>1, <1>3, <1>4, <1>5, <1>6

(* the quote a pool's answer makes *)
Offer(a, amount, from, to, fee) ==
    [out |-> a[fee], fee |-> fee,
     slippage |-> IF Priced(from, to) THEN Slippage(amount, from, to, a[fee]) ELSE Whole,
     status |-> IF Priced(from, to) THEN "ok" ELSE "no_price_data"]

(* best is what the loop must have after the first n tiers *)
Leads(a, amount, from, to, best, n) ==
    \/ best = Refused("no_liquidity") /\ \A i \in 1 .. n : a[Tier(i)] <= 0
    \/ \E j \in 1 .. n :
           /\ best = Offer(a, amount, from, to, Tier(j)) /\ a[Tier(j)] > 0
           /\ \A i \in 1 .. n : /\ a[Tier(i)] <= a[Tier(j)]
                                /\ i < j => a[Tier(i)] < a[Tier(j)]

(* One pass through the loop puts the next tier into the race. *)
LEMMA LeadPasses ==
    ASSUME NEW a \in Answers, NEW amount, NEW from, NEW to, NEW best,
           NEW n \in Pools, Leads(a, amount, from, to, best, n - 1)
    PROVE  Leads(a, amount, from, to, Considered(a, amount, from, to, best, Tier(n)), n)
<1> DEFINE new == a[Tier(n)]
           next == Considered(a, amount, from, to, best, Tier(n))
<1>1. \A i \in Pools : a[Tier(i)] \in Int
    BY TierFacts DEF Answers, NoAnswer
<1>2. n \in Int /\ n >= 1 /\ 1 .. n \subseteq Pools /\ n \in 1 .. n
      /\ \A i \in 1 .. n : i = n \/ i \in 1 .. (n - 1)
    BY DEF Pools
<1>3. next = IF new > best.out THEN Offer(a, amount, from, to, Tier(n)) ELSE best
    BY DEF Considered, Better, Offer
<1>4. CASE best = Refused("no_liquidity") /\ \A i \in 1 .. (n - 1) : a[Tier(i)] <= 0
  <2>1. best.out = 0
      BY <1>4 DEF Refused
  <2>2. CASE new > 0
    <3>1. next = Offer(a, amount, from, to, Tier(n))
        BY <1>3, <2>1, <2>2
    <3>2. \A i \in 1 .. n : a[Tier(i)] <= new /\ (i < n => a[Tier(i)] < new)
        BY <1>1, <1>2, <1>4, <2>2
    <3> QED
        BY <1>2, <2>2, <3>1, <3>2 DEF Leads
  <2>3. CASE ~(new > 0)
    <3>1. next = best
        BY <1>3, <2>1, <2>3
    <3>2. \A i \in 1 .. n : a[Tier(i)] <= 0
        BY <1>1, <1>2, <1>4, <2>3
    <3> QED
        BY <1>4, <3>1, <3>2 DEF Leads
  <2> QED
      BY <2>2, <2>3
<1>5. ASSUME NEW j \in 1 .. (n - 1),
             best = Offer(a, amount, from, to, Tier(j)), a[Tier(j)] > 0,
             \A i \in 1 .. (n - 1) : /\ a[Tier(i)] <= a[Tier(j)]
                                     /\ i < j => a[Tier(i)] < a[Tier(j)]
      PROVE  Leads(a, amount, from, to, next, n)
  <2>1. best.out = a[Tier(j)] /\ j \in 1 .. n /\ j < n
      BY <1>2, <1>5 DEF Offer
  <2>2. CASE new > best.out
    <3>1. next = Offer(a, amount, from, to, Tier(n))
        BY <1>3, <2>2
    <3>2. \A i \in 1 .. n : a[Tier(i)] <= new /\ (i < n => a[Tier(i)] < new)
        BY <1>1, <1>2, <1>5, <2>1, <2>2
    <3>3. new > 0
        BY <1>1, <1>2, <1>5, <2>1, <2>2
    <3> QED
        BY <1>2, <3>1, <3>2, <3>3 DEF Leads
  <2>3. CASE ~(new > best.out)
    <3>1. next = best
        BY <1>3, <2>3
    <3>2. \A i \in 1 .. n : a[Tier(i)] <= a[Tier(j)] /\ (i < j => a[Tier(i)] < a[Tier(j)])
        BY <1>1, <1>2, <1>5, <2>1, <2>3
    <3> QED
        BY <1>5, <2>1, <3>1, <3>2 DEF Leads
  <2> QED
      BY <2>2, <2>3
<1> QED
    BY <1>4, <1>5 DEF Leads

(* So the loop ends with the answer that leads them all. *)
LEMMA BestLeads ==
    ASSUME NEW a \in Answers, NEW amount, NEW from, NEW to
    PROVE  Leads(a, amount, from, to, BestAnswer(a, amount, from, to), 4)
<1> DEFINE Pass(best, i) == Considered(a, amount, from, to, best, Tier(i))
           none == Refused("no_liquidity")
           Runs(b) == b = [i \in 0 .. 4 |-> IF i = 0 THEN none ELSE Pass(b[i - 1], i)]
           run == CHOOSE b : Runs(b)
           one == Pass(none, 1)
           two == Pass(one, 2)
           three == Pass(two, 3)
           four == Pass(three, 4)
           seen == [i \in 0 .. 4 |-> IF i = 0 THEN none ELSE IF i = 1 THEN one
                        ELSE IF i = 2 THEN two ELSE IF i = 3 THEN three ELSE four]
<1>1. BestAnswer(a, amount, from, to) = run[4]
    BY TierFacts DEF BestAnswer, Tier
<1>2. \E b : Runs(b)
  <2>1. /\ seen[0] = none /\ seen[1] = one /\ seen[2] = two /\ seen[3] = three /\ seen[4] = four
        /\ one = Pass(seen[0], 1) /\ two = Pass(seen[1], 2)
        /\ three = Pass(seen[2], 3) /\ four = Pass(seen[3], 4)
      OBVIOUS
  <2>2. seen = [i \in 0 .. 4 |-> seen[i]]
      OBVIOUS
  <2> HIDE DEF seen, one, two, three, four, none, Pass
  <2>3. \A i \in 0 .. 4 : seen[i] = IF i = 0 THEN none ELSE Pass(seen[i - 1], i)
    <3>1. \A i \in 0 .. 4 : i \in {0, 1, 2, 3, 4}
        OBVIOUS
    <3>2. 1 - 1 = 0 /\ 2 - 1 = 1 /\ 3 - 1 = 2 /\ 4 - 1 = 3
        OBVIOUS
    <3> QED
        BY <2>1, <3>1, <3>2
  <2>4. Runs(seen)
      BY <2>2, <2>3
  <2> QED
      BY <2>4
<1>3. Runs(run)
  <2> HIDE DEF Runs
  <2> QED
      BY <1>2
<1> HIDE DEF run
<1>4. run[0] = none /\ \A i \in Pools : i - 1 \in 0 .. 3 /\ run[i] = Pass(run[i - 1], i)
    BY <1>3 DEF Pools
<1> DEFINE Good == {i \in 0 .. 4 : Leads(a, amount, from, to, run[i], i)}
<1>5. 0 \in Good
  <2>1. \A i \in 1 .. 0 : FALSE
      OBVIOUS
  <2> QED
      BY <1>4, <2>1 DEF Leads
<1>6. ASSUME NEW i \in 1 .. 4, i - 1 \in Good PROVE i \in Good
  <2>1. Leads(a, amount, from, to, run[i - 1], i - 1) /\ i \in Pools
      BY <1>6 DEF Pools
  <2>2. Leads(a, amount, from, to, Pass(run[i - 1], i), i)
      BY <2>1, LeadPasses
  <2>3. run[i] = Pass(run[i - 1], i)
      BY <1>4, <2>1
  <2> HIDE DEF Pass
  <2> QED
      BY <2>2, <2>3
<1>7. 4 \in Good
  <2>1. 0 .. 4 \subseteq Good
    <3> HIDE DEF Good
    <3> QED
        BY <1>5, <1>6, BoundedInduction
  <2> QED
      BY <2>1
<1> QED
    BY <1>1, <1>7

(* The pool that wins pays most, and of those that do it has the least fee. *)
Wins(a, fee) ==
    /\ fee \in Tiers /\ a[fee] > 0
    /\ \A other \in Tiers : /\ a[other] <= a[fee]
                            /\ a[other] = a[fee] => fee <= other

LEMMA BestWins ==
    ASSUME NEW a \in Answers, NEW amount, NEW from, NEW to
    PROVE  \/ /\ BestAnswer(a, amount, from, to) = Refused("no_liquidity")
              /\ \A fee \in Tiers : a[fee] <= 0
           \/ \E fee \in Tiers : /\ BestAnswer(a, amount, from, to) = Offer(a, amount, from, to, fee)
                                 /\ Wins(a, fee)
<1> DEFINE best == BestAnswer(a, amount, from, to)
<1>1. Leads(a, amount, from, to, best, 4)
    BY BestLeads
<1>2. Pools = 1 .. 4 /\ \A i \in Pools : a[Tier(i)] \in Int
    BY TierFacts DEF Answers, NoAnswer, Pools
<1>3. ASSUME best = Refused("no_liquidity"), \A i \in 1 .. 4 : a[Tier(i)] <= 0
      PROVE  \A fee \in Tiers : a[fee] <= 0
    BY <1>2, <1>3, TierFacts
<1>4. ASSUME NEW j \in 1 .. 4, a[Tier(j)] > 0,
             \A i \in 1 .. 4 : a[Tier(i)] <= a[Tier(j)] /\ (i < j => a[Tier(i)] < a[Tier(j)])
      PROVE  Wins(a, Tier(j))
  <2>1. ASSUME NEW other \in Tiers
        PROVE  a[other] <= a[Tier(j)] /\ (a[other] = a[Tier(j)] => Tier(j) <= other)
    <3>1. PICK i \in Pools : other = Tier(i)
        BY TierFacts
    <3>2. a[other] = a[Tier(j)] => ~(i < j)
        BY <1>2, <1>4, <3>1
    <3>3. ~(i < j) => Tier(j) <= Tier(i)
      <4>1. i \in Int /\ j \in Int /\ j \in Pools /\ Tier(i) \in Nat /\ Tier(j) \in Nat
          BY <1>2, <3>1, TierFacts
      <4>2. j < i => Tier(j) < Tier(i)
          BY <3>1, <4>1, TierFacts
      <4> QED
          BY <4>1, <4>2
    <3> QED
        BY <1>2, <1>4, <3>1, <3>2, <3>3
  <2>2. Tier(j) \in Tiers
      BY <1>2, TierFacts
  <2> QED
      BY <1>4, <2>1, <2>2 DEF Wins
<1> HIDE DEF best
<1>5. ASSUME NEW j \in 1 .. 4, best = Offer(a, amount, from, to, Tier(j)), a[Tier(j)] > 0,
             \A i \in 1 .. 4 : a[Tier(i)] <= a[Tier(j)] /\ (i < j => a[Tier(i)] < a[Tier(j)])
      PROVE  \E fee \in Tiers : best = Offer(a, amount, from, to, fee) /\ Wins(a, fee)
  <2>1. Tier(j) \in Tiers /\ Wins(a, Tier(j))
      BY <1>2, <1>4, <1>5, TierFacts
  <2> QED
      BY <1>5, <2>1
<1> QED
    BY <1>1, <1>3, <1>5 DEF Leads, best

(* What a sample's pools are asked for. *)
Best(a) == BestAnswer(a, cash, entry, price)
Answered(a) == Estimate(TRUE, TRUE, a, cash, entry, price)

Refusals == {Refused("zero_input"), Refused("raises"), Refused("no_liquidity")}

LEMMA RefusalFacts ==
    \A q \in Refusals : /\ q.status # "ok" /\ q.out = 0
                        /\ q.slippage.lost = 1 /\ q.slippage.of = 1
BY DEF Refusals, Refused, Whole

(* A quote is refused or made by the pool that wins, and with cash and both *)
(* prices at hand it is refused only when no pool pays anything.            *)
LEMMA AnsweredCases ==
    ASSUME SampleTypes, NEW a \in Answers
    PROVE  \/ /\ Answered(a) \in Refusals
              /\ cash > 0 /\ Priced(entry, price) => \A fee \in Tiers : a[fee] <= 0
           \/ /\ cash > 0 /\ Priced(entry, price)
              /\ \E fee \in Tiers : /\ Answered(a) = Offer(a, cash, entry, price, fee)
                                    /\ Wins(a, fee)
<1>1. cash \in Nat
    BY DEF SampleTypes
<1>2. Answered(a) = IF cash = 0 THEN Refused("zero_input")
                    ELSE IF Best(a).status = "no_price_data" THEN Refused("raises") ELSE Best(a)
    BY DEF Answered, Estimate, Best
<1>3. CASE cash = 0
    BY <1>1, <1>2, <1>3 DEF Refusals
<1>4. CASE Best(a) = Refused("no_liquidity") /\ \A fee \in Tiers : a[fee] <= 0
  <2>1. Best(a).status = "no_liquidity"
      BY <1>4 DEF Refused
  <2> QED
      BY <1>2, <1>3, <1>4, <2>1 DEF Refusals
<1>5. ASSUME cash # 0, NEW fee \in Tiers, Best(a) = Offer(a, cash, entry, price, fee), Wins(a, fee)
      PROVE  IF Priced(entry, price) THEN Answered(a) = Offer(a, cash, entry, price, fee)
                                     ELSE Answered(a) = Refused("raises")
  <2>1. Best(a).status = IF Priced(entry, price) THEN "ok" ELSE "no_price_data"
      BY <1>5 DEF Offer
  <2> QED
      BY <1>2, <1>5, <2>1
<1>6. Refused("raises") \in Refusals
    BY DEF Refusals
<1>7. CASE \E fee \in Tiers : Best(a) = Offer(a, cash, entry, price, fee) /\ Wins(a, fee)
    BY <1>1, <1>3, <1>5, <1>6, <1>7
<1> QED
    BY <1>4, <1>7, BestWins DEF Best

(* The quote is the largest output of any pool, from the pool with the      *)
(* lowest fee of those that pay it (quoter.estimate_slippage_single).       *)
THEOREM QuotesAreBest == Spec => []QuoteIsBest
<1>1. SampleTypes => QuoteIsBest
  <2> SUFFICES ASSUME SampleTypes, Quote.status = "ok"
               PROVE  /\ answer[Quote.fee] = Quote.out
                      /\ \A fee \in Tiers : /\ answer[fee] <= Quote.out
                                            /\ answer[fee] = Quote.out => Quote.fee <= fee
      BY DEF QuoteIsBest
  <2>1. answer \in Answers /\ Quote = Answered(answer)
      BY DEF SampleTypes, Quote, Answered
  <2>2. Quote \notin Refusals
      BY RefusalFacts
  <2>3. PICK fee \in Tiers : Quote = Offer(answer, cash, entry, price, fee) /\ Wins(answer, fee)
      BY <2>1, <2>2, AnsweredCases
  <2>4. Quote.fee = fee /\ Quote.out = answer[fee]
      BY <2>3 DEF Offer
  <2> QED
      BY <2>3, <2>4 DEF Wins
<1> QED
    BY <1>1, SamplesTyped, PTL

(* A silent pool is not missed by a quote from another one, and never makes *)
(* the quote or its slippage look better.                                   *)
LEMMA SilentPool ==
    ASSUME SampleTypes, NEW fee \in Tiers
    PROVE  /\ Quote.status = "ok" /\ Quote.fee # fee => QuoteWithout(fee) = Quote
           /\ QuoteWithout(fee).out <= Quote.out
           /\ QuoteWithout(fee).slippage.lost * Quote.slippage.of
                  >= Quote.slippage.lost * QuoteWithout(fee).slippage.of
<1> DEFINE fewer == [answer EXCEPT ![fee] = NoAnswer]
           before == Answered(answer)
           after == Answered(fewer)
<1>1. answer \in Answers /\ fewer \in Answers /\ cash \in Nat /\ entry \in Nat /\ price \in Nat
    BY DEF SampleTypes, Answers
<1>2. /\ fewer[fee] = -1 /\ \A other \in Tiers : other # fee => fewer[other] = answer[other]
      /\ \A other \in Tiers : other \in Nat /\ answer[other] \in Int /\ answer[other] >= -1
    BY <1>1, TierFacts DEF Answers, NoAnswer
<1>3. Quote = before /\ QuoteWithout(fee) = after
    BY DEF Quote, QuoteWithout, Answered
<1>4. \/ /\ before \in Refusals
         /\ cash > 0 /\ Priced(entry, price) => \A f \in Tiers : answer[f] <= 0
      \/ /\ cash > 0 /\ Priced(entry, price)
         /\ \E f \in Tiers : before = Offer(answer, cash, entry, price, f) /\ Wins(answer, f)
    BY <1>1, AnsweredCases
<1>5. \/ /\ after \in Refusals
         /\ cash > 0 /\ Priced(entry, price) => \A f \in Tiers : fewer[f] <= 0
      \/ /\ cash > 0 /\ Priced(entry, price)
         /\ \E f \in Tiers : after = Offer(fewer, cash, entry, price, f) /\ Wins(fewer, f)
    BY <1>1, AnsweredCases
<1> DEFINE ideal == cash * entry
<1>7. ASSUME NEW a \in Answers, NEW f \in Tiers, Priced(entry, price)
      PROVE  LET offer == Offer(a, cash, entry, price, f)
             IN  /\ offer.out = a[f] /\ offer.fee = f /\ offer.status = "ok"
                 /\ offer.slippage.of = ideal
                 /\ offer.slippage.lost = Greater(0, ideal - a[f] * price)
    BY <1>7 DEF Offer, Slippage
<1>8. ideal \in Nat
    BY <1>1
<1>9. \A f \in Tiers : answer[f] > 0 =>
          /\ answer[f] * price \in Nat
          /\ Greater(0, ideal - answer[f] * price) \in Nat
          /\ Greater(0, ideal - answer[f] * price) <= ideal
  <2> TAKE f \in Tiers
  <2> HAVE answer[f] > 0
  <2>1. answer[f] \in Nat
      BY <1>2
  <2>2. answer[f] * price \in Nat
      BY <1>1, <2>1
  <2> QED
      BY <1>8, <2>2 DEF Greater
<1> HIDE DEF ideal, before, after, fewer
<1>10. CASE before \in Refusals /\ after \in Refusals
  <2> QED
      BY <1>3, <1>10, RefusalFacts
<1>11. ASSUME NEW f \in Tiers, before = Offer(answer, cash, entry, price, f), Wins(answer, f),
              cash > 0, Priced(entry, price),
              after \in Refusals, \A g \in Tiers : fewer[g] <= 0
       PROVE  /\ before.fee = fee
              /\ after.out <= before.out
              /\ after.slippage.lost * before.slippage.of >= before.slippage.lost * after.slippage.of
  <2>1. after.out = 0 /\ after.slippage.lost = 1 /\ after.slippage.of = 1
      BY <1>11, RefusalFacts
  <2>2. /\ before.out = answer[f] /\ before.fee = f /\ before.slippage.of = ideal
        /\ before.slippage.lost = Greater(0, ideal - answer[f] * price)
      BY <1>1, <1>7, <1>11
  <2>3. answer[f] > 0
      BY <1>11 DEF Wins
  <2>4. f = fee
      BY <1>2, <1>11, <2>3
  <2>5. before.slippage.lost \in Nat /\ before.slippage.lost <= ideal
      BY <1>9, <2>2, <2>3
  <2>6. /\ after.slippage.lost * before.slippage.of = ideal
        /\ before.slippage.lost * after.slippage.of = before.slippage.lost
      BY <1>8, <2>1, <2>2, <2>5
  <2>7. after.out <= before.out
      BY <1>2, <2>1, <2>2, <2>3
  <2> QED
      BY <1>8, <2>2, <2>4, <2>5, <2>6, <2>7
<1>12. ASSUME NEW g \in Tiers, after = Offer(fewer, cash, entry, price, g), Wins(fewer, g),
              cash > 0, Priced(entry, price)
       PROVE  /\ before.fee # fee => after = before
              /\ after.out <= before.out
              /\ after.slippage.lost * before.slippage.of >= before.slippage.lost * after.slippage.of
  <2>1. fewer[g] > 0 /\ g # fee /\ fewer[g] = answer[g] /\ answer[g] > 0
      BY <1>2, <1>12 DEF Wins
  <2>2. PICK f \in Tiers : before = Offer(answer, cash, entry, price, f) /\ Wins(answer, f)
      BY <1>2, <1>4, <1>12, <2>1
  <2>3. /\ before.out = answer[f] /\ before.fee = f /\ before.slippage.of = ideal
        /\ before.slippage.lost = Greater(0, ideal - answer[f] * price)
      BY <1>1, <1>7, <1>12, <2>2
  <2>4. /\ after.out = answer[g] /\ after.slippage.of = ideal
        /\ after.slippage.lost = Greater(0, ideal - answer[g] * price)
      BY <1>1, <1>7, <1>12, <2>1
  <2>5. answer[g] <= answer[f] /\ answer[f] > 0 /\ (answer[g] = answer[f] => f <= g)
      BY <1>12, <2>2 DEF Wins
  <2>6. f # fee => f = g
    <3> HAVE f # fee
    <3>1. fewer[f] = answer[f] /\ fewer[f] <= fewer[g] /\ (fewer[f] = fewer[g] => g <= f)
        BY <1>2, <1>12, <2>2 DEF Wins
    <3> QED
        BY <1>2, <2>1, <2>5, <3>1
  <2>7. f = g => after = before
    <3> HAVE f = g
    <3>1. Offer(fewer, cash, entry, price, g) = Offer(answer, cash, entry, price, g)
        BY <2>1 DEF Offer
    <3> QED
        BY <1>12, <2>2, <3>1
  <2>8. before.slippage.lost <= after.slippage.lost
    <3> DEFINE more == answer[f] * price
               less == answer[g] * price
    <3>1. more \in Nat /\ less \in Nat /\ less <= more
      <4>1. answer[f] \in Nat /\ answer[g] \in Nat /\ answer[f] - answer[g] \in Nat /\ price \in Nat
          BY <1>1, <1>2, <2>1, <2>5
      <4>2. (answer[f] - answer[g]) * price \in Nat
          BY <4>1
      <4>3. (answer[f] - answer[g]) * price = more - less
          BY <4>1
      <4>4. more \in Nat /\ less \in Nat
          BY <4>1
      <4> HIDE DEF more, less
      <4> QED
          BY <4>2, <4>3, <4>4
    <3> HIDE DEF more, less
    <3>2. Greater(0, ideal - more) <= Greater(0, ideal - less)
        BY <1>8, <3>1 DEF Greater
    <3> QED
        BY <2>3, <2>4, <3>2 DEF more, less
  <2>9. before.slippage.lost \in Nat /\ after.slippage.lost \in Nat
      BY <1>9, <2>1, <2>3, <2>4, <2>5
  <2>10. after.slippage.lost * ideal >= before.slippage.lost * ideal
    <3> DEFINE a == after.slippage.lost
               b == before.slippage.lost
    <3>1. a \in Nat /\ b \in Nat /\ a - b \in Nat
        BY <2>8, <2>9
    <3> HIDE DEF a, b
    <3>2. (a - b) * ideal \in Nat /\ (a - b) * ideal = a * ideal - b * ideal
          /\ a * ideal \in Nat /\ b * ideal \in Nat
        BY <1>8, <3>1
    <3>3. a * ideal >= b * ideal
        BY <3>2
    <3> QED
        BY <3>3 DEF a, b
  <2> QED
      BY <2>3, <2>4, <2>5, <2>6, <2>7, <2>10
<1>13. CASE before \in Refusals
    BY <1>3, <1>4, <1>5, <1>10, <1>12, <1>13, RefusalFacts
<1>14. CASE \E f \in Tiers : before = Offer(answer, cash, entry, price, f) /\ Wins(answer, f)
            /\ cash > 0 /\ Priced(entry, price) /\ after \in Refusals
            /\ \A g \in Tiers : fewer[g] <= 0
    BY <1>3, <1>11, <1>14
<1>15. CASE \E g \in Tiers : after = Offer(fewer, cash, entry, price, g) /\ Wins(fewer, g)
            /\ cash > 0 /\ Priced(entry, price)
    BY <1>3, <1>12, <1>15
<1> QED
    BY <1>4, <1>5, <1>13, <1>14, <1>15

(* A pool that does not answer, whichever it is, costs the quote no more    *)
(* than that pool (quoter.estimate_slippage_single).                        *)
THEOREM SilentPoolsAreIgnored == Spec => []SilentPoolsIgnored
<1>1. SampleTypes => SilentPoolsIgnored
    BY SilentPool DEF SilentPoolsIgnored
<1> QED
    BY <1>1, SamplesTyped, PTL
=============================================================================
