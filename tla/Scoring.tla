------------------------------ MODULE Scoring ------------------------------
(***************************************************************************)
(* src/signal.py, sections 1 to 3: from the figures of a basket to the      *)
(* conviction of its narrative.                                             *)
(*                                                                         *)
(* The figures are a record d of integers: rs (relative strength, in        *)
(* hundredths), ret (7-day return), dd (drawdown from the 30-day high),     *)
(* volume (change over 7 days), holders (their growth) and volatility, all  *)
(* in percent; rsi; liquidity in millions; spread in tenths of a percent;   *)
(* rank (trending); social (volume, in thousands); and the Booleans kaito,  *)
(* first and second: the first and the second of the tests score_fundamental *)
(* makes for the narrative at hand.                                         *)
(*                                                                         *)
(* The sum of the weighted buckets is exact here and a float there; int()   *)
(* of the two is the same for every combination of buckets.                 *)
(***************************************************************************)
EXTENDS Arith, Sequences

When(condition, points) == IF condition THEN points ELSE 0
Clamp(points) == Greater(0, Lesser(points, 100))

(* detect_market_regime: percentages *)
MarketRegime(bnbDominance, fearGreed, mcapChange) ==
    IF fearGreed > 65 /\ bnbDominance < 50 /\ mcapChange > 5 THEN "RISK_ON"
    ELSE IF fearGreed < 30 /\ bnbDominance > 55 THEN "RISK_OFF"
    ELSE "TRANSITION"

(* score_momentum: a return of exactly 30 % is neither healthy nor extended *)
Momentum(d) == Clamp(
      When(d.rs > 115, 35) + When(d.rs \in 106 .. 115, 20) - When(d.rs < 95, 10)
    + When(5 < d.ret /\ d.ret < 30, 25) + When(d.ret > 30, 10) - When(d.ret < 0, 10)
    + When(10 < d.dd /\ d.dd < 25, 15)
    + When(d.rsi < 35, 20) - When(d.rsi > 70, 15))

(* score_liquidity *)
Liquidity(d) == Clamp(
      When(d.volume > 30, 30) + When(d.volume \in 11 .. 30, 20) - When(d.volume < 0, 15)
    + When(d.liquidity > 50, 20) + When(d.liquidity \in 21 .. 50, 10)
    + When(d.spread < 3, 15) - When(d.spread > 10, 10))

(* mutant: a trending rank is rewarded instead of faded *)
AttentionFollowed(d) == Clamp(
      When(d.rank <= 10, 30) + When(d.rank \in 11 .. 25, 20) - When(d.rank >= 40, 30)
    + When(d.social > 10, 25) + When(d.social \in 6 .. 10, 15)
    + When(d.kaito, 15))

(* score_attention: fades what trends; int(... or 50) reads rank 0 as 50 *)
Attention(d) ==
    LET rank == IF d.rank = 0 THEN 50 ELSE d.rank
    IN  Clamp(When(rank >= 40, 30) - When(rank <= 10, 30) - When(rank \in 11 .. 25, 20)
              + When(d.social > 10, 25) + When(d.social \in 6 .. 10, 15)
              + When(d.kaito, 15))

(* score_fundamental *)
AINarratives == {"AI Tokens", "AI Agents"}
Tested == AINarratives \cup {"RWA", "DePIN", "Meme", "Privacy"}

Fundamental(name, d) ==
    IF name \notin Tested THEN 10
    ELSE When(d.first, 25)
         + When(d.second, IF name \in AINarratives \cup {"DePIN"} THEN 20 ELSE 15)
         + When(name \in AINarratives, 15)

(* compute_exhaustion_score *)
Exhaustion(d) ==
      When(d.ret > 40 /\ d.volume < 0, 25)
    + When(d.social > 10 /\ d.holders < 3, 20)
    + When(d.dd < 5 /\ d.volume < 0, 20)
    + When(d.volatility > 100, 15)

(* mutant: one chain of branches, so only the first reason counts *)
RiskScoreOneReason(d) == Clamp(100
    - IF d.volatility > 100 THEN 30 ELSE IF d.volatility > 60 THEN 15
      ELSE IF Exhaustion(d) > 60 THEN 40 ELSE IF Exhaustion(d) > 30 THEN 20 ELSE 0)

(* score_risk_adjustment *)
RiskScore(d) == Clamp(100
    - When(d.volatility > 100, 30) - When(d.volatility \in 61 .. 100, 15)
    - When(Exhaustion(d) > 60, 40) - When(Exhaustion(d) \in 31 .. 60, 20))

(***************************************************************************)
(* compute_narrative_score.                                                 *)
(***************************************************************************)
RegimeName == {"RISK_ON", "TRANSITION", "RISK_OFF"}

(* _REGIME_CONVICTION_CAP *)
ConvictionCap == [RISK_ON |-> 100, TRANSITION |-> 75, RISK_OFF |-> 50]

(* mutant: the multipliers of the wrong rows *)
RegimeMultSwapped == [RISK_ON |-> 9, TRANSITION |-> 11, RISK_OFF |-> 7]

(* _REGIME_MULT, in tenths *)
RegimeMult == [RISK_ON |-> 11, TRANSITION |-> 9, RISK_OFF |-> 7]

(* the buckets by their weights, in hundredths *)
RawScore(name, d) ==
    30 * Momentum(d) + 25 * Liquidity(d) + 20 * Attention(d)
    + 15 * Fundamental(name, d) + 10 * RiskScore(d)

(* in a regime, before the cap: truncated after every multiplication *)
Adjusted(name, d, regime) ==
    LET score == (RawScore(name, d) * RegimeMult[regime]) \div 1000
    IN  IF regime = "RISK_OFF" /\ name = "Meme" THEN (score * 6) \div 10
        ELSE IF regime = "RISK_ON" /\ name \in {"AI Tokens", "DePIN"}
             THEN (score * 11) \div 10
        ELSE score

Fresh(name, d, regime) == Lesser(Adjusted(name, d, regime), ConvictionCap[regime])

(* conviction decay: ten percent for every day since the last score, from   *)
(* the second on                                                            *)
Power(base, n) ==
    LET p[i \in 0 .. n] == IF i = 0 THEN 1 ELSE base * p[i - 1] IN p[n]

Decayed(score, days) ==
    IF days > 1 THEN (score * Power(9, days)) \div Power(10, days) ELSE score

Verdict(conviction) ==
    IF conviction >= 60 THEN "STRONG_LONG"
    ELSE IF conviction >= 20 THEN "LONG"
    ELSE IF conviction >= 10 THEN "NEUTRAL"
    ELSE "AVOID"

(* global_scan: sorted() is stable, so the first of equals stays the first. *)
(* convictions is a sequence, in the order of NARRATIVE_BASKETS.            *)

(* mutant: the last of equals comes first *)
TopLast(convictions) ==
    CHOOSE n \in DOMAIN convictions : \A m \in DOMAIN convictions :
        IF m > n THEN convictions[m] < convictions[n]
                 ELSE convictions[m] <= convictions[n]

Top(convictions) ==
    CHOOSE n \in DOMAIN convictions : \A m \in DOMAIN convictions :
        IF m < n THEN convictions[m] < convictions[n]
                 ELSE convictions[m] <= convictions[n]
=============================================================================
