---------------------------- MODULE RiskProofs -----------------------------
(***************************************************************************)
(* Facts about the rules of risk.py and decision.py, for every value of the *)
(* limits.                                                                  *)
(***************************************************************************)
EXTENDS Sizing, TLAPS

(* Multiplying by a percentage: the two facts about products the provers    *)
(* do not find themselves.                                                  *)
LEMMA PctOfSum ==
    ASSUME NEW d \in Pct, NEW p \in Nat, NEW q \in Nat, q >= p
    PROVE  d * q = d * p + d * (q - p) /\ d * (q - p) <= 100 * (q - p)
<1> DEFINE k == q - p
<1>1. k \in Nat /\ q = p + k
  OBVIOUS
<1>2. d \in Int /\ d <= 100
  BY DEF Pct
<1>3. d * (p + k) = d * p + d * k
  BY <1>1, <1>2
<1>4. 100 - d >= 0 /\ (100 - d) * k >= 0
  BY <1>1, <1>2
<1>5. (100 - d) * k = 100 * k - d * k
  BY <1>1, <1>2
<1> QED
  BY <1>1, <1>2, <1>3, <1>4, <1>5

(* Rounding to a hundredth of p leaves at most half of it. *)
LEMMA CentRounding ==
    ASSUME NEW p \in Nat
    PROVE  RoundDiv(p, 100) \in Nat /\ 100 * RoundDiv(p, 100) <= p + 50
BY DEF RoundDiv

(* Rounding an amount to a whole number of n: at most half an n is lost or  *)
(* gained.                                                                  *)
LEMMA ShareRounding ==
    ASSUME NEW a \in Nat, NEW n \in Nat \ {0}
    PROVE  /\ RoundDiv(a, n) \in Nat
           /\ 2 * (n * RoundDiv(a, n)) <= 2 * a + n
           /\ 2 * (n * RoundDiv(a, n)) >= 2 * a - n
<1> DEFINE top == 2 * a + n
           by == 2 * n
           q == top \div by
<1>1. top \in Nat /\ by \in Nat \ {0}
    OBVIOUS
<1>2. q \in Nat /\ by * q <= top /\ top < by * q + by
  <2> HIDE DEF top, by
  <2> QED
      BY <1>1
<1>3. by * q = 2 * (n * q)
  <2> HIDE DEF q
  <2> QED
      BY <1>2
<1> QED
    BY <1>2, <1>3 DEF RoundDiv

(* A breaker that refuses a value refuses every lower one, under every      *)
(* higher peak (risk.circuit_breaker).                                      *)
LEMMA BreakerStaysTripped ==
    ASSUME NEW peak1 \in Nat, NEW peak2 \in Nat, peak2 >= peak1,
           NEW value1 \in Nat, NEW value2 \in Nat, value2 <= value1,
           ~CircuitBreakerOk(peak1, value1)
    PROVE  ~CircuitBreakerOk(peak2, value2)
<1> DEFINE D == MaxDrawdownPct
<1>1. D \in Pct /\ D \in Nat /\ D >= 1
  BY PctAssumption DEF Pct
<1>2. peak1 > 0 /\ ~(Greater(0, peak1 - value1) * 100 < D * peak1)
  BY DEF CircuitBreakerOk
<1>3. D * peak1 \in Nat /\ D * peak1 >= 1
  BY <1>1, <1>2
<1>4. peak1 - value1 > 0 /\ (peak1 - value1) * 100 >= D * peak1
  BY <1>2, <1>3 DEF Greater
<1>5. D * peak2 <= D * peak1 + 100 * (peak2 - peak1)
  <2>1. /\ D * peak2 = D * peak1 + D * (peak2 - peak1)
        /\ D * (peak2 - peak1) <= 100 * (peak2 - peak1)
    BY <1>1, PctOfSum
  <2>2. D * (peak2 - peak1) \in Int
    BY <1>1
  <2> QED
    BY <1>3, <2>1, <2>2
<1>6. (peak2 - value2) * 100 >= (peak1 - value1) * 100 + 100 * (peak2 - peak1)
  OBVIOUS
<1>7. D * peak2 \in Nat
  BY <1>1
<1>8. peak2 - value2 > 0 /\ (peak2 - value2) * 100 >= D * peak2
  BY <1>3, <1>4, <1>5, <1>6, <1>7
<1>9. Greater(0, peak2 - value2) = peak2 - value2
  BY <1>8 DEF Greater
<1> QED
  BY <1>2, <1>7, <1>8, <1>9 DEF CircuitBreakerOk
=============================================================================
