---------------------------- MODULE AgentProofs ----------------------------
(***************************************************************************)
(* The latch of the drawdown breaker (KillLatch of AgentProperties), proved *)
(* for every value of the constants.                                        *)
(*                                                                         *)
(* KillLatch is not inductive.  The strengthening KillInv adds why it       *)
(* holds: the recorded peak still refuses the value the breaker tripped at, *)
(* and a process that is trading has passed the breaker in this very        *)
(* evaluation, with the cash and the peak it still has.                     *)
(***************************************************************************)
EXTENDS AgentProperties, RiskProofs

Trading == {"sell", "sellSwap", "sellRow", "buy", "buySwap", "buyRow"}

LatchTypes ==
    /\ cash \in Nat /\ peak \in Nat
    /\ tripped \in Nat \cup {Never}
    /\ chain \in [Order -> Status]

TrippedValueRefused == tripped # Never => ~CircuitBreakerOk(peak, tripped)

TradingPassedBreaker ==
    step \in Trading => pc = "decide" /\ CircuitBreakerOk(peak, cash)

KillInv == LatchTypes /\ TrippedValueRefused /\ TradingPassedBreaker

(* Before anything happened nothing has tripped and nobody trades. *)
LEMMA KillInvInit == Init => KillInv
<1> SUFFICES ASSUME Init PROVE KillInv
  OBVIOUS
<1>1. chain \in [Order -> Status]
  BY DEF Init, WalletInit, Status
<1> QED
  BY <1>1 DEF Init, KillInv, LatchTypes, TrippedValueRefused,
              TradingPassedBreaker, Trading, Never

(* An order is none of the outcomes' doing: a swap that returns is no longer *)
(* pending, and no other order changes.                                      *)
LEMMA ReturnSendsNothing ==
    ASSUME chain \in [Order -> Status], NEW o, SwapReturns(o)
    PROVE  /\ chain' \in [Order -> Status]
           /\ \A p \in Order : ~Sends(p)
<1>1. PICK out \in Outcome : chain' = [chain EXCEPT ![o] = out]
  BY DEF SwapReturns
<1>2. out \in {"filled", "rejected", "unknown"}
  BY WalletAssumption
<1>3. chain' \in [Order -> Status]
  BY <1>1, <1>2 DEF Status
<1>4. ASSUME NEW p \in Order, Sends(p) PROVE FALSE
  BY <1>1, <1>2, <1>4 DEF Sends
<1> QED
  BY <1>3, <1>4

LEMMA SubmitTyped ==
    ASSUME chain \in [Order -> Status], NEW o, Submit(o)
    PROVE  chain' \in [Order -> Status]
BY DEF Submit, Status

(* a dict row has no "units": the forced sells of Phase 6 never get to swap *)
LEMMA RowsHaveNoUnits == "units" \notin RowKeys
BY DEF RowKeys

(* What an evaluation step leaves as the latch found it: only the order it  *)
(* may send, and where it is in the loops, concern the latch.               *)
LEMMA EngineKeepsLatch ==
    ASSUME KillInv, pc = "decide", EngineStep, UNCHANGED agentVars
    PROVE  KillInv'
<1> USE DEF KillInv, LatchTypes, TrippedValueRefused, TradingPassedBreaker,
            Trading, inputs, history, agentVars
<1>1. ASSUME NEW t \in Token, PassOver(t) PROVE KillInv'
  BY <1>1 DEF PassOver
<1>2. ASSUME NEW t \in Token, SendSell(t) PROVE KillInv'
  <2>1. chain' \in [Order -> Status]
    BY <1>2, SubmitTyped DEF SendSell
  <2> QED
    BY <1>2, <2>1 DEF SendSell
<1>3. ASSUME NEW t \in Token, PaperSell(t) PROVE KillInv'
  BY <1>3 DEF PaperSell
<1>4. ASSUME NEW t \in Token, SkipBuy(t) PROVE KillInv'
  BY <1>4 DEF SkipBuy
<1>5. ASSUME NEW t \in Token, Buy(t) PROVE KillInv'
  <2>1. chain' \in [Order -> Status]
    BY <1>5, SubmitTyped DEF Buy, PlaceOrder
  <2> QED
    BY <1>5, <2>1 DEF Buy, PlaceOrder
<1>6. CASE SellReturns
  <2>1. chain' \in [Order -> Status]
    BY <1>6, ReturnSendsNothing DEF SellReturns
  <2> QED
    BY <1>6, <2>1 DEF SellReturns
<1>7. CASE CloseRow
  BY <1>7 DEF CloseRow, EndEvaluation
<1>8. CASE StartBuying
  BY <1>8 DEF StartBuying, EndEvaluation
<1>9. CASE NoBuy
  BY <1>9 DEF NoBuy, EndEvaluation
<1>10. CASE BuyReturns
  <2>1. chain' \in [Order -> Status]
    BY <1>10, ReturnSendsNothing DEF BuyReturns
  <2> QED
    BY <1>10, <2>1 DEF BuyReturns
<1>11. CASE WriteRow
  BY <1>11 DEF WriteRow, EndEvaluation
<1>12. CASE BuysDone
  BY <1>12 DEF BuysDone, EndEvaluation
<1> QED
  BY <1>1, <1>2, <1>3, <1>4, <1>5, <1>6, <1>7, <1>8, <1>9, <1>10, <1>11, <1>12 DEF EngineStep

(* The guards of an evaluation: the breaker records what it refused, and    *)
(* what passes it may trade.                                                *)
LEMMA GuardsKeepLatch ==
    ASSUME KillInv, NEW s, Evaluate(s)
    PROVE  KillInv'
<1> USE DEF KillInv, LatchTypes, TrippedValueRefused, TradingPassedBreaker,
            Trading, inputs, history, agentVars, EndEvaluation
<1>1. CASE BreakerTrips(s)
  BY <1>1 DEF BreakerTrips, Evaluate
<1>2. CASE ExposureRefuses(s)
  BY <1>2 DEF ExposureRefuses, Evaluate
<1>3. CASE GuardsPass(s)
  BY <1>3 DEF GuardsPass, Evaluate
<1> QED
  BY <1>1, <1>2, <1>3 DEF Evaluate

(* Starting a process raises the peak or leaves it. *)
LEMMA StartKeepsLatch ==
    ASSUME KillInv, NEW c \in InitialCash, Start(c)
    PROVE  KillInv'
<1> USE DEF KillInv, LatchTypes, TrippedValueRefused, TradingPassedBreaker,
            Trading, history
<1>1. c \in Nat
  BY AgentAssumption
<1>2. peak' \in Nat /\ peak' >= peak
  BY <1>1 DEF Start, Greater
<1>3. TrippedValueRefused'
  <2> SUFFICES ASSUME tripped # Never PROVE ~CircuitBreakerOk(peak', tripped)
    BY DEF Start
  <2> QED
    BY <1>2, BreakerStaysTripped DEF Never
<1> QED
  BY <1>1, <1>2, <1>3 DEF Start

LEMMA KillInvStep == KillInv /\ [Next]_vars => KillInv'
<1> SUFFICES ASSUME KillInv, [Next]_vars PROVE KillInv'
  OBVIOUS
<1>1. CASE UNCHANGED vars
  BY <1>1 DEF vars, engineVars, inputs, history, agentVars, KillInv, LatchTypes,
              TrippedValueRefused, TradingPassedBreaker
<1>2. ASSUME NEW c \in InitialCash, Start(c) PROVE KillInv'
  BY <1>2, StartKeepsLatch
<1>3. ASSUME NEW s \in Signals, Evaluate(s) PROVE KillInv'
  BY <1>3, GuardsKeepLatch
<1>4. CASE EvaluationStep
  BY <1>4, EngineKeepsLatch DEF EvaluationStep
<1> USE DEF KillInv, LatchTypes, TrippedValueRefused, TradingPassedBreaker,
            Trading, engineVars, inputs, history, agentVars, EndEvaluation
<1>5. CASE RequestStop
  BY <1>5 DEF RequestStop
<1>6. CASE Wait
  BY <1>6 DEF Wait
<1>7. CASE StopSeen
  BY <1>7 DEF StopSeen
<1>8. ASSUME NEW m \in [Token -> Prices], Observe(m) PROVE KillInv'
  BY <1>8 DEF Observe
<1>9. CASE EvaluationRaises
  BY <1>9 DEF EvaluationRaises, SignalFails, RowWriteFails
<1>10. CASE EvaluationEnds
  BY <1>10 DEF EvaluationEnds
<1>11. ASSUME NEW t \in Token, ForcedRaises(t) PROVE KillInv'
  BY <1>11 DEF ForcedRaises
<1>12. ASSUME NEW t \in Token, ForcedRead(t) PROVE KillInv'
  <2>1. UNCHANGED chain
    BY <1>12, RowsHaveNoUnits DEF ForcedRead
  <2> QED
    BY <1>12, <2>1 DEF ForcedRead
<1>13. ASSUME NEW t \in Token, ForcedReturns(t) PROVE KillInv'
  <2>1. chain' \in [Order -> Status]
    BY <1>13, ReturnSendsNothing DEF ForcedReturns
  <2> QED
    BY <1>13, <2>1 DEF ForcedReturns
<1>14. ASSUME NEW t \in Token, ForcedClose(t) PROVE KillInv'
  BY <1>14 DEF ForcedClose
<1>15. CASE CycleEnds
  BY <1>15 DEF CycleEnds, CycleOver
<1>16. CASE Shutdown
  BY <1>16 DEF Shutdown, ForgetMemory
<1>17. CASE Crash
  <2>1. chain' \in [Order -> Status]
    BY <1>17 DEF Crash, WalletCrash, Status
  <2> QED
    BY <1>17, <2>1 DEF Crash, ForgetMemory
<1> QED
  BY <1>1, <1>2, <1>3, <1>4, <1>5, <1>6, <1>7, <1>8, <1>9, <1>10, <1>11, <1>12, <1>13, <1>14, <1>15, <1>16, <1>17 DEF Next, ProcessStep

(* Who sends an order is trading, hence has passed the breaker. *)
LEMMA SendersTrade ==
    ASSUME KillInv, [Next]_vars, NEW o \in Order, Sends(o)
    PROVE  step \in Trading
<1> USE DEF KillInv, LatchTypes, Sends, engineVars, inputs, history, agentVars
<1>1. chain' # chain
  OBVIOUS
<1>2. CASE EvaluationStep
  <2>1. ASSUME NEW t \in Token, SendSell(t) \/ Buy(t) PROVE step \in Trading
    BY <2>1 DEF SendSell, Buy, Trading
  <2>2. ASSUME NEW t \in Token, PassOver(t) \/ PaperSell(t) \/ SkipBuy(t) PROVE FALSE
    BY <1>1, <2>2 DEF PassOver, PaperSell, SkipBuy
  <2>3. CASE SellReturns \/ BuyReturns
    BY <2>3, ReturnSendsNothing DEF SellReturns, BuyReturns
  <2>4. CASE CloseRow \/ StartBuying \/ NoBuy \/ WriteRow \/ BuysDone
    BY <1>1, <2>4 DEF CloseRow, StartBuying, NoBuy, WriteRow, BuysDone
  <2> QED
    BY <1>2, <2>1, <2>2, <2>3, <2>4 DEF EvaluationStep, EngineStep
<1>3. ASSUME NEW s \in Signals, Evaluate(s) PROVE FALSE
  BY <1>1, <1>3 DEF Evaluate, BreakerTrips, ExposureRefuses, GuardsPass
<1>4. ASSUME NEW t \in Token, ForcedRead(t) PROVE FALSE
  BY <1>1, <1>4, RowsHaveNoUnits DEF ForcedRead
<1>5. ASSUME NEW t \in Token, ForcedReturns(t) PROVE FALSE
  BY <1>1, <1>5, ReturnSendsNothing DEF ForcedReturns
<1>6. CASE Crash
  BY <1>6 DEF Crash, WalletCrash
<1>7. ASSUME NEW t \in Token, ForcedRaises(t) \/ ForcedClose(t) PROVE FALSE
  BY <1>1, <1>7 DEF ForcedRaises, ForcedClose
<1>8. ASSUME NEW m, Observe(m) PROVE FALSE
  BY <1>1, <1>8 DEF Observe
<1>9. ASSUME NEW c, Start(c) PROVE FALSE
  BY <1>1, <1>9 DEF Start
<1>10. CASE \/ Wait \/ StopSeen \/ Shutdown \/ EvaluationRaises
            \/ EvaluationEnds \/ CycleEnds \/ RequestStop
  BY <1>1, <1>10 DEF Wait, StopSeen, Shutdown, EvaluationRaises, SignalFails,
       RowWriteFails, EvaluationEnds, CycleEnds, RequestStop
<1>11. CASE UNCHANGED vars
  BY <1>1, <1>11 DEF vars
<1> QED
  BY <1>2, <1>3, <1>4, <1>5, <1>6, <1>7, <1>8, <1>9, <1>10, <1>11
     DEF Next, ProcessStep

(* Once the breaker has tripped, no order goes out while the cash it        *)
(* tripped at has not grown, however often the process is restarted.        *)
THEOREM BreakerLatches == Spec => KillLatch
<1> DEFINE Latched == \A o \in Order :
               Sends(o) => ~(tripped # Never /\ cash <= tripped)
<1>1. KillInv /\ [Next]_vars => Latched
  <2> SUFFICES ASSUME KillInv, [Next]_vars, NEW o \in Order, Sends(o),
                      tripped # Never, cash <= tripped
               PROVE  FALSE
    OBVIOUS
  <2>1. CircuitBreakerOk(peak, cash)
    BY SendersTrade DEF KillInv, TradingPassedBreaker
  <2>2. ~CircuitBreakerOk(peak, tripped)
    BY DEF KillInv, TrippedValueRefused
  <2>3. tripped \in Nat /\ cash \in Nat /\ peak \in Nat
    BY DEF KillInv, LatchTypes
  <2> QED
    BY <2>1, <2>2, <2>3, BreakerStaysTripped
<1>2. KillInv /\ [Next]_vars => KillInv' /\ [Latched]_vars
  BY <1>1, KillInvStep
<1> QED
  BY <1>2, KillInvInit, PTL DEF Spec, KillLatch
=============================================================================
