----------------------------- MODULE LotProofs -----------------------------
(***************************************************************************)
(* What becomes of a lot between its buy order, the two books and its sell  *)
(* order (AgentProperties), proved for any tokens, baskets, prices, limits  *)
(* and number of cycles, crashes and restarts.                              *)
(*                                                                         *)
(* Staged says where the process, the loops and the trade under way can be; *)
(* LotInv adds which orders can have been sent: none of a cycle to come,    *)
(* none for the sale of a lot that is still in the dict, none for a token   *)
(* the buys of this cycle have not reached.  Every theorem below is read    *)
(* off LotInv or needs one more conjunct beside it: the agreement of the    *)
(* books and the count of errors are inductive together with LotInv, the    *)
(* cap on the spending needs how much of the basket is bought (SpendInv),   *)
(* the bound on the exposure what was invested when the cycle began to      *)
(* trade (ExposureInv).                                                     *)
(***************************************************************************)
EXTENDS AgentProofs, FiniteSetTheorems, Induction

(***************************************************************************)
(* Types.  The size of a buy is an amount, whatever the scan has found.     *)
(***************************************************************************)
(* A basket is a finite set of tokens, and not empty. *)
LEMMA BasketFacts ==
    ASSUME NEW n \in Narrative
    PROVE  Basket(n) \subseteq Token /\ Cardinality(Basket(n)) \in Nat \ {0}
<1>1. Basket(n) \subseteq Token /\ Basket(n) # {}
    BY EngineAssumption
<1>2. IsFiniteSet(Basket(n)) /\ Cardinality(Basket(n)) \in Nat
    BY <1>1, EngineAssumption, FS_Subset, FS_CardinalityType
<1>3. Cardinality(Basket(n)) # 0
    BY <1>1, <1>2, FS_EmptySet
<1> QED
    BY <1>1, <1>2, <1>3

(* Rounding a quotient gives an integer, and an amount for an amount. *)
LEMMA RoundedType ==
    ASSUME NEW a \in Int, NEW b \in Nat \ {0}
    PROVE  RoundDiv(a, b) \in Int /\ (a >= 0 => RoundDiv(a, b) \in Nat)
BY DEF RoundDiv

(* So the size of a buy and the share of a token are amounts. *)
LEMMA AmountType ==
    ASSUME cash \in Nat, signal \in Signals
    PROVE  TotalSize \in Nat /\ Amount \in Nat
<1> DEFINE conviction == signal.conviction
           cap == Regime.cap
           mult == Regime.mult
           most == Greater(cap, 1)
           scaled == Scaled(cash, mult, conviction, cap)
<1>1. conviction \in Int /\ signal.top \in Narrative /\ cap \in Nat /\ mult \in Nat
    BY AgentAssumption, EngineAssumption DEF Signals
<1>2. MaxPositionPct \in Nat /\ HeartbeatSize \in Nat
    BY PctAssumption, SizeAssumption DEF Pct
<1>3. cash * MaxPositionPct \in Nat
    BY <1>2
<1>4. Ceiling(cash) \in Nat
    BY <1>3, RoundedType DEF Ceiling
<1> HIDE DEF conviction, cap, mult
<1>5. scaled \in Int
  <2>1. most \in Nat \ {0} /\ Lesser(conviction, most) \in Int
      BY <1>1 DEF Greater, Lesser
  <2>2. 1000 * most \in Nat \ {0}
      BY <2>1
  <2>3. cash * MaxPositionPct * mult * Lesser(conviction, most) \in Int
      BY <1>1, <1>3, <2>1
  <2> QED
      BY <2>2, <2>3, RoundedType DEF Scaled
<1> HIDE DEF scaled
<1>6. Lesser(Greater(scaled, HeartbeatSize), Ceiling(cash)) \in Nat
    BY <1>2, <1>4, <1>5 DEF Lesser, Greater
<1>7. TotalSize \in Nat
    BY <1>6 DEF TotalSize, SizePosition, scaled, conviction, cap, mult
<1>8. Amount \in Nat
    BY <1>1, <1>7, BasketFacts, RoundedType DEF Amount, PerToken
<1> QED
    BY <1>7, <1>8

(***************************************************************************)
(* Where the process, the loops and the two books can be.                   *)
(***************************************************************************)
Stage ==
    /\ step # "idle" => pc = "decide"
    /\ pc \in {"observe", "decide", "force"} => cycle >= 1
    /\ pc = "off" => mem = Nothing
    /\ step \in Trading => signal \in Signals
    /\ step \in {"sell", "sellSwap", "sellRow"} => \A t \in todo : mem[t] # NoLot
    /\ step \in {"sellSwap", "sellRow"} => token \notin todo
    /\ step = "sellSwap" => mem[token] # NoLot
    /\ step = "sellRow" => mem[token] = NoLot
    /\ step \in {"buySwap", "buyRow"} => mem[token] # NoLot /\ mem[token].cycle = cycle
    /\ \A t \in Token : forced[t] \in {"swap", "close"} => pc = "force" /\ book[t] = NoLot

Staged == TypeOK /\ Stage

(* The value that stands for no lot is no lot of any cycle. *)
LEMMA NoLotIsNone ==
    /\ NoLot \in LotType /\ NoLot.cycle = 0
    /\ \A l \in LotType : l # NoLot => l.cycle \in Cycle /\ l.cost \in Nat /\ l.entry \in Nat \ {0}
    /\ \A l \in LotType : l # NoLot <=> l.cycle # 0
<1>1. \A c \in Cycle : c # 0
    BY WalletAssumption DEF Cycle
<1> QED
    BY <1>1 DEF NoLot, LotType

(* At the start everything has its type and nobody trades. *)
LEMMA StagedInit == Init => Staged
<1> SUFFICES ASSUME Init PROVE Staged
    OBVIOUS
<1> USE DEF Init
<1>1. Nothing \in [Token -> LotType] /\ NoPrices \in [Token -> Prices] /\ AnyToken \in Token
    BY NoLotIsNone, AgentAssumption, EngineAssumption DEF Nothing, NoPrices, AnyToken
<1>2. MaxCycles \in Nat
    BY WalletAssumption
<1>3. WalletTypeOK
    BY DEF WalletInit, WalletTypeOK, Status
<1>4. TypeOK
  <2>1. mem \in [Token -> LotType] /\ book \in [Token -> LotType] /\ price \in [Token -> Prices]
        /\ token \in Token
      BY <1>1
  <2>2. lastBuy \in [Token -> Cycle \cup {Never}] /\ forced \in [Token -> {"idle", "read", "swap", "close"}]
      BY DEF NoForced
  <2>3. cycle \in 0 .. MaxCycles /\ born \in 0 .. MaxCycles /\ cash \in Nat /\ peak \in Nat
        /\ spent \in Nat /\ faults \in Nat
      BY <1>2
  <2>4. /\ step = "idle" /\ signal = NoSignal /\ todo = {} /\ tripped = Never /\ torn = {}
        /\ written = {} /\ pc = "off" /\ stop = FALSE
      OBVIOUS
  <2> QED
      BY <1>3, <2>1, <2>2, <2>3, <2>4 DEF TypeOK
<1>5. Stage
    BY DEF Stage, Trading, NoForced
<1> QED
    BY <1>4, <1>5 DEF Staged

(* A swap that comes back leaves an order of the type it had. *)
LEMMA ReturnTyped ==
    ASSUME WalletTypeOK, NEW o, SwapReturns(o)
    PROVE  WalletTypeOK'
BY ReturnSendsNothing DEF WalletTypeOK

(* And so does one that is sent. *)
LEMMA SentTyped ==
    ASSUME WalletTypeOK, NEW o, Submit(o)
    PROVE  WalletTypeOK'
BY SubmitTyped DEF WalletTypeOK

(* the types of a loop's variables are those a step leaves alone, and these *)
LEMMA LotTyped ==
    ASSUME Staged, step = "buy", NEW t \in Token
    PROVE  /\ NewLot(t) \in LotType /\ NewLot(t) # NoLot /\ NewLot(t).cycle = cycle
           /\ cycle \in Cycle /\ spent + Amount \in Nat /\ Amount \in Nat
<1>1. cash \in Nat /\ signal \in Signals /\ cycle \in Cycle /\ spent \in Nat /\ price[t] \in Nat
  <2>1. step \in Trading
      BY DEF Trading
  <2>2. signal \in Signals /\ cycle >= 1
      BY <2>1 DEF Staged, Stage
  <2>3. price \in [Token -> Prices] /\ cycle \in 0 .. MaxCycles /\ cash \in Nat /\ spent \in Nat
      BY DEF Staged, TypeOK
  <2>4. cycle \in Cycle
      BY <2>2, <2>3, WalletAssumption DEF Cycle
  <2>5. price[t] \in Prices
      BY <2>3
  <2>6. price[t] \in Nat
      BY <2>5, AgentAssumption
  <2> QED
      BY <2>2, <2>3, <2>4, <2>6
<1>2. Amount \in Nat
    BY <1>1, AmountType
<1>3. EntryPrice(t) \in Nat \ {0}
    BY <1>1, EngineAssumption DEF EntryPrice
<1>4. cycle # 0
    BY <1>1, WalletAssumption DEF Cycle
<1> QED
    BY <1>1, <1>2, <1>3, <1>4 DEF NewLot, LotType, NoLot

(* One step of evaluate, which leaves the process where it is. *)
LEMMA EngineStaged ==
    ASSUME Staged, pc = "decide", EngineStep, UNCHANGED agentVars
    PROVE  Staged'
<1>1. TypeOK /\ Stage
    BY DEF Staged
<1>2. mem \in [Token -> LotType] /\ book \in [Token -> LotType] /\ NoLot \in LotType /\ WalletTypeOK
      /\ cycle >= 1 /\ todo \subseteq Token /\ token \in Token
    BY <1>1, NoLotIsNone DEF TypeOK, Stage
<1> USE DEF Trading, inputs, history, agentVars
<1>3. ASSUME NEW t \in Token, PassOver(t) \/ SkipBuy(t) PROVE Staged'
  <2>1. /\ todo' = todo \ {t} /\ step \in {"sell", "buy"}
        /\ UNCHANGED <<chain, step, mem, book, lastBuy, signal, token, inputs, history>>
      BY <1>3 DEF PassOver, SkipBuy
  <2>2. TypeOK'
      BY <1>1, <2>1 DEF TypeOK, WalletTypeOK
  <2>3. Stage'
      BY <1>1, <2>1 DEF Stage
  <2> QED
      BY <2>2, <2>3 DEF Staged
<1>4. ASSUME NEW t \in Token, SendSell(t) PROVE Staged'
  <2>1. WalletTypeOK'
      BY <1>2, <1>4, SentTyped DEF SendSell
  <2>2. TypeOK'
      BY <1>1, <1>4, <2>1 DEF TypeOK, SendSell
  <2>3. Stage'
      BY <1>1, <1>4 DEF Stage, SendSell
  <2> QED
      BY <2>2, <2>3 DEF Staged
<1>5. ASSUME NEW t \in Token, PaperSell(t) PROVE Staged'
  <2>1. mem' \in [Token -> LotType] /\ mem'[t] = NoLot /\ \A u \in Token : u # t => mem'[u] = mem[u]
      BY <1>2, <1>5 DEF PaperSell
  <2>2. TypeOK'
      BY <1>1, <1>5, <2>1 DEF TypeOK, PaperSell, WalletTypeOK
  <2>3. Stage'
      BY <1>1, <1>2, <1>5, <2>1 DEF Stage, PaperSell
  <2> QED
      BY <2>2, <2>3 DEF Staged
<1>6. ASSUME NEW t \in Token, Buy(t) PROVE Staged'
  <2>1. step = "buy" /\ NewLot(t) \in LotType /\ NewLot(t) # NoLot /\ NewLot(t).cycle = cycle
        /\ cycle \in Cycle /\ spent + Amount \in Nat
      BY <1>6, LotTyped DEF Buy
  <2>2. mem' \in [Token -> LotType] /\ mem'[t] = NewLot(t)
      BY <1>2, <1>6, <2>1 DEF Buy
  <2>3. lastBuy' \in [Token -> Cycle \cup {Never}]
      BY <1>1, <1>6, <2>1 DEF Buy, TypeOK
  <2>4. WalletTypeOK' /\ step' \in {"buySwap", "buyRow"}
    <3>1. CASE EnvLive
        BY <1>2, <1>6, <3>1, SentTyped DEF Buy, PlaceOrder
    <3>2. CASE ~EnvLive
        BY <1>2, <1>6, <3>2 DEF Buy, PlaceOrder, WalletTypeOK
    <3> QED
        BY <3>1, <3>2
  <2>5. /\ spent' = spent + Amount /\ token' = t /\ todo' = todo \ {t}
        /\ UNCHANGED <<book, signal, born, tripped, torn, written, faults, inputs>>
      BY <1>6 DEF Buy
  <2>6. TypeOK'
      BY <1>1, <2>1, <2>2, <2>3, <2>4, <2>5 DEF TypeOK
  <2>7. Stage'
      BY <1>1, <2>1, <2>2, <2>4, <2>5 DEF Stage
  <2> QED
      BY <2>6, <2>7 DEF Staged
<1>7. CASE SellReturns
  <2>1. mem' \in [Token -> LotType] /\ mem'[token] = NoLot
        /\ \A u \in Token : u # token => mem'[u] = mem[u]
      BY <1>2, <1>7 DEF SellReturns
  <2>2. WalletTypeOK'
      BY <1>2, <1>7, ReturnTyped DEF SellReturns
  <2>3. TypeOK'
      BY <1>1, <1>7, <2>1, <2>2 DEF TypeOK, SellReturns
  <2>4. Stage'
      BY <1>1, <1>2, <1>7, <2>1 DEF Stage, SellReturns
  <2> QED
      BY <2>3, <2>4 DEF Staged
<1>8. CASE CloseRow
  <2>1. book' \in [Token -> LotType] /\ \A u \in Token : book'[u] \in {book[u], NoLot}
      BY <1>2, <1>8 DEF CloseRow
  <2>2. TypeOK'
      BY <1>1, <1>8, <2>1 DEF TypeOK, CloseRow, WalletTypeOK
  <2>3. Stage'
      BY <1>1, <1>8, <2>1 DEF Stage, CloseRow
  <2> QED
      BY <2>2, <2>3 DEF Staged
<1>9. CASE StartBuying
  <2>1. step = "sell" /\ signal \in Signals
      BY <1>1, <1>9 DEF StartBuying, Stage
  <2>2. Basket(signal.top) \subseteq Token
      BY <2>1, BasketFacts DEF Signals
  <2>3. TypeOK'
      BY <1>1, <1>9, <2>2 DEF TypeOK, StartBuying, WalletTypeOK
  <2>4. Stage'
      BY <1>1, <1>9, <2>1 DEF Stage, StartBuying
  <2> QED
      BY <2>3, <2>4 DEF Staged
<1>10. CASE NoBuy \/ BuysDone
  <2>1. /\ step' = "done" /\ todo' = {}
        /\ UNCHANGED <<chain, mem, book, lastBuy, signal, token, inputs, history>>
      BY <1>10 DEF NoBuy, BuysDone, EndEvaluation
  <2>2. TypeOK'
      BY <1>1, <2>1 DEF TypeOK, WalletTypeOK
  <2>3. Stage'
      BY <1>1, <2>1 DEF Stage
  <2> QED
      BY <2>2, <2>3 DEF Staged
<1>11. CASE BuyReturns
  <2>1. WalletTypeOK'
      BY <1>2, <1>11, ReturnTyped DEF BuyReturns
  <2>2. TypeOK'
      BY <1>1, <1>11, <2>1 DEF TypeOK, BuyReturns
  <2>3. Stage'
      BY <1>1, <1>11 DEF Stage, BuyReturns
  <2> QED
      BY <2>2, <2>3 DEF Staged
<1>12. CASE WriteRow
  <2>1. mem[token] # NoLot /\ mem[token].cycle \in Cycle
      BY <1>1, <1>2, <1>12, NoLotIsNone DEF WriteRow, Stage
  <2>2. book' \in [Token -> LotType] /\ <<token, mem[token].cycle>> \in Lots
      BY <1>2, <1>12, <2>1 DEF WriteRow, Lots
  <2>3. TypeOK'
      BY <1>1, <1>12, <2>2 DEF TypeOK, WriteRow, WalletTypeOK
  <2>4. Stage'
      BY <1>1, <1>12 DEF Stage, WriteRow
  <2> QED
      BY <2>3, <2>4 DEF Staged
<1> QED
    BY <1>3, <1>4, <1>5, <1>6, <1>7, <1>8, <1>9, <1>10, <1>11, <1>12 DEF EngineStep

(* The steps of the process around evaluate. *)
LEMMA GuardsStaged ==
    ASSUME Staged, NEW s \in Signals, Evaluate(s)
    PROVE  Staged'
<1>1. TypeOK /\ Stage /\ pc = "decide" /\ UNCHANGED agentVars
    BY DEF Staged, Evaluate
<1> USE DEF Trading, inputs, history, agentVars
<1>2. CASE BreakerTrips(s)
  <2>1. /\ step' = "done" /\ todo' = {} /\ signal' = s /\ tripped' = cash
        /\ UNCHANGED <<chain, mem, book, lastBuy, token, born, spent, torn, written, faults, inputs>>
      BY <1>2 DEF BreakerTrips, EndEvaluation
  <2>2. TypeOK'
      BY <1>1, <2>1 DEF TypeOK, WalletTypeOK
  <2>3. Stage'
      BY <1>1, <2>1 DEF Stage
  <2> QED
      BY <2>2, <2>3 DEF Staged
<1>3. CASE ExposureRefuses(s)
  <2>1. /\ step' = "done" /\ todo' = {} /\ signal' = s
        /\ UNCHANGED <<chain, mem, book, lastBuy, token, inputs, history>>
      BY <1>3 DEF ExposureRefuses, EndEvaluation
  <2>2. TypeOK'
      BY <1>1, <2>1 DEF TypeOK, WalletTypeOK
  <2>3. Stage'
      BY <1>1, <2>1 DEF Stage
  <2> QED
      BY <2>2, <2>3 DEF Staged
<1>4. CASE GuardsPass(s)
  <2>1. /\ step' = "sell" /\ todo' = Held /\ signal' = s
        /\ UNCHANGED <<chain, mem, book, lastBuy, token, inputs, history>>
      BY <1>4 DEF GuardsPass
  <2>2. TypeOK'
      BY <1>1, <2>1 DEF TypeOK, WalletTypeOK, Held
  <2>3. Stage'
      BY <1>1, <2>1 DEF Stage, Held
  <2> QED
      BY <2>2, <2>3 DEF Staged
<1> QED
    BY <1>2, <1>3, <1>4 DEF Evaluate

(* What the end of a process leaves has its type. *)
LEMMA ForgottenStaged ==
    ASSUME Staged, ForgetMemory, WalletTypeOK', faults' \in Nat,
           UNCHANGED <<book, cash, peak, cycle, born, tripped, written>>
    PROVE  Staged'
<1>1. /\ mem' = Nothing /\ price' = NoPrices /\ forced' = NoForced /\ token' = AnyToken
      /\ lastBuy' = [t \in Token |-> Never] /\ pc' = "off" /\ stop' = FALSE /\ step' = "idle"
      /\ signal' = NoSignal /\ todo' = {} /\ torn' = {} /\ spent' = 0
    BY DEF ForgetMemory
<1>2. mem' \in [Token -> LotType] /\ price' \in [Token -> Prices] /\ token' \in Token
    BY <1>1, NoLotIsNone, AgentAssumption, EngineAssumption DEF Nothing, NoPrices, AnyToken
<1>3. lastBuy' \in [Token -> Cycle \cup {Never}]
      /\ forced' \in [Token -> {"idle", "read", "swap", "close"}]
      /\ \A t \in Token : forced'[t] = "idle"
    BY <1>1 DEF NoForced
<1>4. TypeOK'
    BY <1>1, <1>2, <1>3 DEF Staged, TypeOK
<1>5. Stage'
    BY <1>1, <1>3 DEF Stage, Trading
<1> QED
    BY <1>4, <1>5 DEF Staged

(* The forced sells, whose row has gone before they close it. *)
LEMMA ForcedStaged ==
    ASSUME Staged, NEW t \in Token, ForcedRaises(t) \/ ForcedRead(t) \/ ForcedReturns(t) \/ ForcedClose(t)
    PROVE  Staged'
<1>1. TypeOK /\ Stage /\ pc = "force" /\ step = "idle" /\ step \notin Trading
      /\ forced \in [Token -> {"idle", "read", "swap", "close"}]
      /\ book \in [Token -> LotType] /\ NoLot \in LotType
    BY NoLotIsNone DEF Staged, Stage, TypeOK, Trading, ForcedRaises, ForcedRead, ForcedReturns, ForcedClose
<1>2. /\ UNCHANGED <<step, mem, lastBuy, signal, todo, token, inputs, history, pc, stop>>
      /\ book' = book \/ book' = [book EXCEPT ![t] = NoLot]
      /\ WalletTypeOK'
  <2>1. CASE ForcedRaises(t)
      BY <1>1, <2>1 DEF ForcedRaises, engineVars, TypeOK, WalletTypeOK
  <2>2. CASE ForcedRead(t)
      BY <1>1, <2>2, RowsHaveNoUnits DEF ForcedRead, TypeOK, WalletTypeOK
  <2>3. CASE ForcedReturns(t)
    <3>1. WalletTypeOK'
        BY <1>1, <2>3, ReturnTyped DEF ForcedReturns, TypeOK, WalletTypeOK
    <3> QED
        BY <2>3, <3>1 DEF ForcedReturns
  <2>4. CASE ForcedClose(t)
      BY <1>1, <2>4 DEF ForcedClose, TypeOK, WalletTypeOK
  <2> QED
      BY <2>1, <2>2, <2>3, <2>4
<1>3. PICK place \in {"idle", "swap", "close"} :
          forced' = [forced EXCEPT ![t] = place] /\ (place # "idle" => book[t] = NoLot)
  <2>1. CASE ForcedRaises(t)
      BY <2>1 DEF ForcedRaises, TaskTo
  <2>2. CASE ForcedRead(t)
      BY <2>2, RowsHaveNoUnits DEF ForcedRead, TaskTo
  <2>3. CASE ForcedReturns(t)
      BY <1>1, <2>3 DEF ForcedReturns, TaskTo, Stage
  <2>4. CASE ForcedClose(t)
      BY <2>4 DEF ForcedClose, TaskTo
  <2> QED
      BY <2>1, <2>2, <2>3, <2>4
<1>4. forced' \in [Token -> {"idle", "read", "swap", "close"}] /\ book' \in [Token -> LotType]
      /\ forced'[t] = place /\ \A u \in Token : u # t => forced'[u] = forced[u] /\ book'[u] = book[u]
      /\ book'[t] \in {book[t], NoLot}
    BY <1>1, <1>2, <1>3
<1>5. TypeOK'
    BY <1>1, <1>2, <1>4 DEF TypeOK, inputs, history
<1>6. Stage'
    BY <1>1, <1>2, <1>3, <1>4 DEF Stage, Trading, inputs, history
<1> QED
    BY <1>5, <1>6 DEF Staged

(* Types and places are kept by every step. *)
LEMMA StagedStep == Staged /\ [Next]_vars => Staged'
<1> SUFFICES ASSUME Staged, [Next]_vars PROVE Staged'
    OBVIOUS
<1>1. TypeOK /\ Stage
    BY DEF Staged
<1>2. ASSUME UNCHANGED vars PROVE Staged'
  <2>1. TypeOK'
      BY <1>1, <1>2 DEF vars, engineVars, inputs, history, agentVars, TypeOK, WalletTypeOK
  <2>2. Stage'
      BY <1>1, <1>2 DEF vars, engineVars, inputs, history, agentVars, Stage
  <2> QED
      BY <2>1, <2>2 DEF Staged
<1>3. ASSUME NEW s \in Signals, Evaluate(s) PROVE Staged'
    BY <1>3, GuardsStaged
<1>4. CASE EvaluationStep
    BY <1>4, EngineStaged DEF EvaluationStep
<1>5. ASSUME NEW t \in Token, ForcedRaises(t) \/ ForcedRead(t) \/ ForcedReturns(t) \/ ForcedClose(t)
      PROVE  Staged'
    BY <1>5, ForcedStaged
<1>6. CASE Shutdown
  <2>1. WalletTypeOK' /\ faults' \in Nat
      BY <1>1, <1>6 DEF Shutdown, TypeOK, WalletTypeOK
  <2> QED
      BY <1>6, <2>1, ForgottenStaged DEF Shutdown
<1>7. CASE Crash
  <2>1. WalletTypeOK' /\ faults' \in Nat
      BY <1>1, <1>7 DEF Crash, TypeOK, WalletTypeOK, WalletCrash, Status
  <2> QED
      BY <1>7, <2>1, ForgottenStaged DEF Crash
<1> USE DEF engineVars, inputs, history, agentVars
<1>8. ASSUME NEW c \in InitialCash, Start(c) PROVE Staged'
  <2>1. c \in Nat /\ peak' \in Nat
      BY <1>1, <1>8, AgentAssumption DEF Start, Greater, TypeOK
  <2>2. TypeOK'
      BY <1>1, <1>8, <2>1 DEF Start, TypeOK, WalletTypeOK
  <2>3. Stage'
      BY <1>1, <1>8 DEF Start, Stage, Trading
  <2> QED
      BY <2>2, <2>3 DEF Staged
<1>9. CASE RequestStop \/ StopSeen
  <2>1. TypeOK'
      BY <1>1, <1>9 DEF RequestStop, StopSeen, TypeOK, WalletTypeOK
  <2>2. Stage'
      BY <1>1, <1>9 DEF RequestStop, StopSeen, Stage, Trading
  <2> QED
      BY <2>1, <2>2 DEF Staged
<1>10. CASE Wait
  <2>1. TypeOK'
      BY <1>1, <1>10, WalletAssumption DEF Wait, TypeOK, WalletTypeOK
  <2>2. cycle \in Nat
      BY <1>1, WalletAssumption DEF TypeOK
  <2>3. Stage'
      BY <1>1, <1>10, <2>2 DEF Wait, Stage, Trading
  <2> QED
      BY <2>1, <2>3 DEF Staged
<1>11. ASSUME NEW m \in [Token -> Prices], Observe(m) PROVE Staged'
  <2>1. forced' \in [Token -> {"idle", "read", "swap", "close"}]
        /\ \A t \in Token : forced'[t] \in {"idle", "read"}
      BY <1>11 DEF Observe
  <2>2. TypeOK'
      BY <1>1, <1>11, <2>1 DEF Observe, TypeOK, WalletTypeOK
  <2>3. Stage'
      BY <1>1, <1>11, <2>1 DEF Observe, Stage, Trading
  <2> QED
      BY <2>2, <2>3 DEF Staged
<1>12. CASE EvaluationRaises
  <2>1. TypeOK'
      BY <1>1, <1>12 DEF EvaluationRaises, SignalFails, RowWriteFails, EndEvaluation, TypeOK, WalletTypeOK
  <2>2. Stage'
      BY <1>1, <1>12 DEF EvaluationRaises, SignalFails, RowWriteFails, EndEvaluation, Stage, Trading
  <2> QED
      BY <2>1, <2>2 DEF Staged
<1>13. CASE EvaluationEnds
  <2>1. TypeOK'
      BY <1>1, <1>13 DEF EvaluationEnds, TypeOK, WalletTypeOK
  <2>2. Stage'
      BY <1>1, <1>13 DEF EvaluationEnds, Stage, Trading
  <2> QED
      BY <2>1, <2>2 DEF Staged
<1>14. CASE CycleEnds
  <2>1. AnyToken \in Token /\ NoPrices \in [Token -> Prices]
      BY AgentAssumption, EngineAssumption DEF AnyToken, NoPrices
  <2>2. TypeOK'
      BY <1>1, <1>14, <2>1 DEF CycleEnds, TypeOK, WalletTypeOK
  <2>3. \A t \in Token : forced[t] = "idle"
      BY <1>14 DEF CycleEnds, CycleOver, NoForced
  <2>4. Stage'
      BY <1>1, <1>14, <2>3 DEF CycleEnds, CycleOver, Stage, Trading
  <2> QED
      BY <2>2, <2>4 DEF Staged
<1> QED
    BY <1>2, <1>3, <1>4, <1>5, <1>6, <1>7, <1>8, <1>9, <1>10, <1>11, <1>12, <1>13, <1>14
       DEF Next, ProcessStep

(* Every variable of the agent keeps its type. *)
THEOREM AgentTypes == Spec => []TypeOK
<1>1. Staged => TypeOK
    BY DEF Staged
<1> QED
    BY <1>1, StagedInit, StagedStep, PTL DEF Spec

(***************************************************************************)
(* Lots and their orders.                                                   *)
(***************************************************************************)
Buying == {"buy", "buySwap", "buyRow"}

BeforeBuying ==
    pc = "observe" \/ (pc = "decide" /\ step \in {"idle", "sell", "sellSwap", "sellRow"})

(* no lot is of a cycle to come, and none is of this one before its buys *)
Dated ==
    /\ born <= cycle
    /\ \A t \in Token : /\ mem[t].cycle <= cycle /\ book[t].cycle <= cycle
                        /\ BeforeBuying => mem[t].cycle < cycle

(* no order is of a cycle to come, lots are not sold in the cycle that      *)
(* bought them, and what this cycle may still buy it has not yet bought     *)
NoSells == \A t \in Token : \A c \in Cycle : c >= cycle => chain[<<t, c, "sell">>] = "none"
NoBuys == \A t \in Token : \A c \in Cycle : c > cycle => chain[<<t, c, "buy">>] = "none"
BuysToCome ==
    \A t \in Token : \A c \in Cycle :
        c = cycle /\ (BeforeBuying \/ (step \in Buying /\ t \in todo)) =>
            chain[<<t, c, "buy">>] = "none"
Fresh == NoSells /\ NoBuys /\ BuysToCome

(* a lot of the dict has no sell order, but for the one that is on its way *)
Unsold ==
    \A t \in Token : mem[t] # NoLot /\ ~(step = "sellSwap" /\ token = t) =>
        chain[<<t, mem[t].cycle, "sell">>] = "none"

(* with live swaps a row, or one about to be written, has a buy that came back *)
CameBack(t, c) == chain[<<t, c, "buy">>] \notin {"none", "pending"}

SentBefore ==
    EnvLive =>
        /\ \A t \in Token : book[t] # NoLot => CameBack(t, book[t].cycle)
        /\ step = "buyRow" => CameBack(token, mem[token].cycle)

(* what this process has bought it remembers the time of *)
Remembered ==
    pc # "off" =>
        \A t \in Token : \A d \in Cycle :
            d > born /\ Bought(t, d) => lastBuy[t] # Never /\ lastBuy[t] >= d

LotInv == Staged /\ Dated /\ Fresh /\ Unsold /\ SentBefore /\ Remembered

(* Before anything happened there are no lots and no orders. *)
LEMMA LotInvInit == Init => LotInv
<1> SUFFICES ASSUME Init PROVE LotInv
    OBVIOUS
<1>1. Staged
    BY StagedInit
<1>2. /\ \A t \in Token : mem[t] = NoLot /\ book[t] = NoLot
      /\ \A t \in Token, c \in Cycle, s \in {"buy", "sell"} : chain[<<t, c, s>>] = "none"
      /\ pc = "off" /\ step = "idle" /\ cycle = 0 /\ born = 0
    BY DEF Init, Nothing, WalletInit, Order, Side
<1>3. Dated /\ Unsold
    BY <1>2, NoLotIsNone DEF Dated, Unsold, BeforeBuying
<1>5. Fresh
    BY <1>2 DEF Fresh, NoSells, NoBuys, BuysToCome
<1>4. SentBefore /\ Remembered
    BY <1>2 DEF SentBefore, Remembered
<1> QED
    BY <1>1, <1>3, <1>4, <1>5 DEF LotInv

(* what the types say of a lot and of its orders *)
LEMMA LotFacts ==
    ASSUME LotInv
    PROVE  /\ mem \in [Token -> LotType] /\ book \in [Token -> LotType] /\ token \in Token
           /\ todo \subseteq Token /\ chain \in [Order -> Status] /\ cycle \in Nat /\ born \in Nat
           /\ lastBuy \in [Token -> Cycle \cup {Never}]
           /\ \A t \in Token : /\ mem[t] # NoLot => mem[t].cycle \in Cycle
                               /\ book[t] # NoLot => book[t].cycle \in Cycle
           /\ \A t \in Token, c \in Cycle, s \in {"buy", "sell"} : <<t, c, s>> \in Order
           /\ Cycle \subseteq Nat
<1>1. TypeOK
    BY DEF LotInv, Staged
<1>2. cycle \in Nat /\ born \in Nat /\ Cycle \subseteq Nat
    BY <1>1, WalletAssumption DEF TypeOK, Cycle
<1>3. \A t \in Token : mem[t] \in LotType /\ book[t] \in LotType
    BY <1>1 DEF TypeOK
<1>4. \A t \in Token, c \in Cycle, s \in {"buy", "sell"} : <<t, c, s>> \in Order
    BY DEF Order, Side
<1> QED
    BY <1>1, <1>2, <1>3, <1>4, NoLotIsNone DEF TypeOK, WalletTypeOK

(* A step that only moves on in the loops or phases, never back before the  *)
(* buys and never into the middle of a trade, keeps lots and orders.        *)
LEMMA QuietLots ==
    ASSUME LotInv, Staged', UNCHANGED <<chain, mem, book, cycle, lastBuy, born>>,
           BeforeBuying' => BeforeBuying,
           \A t \in Token : step' \in Buying /\ t \in todo' =>
               BeforeBuying \/ (step \in Buying /\ t \in todo),
           step' = "buyRow" => step = "buyRow" /\ token' = token,
           step = "sellSwap" => step' = "sellSwap" /\ token' = token,
           pc' # "off" => pc # "off"
    PROVE  LotInv'
<1>1. Dated'
    BY DEF LotInv, Dated
<1>2. Fresh'
  <2>1. NoSells' /\ NoBuys'
      BY DEF LotInv, Fresh, NoSells, NoBuys
  <2>2. BuysToCome'
      BY DEF LotInv, Fresh, BuysToCome, Buying
  <2> QED
      BY <2>1, <2>2 DEF Fresh
<1>3. Unsold'
    BY DEF LotInv, Unsold
<1>4. SentBefore'
    BY DEF LotInv, SentBefore, CameBack
<1>5. Remembered'
    BY DEF LotInv, Remembered, Bought
<1> QED
    BY <1>1, <1>2, <1>3, <1>4, <1>5 DEF LotInv

(* Orders that are not sent stay so over a step that sends none of them. *)
LEMMA FreshKept ==
    ASSUME LotInv, UNCHANGED cycle, BeforeBuying' => BeforeBuying,
           \A u \in Token : step' \in Buying /\ u \in todo' =>
               BeforeBuying \/ (step \in Buying /\ u \in todo),
           \A u \in Token : \A c \in Cycle :
               c >= cycle /\ chain[<<u, c, "sell">>] = "none" => chain'[<<u, c, "sell">>] = "none",
           \A u \in Token : \A c \in Cycle :
               chain[<<u, c, "buy">>] = "none" => chain'[<<u, c, "buy">>] = "none"
    PROVE  Fresh'
<1>1. NoSells'
    BY DEF LotInv, Fresh, NoSells
<1>2. NoBuys'
    BY DEF LotInv, Fresh, NoBuys
<1>3. BuysToCome'
    BY DEF LotInv, Fresh, BuysToCome, Buying
<1> QED
    BY <1>1, <1>2, <1>3 DEF Fresh

(* A swap that comes back changes one order, and that one was pending. *)
LEMMA ReturnLots ==
    ASSUME chain \in [Order -> Status], NEW o, SwapReturns(o)
    PROVE  /\ chain[o] = "pending"
           /\ o \in Order => chain'[o] \notin {"none", "pending"}
           /\ \A p \in Order : p # o => chain'[p] = chain[p]
           /\ \A p \in Order : chain[p] = "none" => chain'[p] = "none"
           /\ \A p \in Order : chain'[p] = "pending" => chain[p] = "pending"
           /\ \A p \in Order : chain[p] \notin {"none", "pending"} =>
                                   chain'[p] \notin {"none", "pending"}
           /\ \A p \in Order : chain'[p] # "none" => chain[p] # "none"
<1>1. PICK out \in Outcome : chain' = [chain EXCEPT ![o] = out] /\ chain[o] = "pending"
    BY DEF SwapReturns
<1>2. out \notin {"none", "pending"}
    BY WalletAssumption
<1> QED
    BY <1>1, <1>2

(* The steps of evaluate that trade. *)
LEMMA SellLots ==
    ASSUME LotInv, Staged', pc = "decide", UNCHANGED agentVars, NEW t \in Token, SendSell(t)
    PROVE  LotInv' /\ chain[SellOrder(t)] = "none" /\ SellOrder(t) \in Order
<1> DEFINE o == SellOrder(t)
<1>1. /\ chain' = [chain EXCEPT ![o] = "pending"] /\ step = "sell" /\ t \in todo
      /\ step' = "sellSwap" /\ token' = t /\ todo' = todo \ {t} /\ pc' = "decide" /\ EnvLive
      /\ UNCHANGED <<mem, book, lastBuy, born, cycle>>
    BY DEF SendSell, Submit, inputs, history, agentVars
<1>2. mem[t] # NoLot /\ mem[t].cycle \in Cycle /\ mem[t].cycle < cycle /\ o \in Order
      /\ o = <<t, mem[t].cycle, "sell">>
    BY <1>1, LotFacts DEF LotInv, Staged, Stage, Dated, BeforeBuying, SellOrder
<1>3. chain[o] = "none"
    BY <1>1, <1>2 DEF LotInv, Unsold
<1>4. \A p \in Order : p # o => chain'[p] = chain[p]
    BY <1>1, LotFacts
<1> HIDE DEF o
<1>5. \A u \in Token : \A c \in Cycle : <<u, c, "buy">> # o
    BY <1>2
<1>6. \A u \in Token : \A c \in Cycle : u # t \/ c # mem[t].cycle =>
          <<u, c, "sell">> # o
    BY <1>2
<1>7. Dated'
    BY <1>1 DEF LotInv, Dated, BeforeBuying
<1>8. Fresh'
  <2>1. \A u \in Token : \A c \in Cycle :
            c >= cycle => chain'[<<u, c, "sell">>] = chain[<<u, c, "sell">>]
    <3>1. cycle \in Nat /\ mem[t].cycle \in Nat /\ Cycle \subseteq Nat
        BY <1>2, LotFacts
    <3>2. \A c \in Cycle : c >= cycle => c # mem[t].cycle
        BY <1>2, <3>1
    <3> QED
        BY <1>4, <1>6, <3>2, LotFacts
  <2>2. ASSUME NEW u \in Token PROVE \A c \in Cycle : chain'[<<u, c, "buy">>] = chain[<<u, c, "buy">>]
      BY <1>4, <1>5, LotFacts
  <2>3. ~(step' \in Buying) /\ (BeforeBuying' => BeforeBuying)
      BY <1>1 DEF Buying, BeforeBuying
  <2> QED
      BY <1>1, <2>1, <2>2, <2>3, FreshKept
<1>9. Unsold'
    BY <1>1, <1>4, <1>6, LotFacts DEF LotInv, Unsold
<1>10. SentBefore'
    BY <1>1, <1>4, <1>5, LotFacts DEF LotInv, SentBefore, CameBack
<1>11. Remembered'
    BY <1>1, <1>4, <1>5 DEF LotInv, Remembered, Bought
<1> QED
    BY <1>2, <1>3, <1>7, <1>8, <1>9, <1>10, <1>11 DEF LotInv, o

(* A buy order is the first for its token and its cycle. *)
LEMMA BuyLots ==
    ASSUME LotInv, Staged', pc = "decide", UNCHANGED agentVars, NEW t \in Token, Buy(t)
    PROVE  LotInv' /\ chain[<<t, cycle, "buy">>] = "none" /\ cycle \in Cycle
<1> DEFINE o == <<t, cycle, "buy">>
<1>1. /\ step = "buy" /\ t \in todo
      /\ token' = t /\ todo' = todo \ {t} /\ pc' = "decide"
      /\ mem' = [mem EXCEPT ![t] = NewLot(t)] /\ lastBuy' = [lastBuy EXCEPT ![t] = cycle]
      /\ UNCHANGED <<book, born, cycle>>
    BY DEF Buy, inputs, history, agentVars
<1>2. NewLot(t) # NoLot /\ NewLot(t).cycle = cycle /\ cycle \in Cycle /\ o \in Order
    BY <1>1, LotTyped, LotFacts DEF LotInv
<1>3. chain[o] = "none"
    BY <1>1, <1>2 DEF LotInv, Fresh, NoSells, NoBuys, BuysToCome, Buying
<1>4. /\ step' \in {"buySwap", "buyRow"} /\ (EnvLive => step' = "buySwap")
      /\ \A p \in Order : p # o => chain'[p] = chain[p]
  <2>1. CASE EnvLive
      BY <2>1, LotFacts DEF Buy, PlaceOrder, Submit
  <2>2. CASE ~EnvLive
      BY <2>2 DEF Buy, PlaceOrder
  <2> QED
      BY <2>1, <2>2
<1>5. /\ mem'[t].cycle = cycle /\ lastBuy'[t] = cycle
      /\ \A u \in Token : u # t => mem'[u] = mem[u] /\ lastBuy'[u] = lastBuy[u]
    BY <1>1, <1>2, LotFacts
<1> HIDE DEF o
<1>6. \A u \in Token : \A c \in Cycle : <<u, c, "sell">> # o
    BY DEF o
<1>7. \A u \in Token : \A c \in Cycle : u # t \/ c # cycle =>
          <<u, c, "buy">> # o
    BY DEF o
<1>8. cycle \in Nat /\ Cycle \subseteq Nat
    BY LotFacts
<1>9. Dated'
    BY <1>1, <1>4, <1>5, <1>8 DEF LotInv, Dated, BeforeBuying
<1>10. Fresh'
  <2>1. NoSells'
      BY <1>1, <1>4, <1>6, LotFacts DEF LotInv, Fresh, NoSells
  <2>2. NoBuys'
    <3>1. \A c \in Cycle : c > cycle => c # cycle
        BY <1>8
    <3> QED
        BY <1>1, <1>4, <1>7, <3>1, LotFacts DEF LotInv, Fresh, NoBuys
  <2>3. BuysToCome'
    <3>1. \A u \in Token : u \in todo' => u # t /\ u \in todo
        BY <1>1
    <3>2. step \in Buying /\ ~BeforeBuying'
        BY <1>1, <1>4 DEF Buying, BeforeBuying
    <3> QED
        BY <1>1, <1>4, <1>7, <3>1, <3>2, LotFacts DEF LotInv, Fresh, BuysToCome
  <2> QED
      BY <2>1, <2>2, <2>3 DEF Fresh
<1>11. Unsold'
  <2> SUFFICES ASSUME NEW u \in Token, mem'[u] # NoLot
               PROVE  chain'[<<u, mem'[u].cycle, "sell">>] = "none"
      BY <1>4 DEF Unsold
  <2>1. CASE u = t
    <3>1. mem'[u].cycle = cycle /\ cycle >= cycle
        BY <1>5, <1>8, <2>1
    <3>2. chain[<<u, cycle, "sell">>] = "none"
        BY <1>2, <3>1 DEF LotInv, Fresh, NoSells, NoBuys, BuysToCome
    <3> QED
        BY <1>2, <1>4, <1>6, <3>1, <3>2, LotFacts
  <2>2. CASE u # t
      BY <1>1, <1>4, <1>5, <1>6, <2>2, LotFacts DEF LotInv, Unsold
  <2> QED
      BY <2>1, <2>2
<1>12. SentBefore'
  <2> SUFFICES ASSUME EnvLive, NEW u \in Token, book[u] # NoLot
               PROVE  CameBack(u, book[u].cycle)'
      BY <1>1, <1>4 DEF SentBefore, CameBack
  <2>1. CameBack(u, book[u].cycle) /\ book[u].cycle \in Cycle
      BY LotFacts DEF LotInv, SentBefore
  <2>2. <<u, book[u].cycle, "buy">> # o
      BY <1>3, <2>1 DEF CameBack
  <2>3. <<u, book[u].cycle, "buy">> \in Order
      BY <2>1, LotFacts
  <2> QED
      BY <1>1, <1>4, <2>1, <2>2, <2>3 DEF CameBack
<1>13. Remembered'
  <2> SUFFICES ASSUME NEW u \in Token, NEW d \in Cycle, d > born, Bought(u, d)'
               PROVE  lastBuy'[u] # Never /\ lastBuy'[u] >= d
      BY <1>1 DEF Remembered
  <2>1. CASE u = t /\ d = cycle
      BY <1>2, <1>5, <1>8, <2>1 DEF Never
  <2>2. CASE u # t \/ d # cycle
    <3>1. Bought(u, d)
        BY <1>4, <1>7, <2>2, LotFacts DEF Bought
    <3>2. lastBuy[u] # Never /\ lastBuy[u] >= d
        BY <3>1 DEF LotInv, Remembered
    <3>3. d <= cycle
      <4>1. ~(d > cycle)
          BY <3>1 DEF LotInv, Fresh, NoSells, NoBuys, BuysToCome, Bought
      <4> QED
          BY <1>8, <4>1
    <3> QED
        BY <1>2, <1>5, <1>8, <3>2, <3>3 DEF Never
  <2> QED
      BY <2>1, <2>2
<1> QED
    BY <1>2, <1>3, <1>9, <1>10, <1>11, <1>12, <1>13 DEF LotInv, o

(* A swap that is back: a sold lot is out of the dict. *)
LEMMA BackLots ==
    ASSUME LotInv, Staged', pc = "decide", UNCHANGED agentVars, SellReturns \/ BuyReturns
    PROVE  LotInv'
<1>1. /\ UNCHANGED <<book, lastBuy, born, cycle, token, todo>> /\ pc' = "decide"
      /\ \/ step = "sellSwap" /\ step' = "sellRow" /\ mem' = [mem EXCEPT ![token] = NoLot]
         \/ step = "buySwap" /\ step' = "buyRow" /\ mem' = mem
    BY DEF SellReturns, BuyReturns, inputs, history, agentVars
<1>2. /\ \A p \in Order : chain[p] = "none" => chain'[p] = "none"
      /\ \A p \in Order : chain[p] \notin {"none", "pending"} => chain'[p] \notin {"none", "pending"}
      /\ \A p \in Order : chain'[p] # "none" => chain[p] # "none"
    BY ReturnLots, LotFacts DEF SellReturns, BuyReturns
<1>3. \A u \in Token : mem'[u] = mem[u] \/ (mem'[u] = NoLot /\ u = token /\ step = "sellSwap")
    BY <1>1, LotFacts
<1>4. step = "sellSwap" => mem'[token] = NoLot
    BY <1>1, LotFacts
<1>5. Dated'
    BY <1>1, <1>3, NoLotIsNone, LotFacts DEF LotInv, Dated, BeforeBuying
<1>6. Fresh'
  <2>1. BeforeBuying' => BeforeBuying
      BY <1>1 DEF BeforeBuying
  <2>2. step' \in Buying => step \in Buying
      BY <1>1 DEF Buying
  <2> QED
      BY <1>1, <1>2, <2>1, <2>2, LotFacts, FreshKept
<1>7. Unsold'
    BY <1>1, <1>2, <1>3, <1>4, LotFacts DEF LotInv, Unsold
<1>8. SentBefore'
  <2>1. EnvLive /\ step' = "buyRow" => CameBack(token, mem[token].cycle)'
    <3> SUFFICES ASSUME step' = "buyRow"
                 PROVE  chain'[BuyOrder(token)] \notin {"none", "pending"}
        BY <1>1 DEF CameBack, BuyOrder
    <3>1. step = "buySwap" /\ SwapReturns(BuyOrder(token))
        BY <1>1 DEF SellReturns, BuyReturns
    <3>2. BuyOrder(token) \in Order
        BY <3>1, LotFacts DEF BuyOrder, LotInv, Staged, Stage
    <3> QED
        BY <3>1, <3>2, ReturnLots, LotFacts
  <2>2. EnvLive => \A t \in Token : book'[t] # NoLot => CameBack(t, book[t].cycle)'
      BY <1>1, <1>2, LotFacts DEF LotInv, SentBefore, CameBack
  <2> QED
      BY <1>1, <2>1, <2>2 DEF SentBefore
<1>9. Remembered'
    BY <1>1, <1>2, LotFacts DEF LotInv, Remembered, Bought
<1> QED
    BY <1>5, <1>6, <1>7, <1>8, <1>9 DEF LotInv

(* The writes of the table, and the sells on paper. *)
LEMMA RowLots ==
    ASSUME LotInv, Staged', pc = "decide", UNCHANGED agentVars,
           CloseRow \/ WriteRow \/ (\E t \in Token : PaperSell(t))
    PROVE  LotInv'
<1>1. /\ UNCHANGED <<chain, lastBuy, born, cycle>> /\ pc' = "decide"
      /\ step \in {"sellRow", "buyRow", "sell"} /\ step' \in {"sell", "buy", "sellRow"}
      /\ step' = "buy" => step = "buyRow"
      /\ todo' \subseteq todo
    BY DEF CloseRow, WriteRow, PaperSell, inputs, history, agentVars
<1>2. \A u \in Token : mem'[u] \in {mem[u], NoLot}
    BY LotFacts DEF CloseRow, WriteRow, PaperSell
<1>3. \A u \in Token : \/ book'[u] \in {book[u], NoLot}
                       \/ book'[u] = mem[u] /\ u = token /\ step = "buyRow"
    BY LotFacts DEF CloseRow, WriteRow, PaperSell
<1>4. NoLot.cycle = 0 /\ cycle \in Nat /\ (BeforeBuying => cycle >= 1)
  <2>1. pc \in {"observe", "decide"} => cycle >= 1
      BY DEF LotInv, Staged, Stage
  <2> QED
      BY <2>1, NoLotIsNone, LotFacts DEF BeforeBuying
<1>5. BeforeBuying' => BeforeBuying
  <2>1. pc = "decide" /\ step \in {"sellRow", "buyRow", "sell"} /\ pc' = "decide"
      BY <1>1
  <2>2. step = "buyRow" => step' = "buy"
      BY <1>1 DEF CloseRow, WriteRow, PaperSell
  <2> QED
      BY <2>1, <2>2 DEF BeforeBuying
<1>6. Dated'
    BY <1>1, <1>2, <1>3, <1>4, <1>5 DEF LotInv, Dated
<1>7. Fresh'
  <2>1. step' \in Buying => step \in Buying
      BY <1>1 DEF Buying
  <2> QED
      BY <1>1, <1>5, <2>1, FreshKept
<1>8. Unsold'
    BY <1>1, <1>2 DEF LotInv, Unsold
<1>9. SentBefore'
    BY <1>1, <1>3 DEF LotInv, SentBefore, CameBack
<1>10. Remembered'
    BY <1>1 DEF LotInv, Remembered, Bought, agentVars
<1> QED
    BY <1>6, <1>7, <1>8, <1>9, <1>10 DEF LotInv

(* What evaluate does without trading: it passes over tokens, goes on to    *)
(* the next loop or gives up.                                               *)
LEMMA LoopLots ==
    ASSUME LotInv, Staged', pc = "decide", UNCHANGED agentVars,
           \/ \E t \in Token : PassOver(t) \/ SkipBuy(t)
           \/ StartBuying \/ NoBuy \/ BuysDone \/ SignalFails \/ RowWriteFails
           \/ \E s \in Signals : BreakerTrips(s) \/ ExposureRefuses(s) \/ GuardsPass(s)
    PROVE  LotInv'
<1> USE DEF inputs, history, agentVars
<1>1. UNCHANGED <<chain, mem, book, cycle, lastBuy, born, token>> /\ pc' = "decide"
    BY DEF PassOver, SkipBuy, StartBuying, NoBuy, BuysDone, SignalFails, RowWriteFails,
           BreakerTrips, ExposureRefuses, GuardsPass
<1>2. \/ step' = step /\ step \in {"sell", "buy"} /\ todo' \subseteq todo
      \/ step = "sell" /\ step' = "buy"
      \/ step' = "done"
      \/ step = "idle" /\ step' = "sell"
    BY DEF PassOver, SkipBuy, StartBuying, NoBuy, BuysDone, SignalFails, RowWriteFails,
           BreakerTrips, ExposureRefuses, GuardsPass, EndEvaluation
<1>3. step # "sellSwap"
    BY DEF PassOver, SkipBuy, StartBuying, NoBuy, BuysDone, SignalFails, RowWriteFails,
           BreakerTrips, ExposureRefuses, GuardsPass
<1>4. BeforeBuying' => BeforeBuying
    BY <1>1, <1>2 DEF BeforeBuying
<1>5. ASSUME NEW t \in Token, step' \in Buying, t \in todo'
      PROVE  BeforeBuying \/ (step \in Buying /\ t \in todo)
    BY <1>1, <1>2, <1>5 DEF BeforeBuying, Buying
<1> QED
    BY <1>1, <1>2, <1>3, <1>4, <1>5, QuietLots

(* The end of a process keeps its orders, none of them pending any more. *)
LEMMA ForgetLots ==
    ASSUME LotInv, Staged', Shutdown \/ Crash
    PROVE  LotInv'
<1>1. /\ UNCHANGED <<book, cycle, born>> /\ pc' = "off" /\ step' = "idle"
      /\ \A t \in Token : mem'[t] = NoLot
    BY DEF Shutdown, Crash, ForgetMemory, Nothing
<1>2. /\ \A p \in Order : chain[p] = "none" => chain'[p] = "none"
      /\ \A p \in Order : chain[p] \notin {"none", "pending"} => chain'[p] \notin {"none", "pending"}
    BY DEF Shutdown, Crash, WalletCrash
<1>3. NoLot.cycle = 0 /\ cycle \in Nat /\ ~BeforeBuying' /\ step' \notin Buying
    BY <1>1, NoLotIsNone, LotFacts DEF BeforeBuying, Buying
<1>4. Dated'
    BY <1>1, <1>3 DEF LotInv, Dated
<1>5. Fresh'
    BY <1>1, <1>2, <1>3, LotFacts, FreshKept
<1>6. Unsold'
    BY <1>1 DEF Unsold
<1>7. SentBefore'
    BY <1>1, <1>2, LotFacts DEF LotInv, SentBefore, CameBack
<1>8. Remembered'
    BY <1>1 DEF Remembered
<1> QED
    BY <1>4, <1>5, <1>6, <1>7, <1>8 DEF LotInv

(* A new cycle, or a new process, finds no order of its own. *)
LEMMA BeginLots ==
    ASSUME LotInv, Staged', Wait \/ (\E c \in InitialCash : Start(c))
    PROVE  LotInv'
<1> USE DEF inputs, history
<1>1. UNCHANGED <<chain, mem, book, lastBuy, step, token, todo>>
    BY DEF Wait, Start
<1>2. \/ cycle' = cycle + 1 /\ born' = born /\ pc = "wait"
      \/ cycle' = cycle /\ born' = cycle /\ pc' = "wait"
    BY DEF Wait, Start
<1>3. step = "idle" /\ step \notin Buying
  <2>1. pc # "decide"
      BY DEF Wait, Start
  <2> QED
      BY <2>1 DEF LotInv, Staged, Stage, Buying
<1>4. cycle \in Nat /\ born \in Nat /\ born <= cycle /\ Cycle \subseteq Nat
    BY LotFacts DEF LotInv, Dated
<1>5. \A t \in Token : mem[t].cycle <= cycle /\ book[t].cycle <= cycle
                       /\ mem[t].cycle \in Nat /\ book[t].cycle \in Nat
  <2>1. \A t \in Token : mem[t].cycle <= cycle /\ book[t].cycle <= cycle
      BY DEF LotInv, Dated
  <2>2. \A t \in Token : mem[t].cycle \in Nat /\ book[t].cycle \in Nat
    <3>1. \A t \in Token : /\ mem[t] # NoLot => mem[t].cycle \in Nat
                           /\ book[t] # NoLot => book[t].cycle \in Nat
        BY <1>4, LotFacts
    <3>2. NoLot.cycle \in Nat
        BY NoLotIsNone
    <3> QED
        BY <3>1, <3>2
  <2> QED
      BY <2>1, <2>2
<1>6. cycle' = cycle => ~BeforeBuying'
    BY <1>1, <1>2, <1>3, <1>4 DEF BeforeBuying
<1>7. Dated'
  <2>1. CASE cycle' = cycle + 1
    <3>1. \A t \in Token : mem[t].cycle < cycle + 1 /\ mem[t].cycle <= cycle + 1
                           /\ book[t].cycle <= cycle + 1
        BY <1>4, <1>5
    <3>2. born' <= cycle'
        BY <1>2, <1>4, <2>1
    <3> QED
        BY <1>1, <2>1, <3>1, <3>2 DEF Dated
  <2>2. CASE cycle' = cycle
    <3>1. born' <= cycle'
        BY <1>2, <1>4, <2>2
    <3> QED
        BY <1>1, <1>5, <1>6, <2>2, <3>1 DEF Dated
  <2> QED
      BY <1>2, <2>1, <2>2
<1>8. Fresh'
  <2>1. \A c \in Cycle : /\ c >= cycle' => c >= cycle
                         /\ c > cycle' => c > cycle
                         /\ c = cycle' => c > cycle \/ cycle' = cycle
      BY <1>2, <1>4
  <2>2. NoSells'
      BY <1>1, <2>1 DEF LotInv, Fresh, NoSells
  <2>3. NoBuys'
      BY <1>1, <2>1 DEF LotInv, Fresh, NoBuys
  <2>4. BuysToCome'
      BY <1>1, <1>3, <1>6, <2>1 DEF LotInv, Fresh, NoBuys, BuysToCome, Buying
  <2> QED
      BY <2>2, <2>3, <2>4 DEF Fresh
<1>9. Unsold'
    BY <1>1 DEF LotInv, Unsold
<1>10. SentBefore'
    BY <1>1 DEF LotInv, SentBefore, CameBack
<1>11. Remembered'
  <2>1. CASE born' = born /\ pc = "wait"
      BY <1>1, <2>1 DEF LotInv, Remembered, Bought
  <2>2. CASE born' = cycle
      BY <1>1, <2>2 DEF LotInv, Fresh, NoBuys, Remembered, Bought
  <2> QED
      BY <1>2, <2>1, <2>2
<1> QED
    BY <1>7, <1>8, <1>9, <1>10, <1>11 DEF LotInv

(* The forced sells do nothing to lots and orders: only rows that are gone  *)
(* get past the missing key.                                                *)
LEMMA ForcedLots ==
    ASSUME LotInv, Staged', NEW t \in Token,
           ForcedRaises(t) \/ ForcedRead(t) \/ ForcedReturns(t) \/ ForcedClose(t)
    PROVE  LotInv' /\ chain' = chain /\ book' = book
<1>1. /\ UNCHANGED <<step, mem, lastBuy, todo, token, cycle, born, pc>> /\ pc = "force"
    BY DEF ForcedRaises, ForcedRead, ForcedReturns, ForcedClose, inputs, history, engineVars
<1>2. forced[t] \in {"swap", "close"} => book[t] = NoLot
    BY DEF LotInv, Staged, Stage
<1>3. UNCHANGED <<chain, book>>
  <2>1. CASE ForcedRaises(t)
      BY <2>1 DEF ForcedRaises, engineVars
  <2>2. CASE ForcedRead(t)
      BY <2>2, RowsHaveNoUnits DEF ForcedRead
  <2>3. CASE ForcedReturns(t)
      BY <1>2, <2>3 DEF ForcedReturns
  <2>4. CASE ForcedClose(t)
      BY <1>2, <2>4, LotFacts DEF ForcedClose
  <2> QED
      BY <2>1, <2>2, <2>3, <2>4
<1>4. BeforeBuying' => BeforeBuying
    BY <1>1 DEF BeforeBuying
<1> QED
    BY <1>1, <1>3, <1>4, QuietLots

(* Nor does the rest of the process: it moves from phase to phase. *)
LEMMA PhaseLots ==
    ASSUME LotInv, Staged',
           \/ \E m \in [Token -> Prices] : Observe(m)
           \/ EvaluationEnds \/ CycleEnds \/ StopSeen \/ RequestStop \/ UNCHANGED vars
    PROVE  LotInv'
<1> USE DEF inputs, history, agentVars, engineVars
<1>1. UNCHANGED <<chain, mem, book, cycle, lastBuy, born, todo>>
    BY DEF Observe, EvaluationEnds, CycleEnds, StopSeen, RequestStop, vars
<1>2. \/ step' = step /\ pc' = pc /\ token' = token
      \/ step' = "idle" /\ step \in {"idle", "done"} /\ pc' # "off" /\ pc # "off"
         /\ (pc' \in {"observe", "decide"} => pc = "observe")
  <2>1. pc # "decide" => step = "idle"
      BY DEF LotInv, Staged, Stage
  <2> QED
      BY <2>1 DEF Observe, EvaluationEnds, CycleEnds, CycleOver, StopSeen, RequestStop, vars
<1>3. BeforeBuying' => BeforeBuying
    BY <1>2 DEF BeforeBuying
<1>4. step' \in Buying => step \in Buying
    BY <1>2 DEF Buying
<1> QED
    BY <1>1, <1>2, <1>3, <1>4, QuietLots

(* Every step keeps lots and orders together. *)
LEMMA LotInvStep == LotInv /\ [Next]_vars => LotInv'
<1> SUFFICES ASSUME LotInv, [Next]_vars PROVE LotInv'
    OBVIOUS
<1>1. Staged'
    BY StagedStep DEF LotInv
<1>2. CASE EvaluationStep
  <2>1. pc = "decide" /\ UNCHANGED agentVars /\ EngineStep
      BY <1>2 DEF EvaluationStep
  <2> QED
      BY <1>1, <2>1, SellLots, BuyLots, BackLots, RowLots, LoopLots DEF EngineStep
<1>3. ASSUME NEW s \in Signals, Evaluate(s) PROVE LotInv'
    BY <1>1, <1>3, LoopLots DEF Evaluate
<1>4. CASE EvaluationRaises
    BY <1>1, <1>4, LoopLots DEF EvaluationRaises
<1>5. CASE Shutdown \/ Crash
    BY <1>1, <1>5, ForgetLots
<1>6. CASE Wait \/ \E c \in InitialCash : Start(c)
    BY <1>1, <1>6, BeginLots
<1>7. ASSUME NEW t \in Token, ForcedRaises(t) \/ ForcedRead(t) \/ ForcedReturns(t) \/ ForcedClose(t)
      PROVE  LotInv'
    BY <1>1, <1>7, ForcedLots
<1>8. CASE \/ \E m \in [Token -> Prices] : Observe(m)
           \/ EvaluationEnds \/ CycleEnds \/ StopSeen \/ RequestStop \/ UNCHANGED vars
    BY <1>1, <1>8, PhaseLots
<1> QED
    BY <1>2, <1>3, <1>4, <1>5, <1>6, <1>7, <1>8 DEF Next, ProcessStep

(***************************************************************************)
(* What follows for the orders.                                             *)
(***************************************************************************)
(* Only evaluate sends orders, in its two loops. *)
LEMMA WhoSends ==
    ASSUME LotInv, [Next]_vars, NEW o \in Order, chain[o] # "pending", chain'[o] = "pending"
    PROVE  /\ pc = "decide" /\ UNCHANGED agentVars
           /\ \E t \in Token : \/ SendSell(t) /\ o = SellOrder(t)
                               \/ Buy(t) /\ o = <<t, cycle, "buy">>
<1> USE DEF engineVars, inputs, history, agentVars
<1>1. chain' # chain /\ chain \in [Order -> Status]
    BY LotFacts
<1>2. CASE EvaluationStep
  <2>1. pc = "decide" /\ UNCHANGED agentVars /\ EngineStep
      BY <1>2 DEF EvaluationStep
  <2>2. ASSUME NEW t \in Token, SendSell(t) PROVE o = SellOrder(t)
    <3>1. chain' = [chain EXCEPT ![SellOrder(t)] = "pending"]
        BY <2>2 DEF SendSell, Submit
    <3> QED
        BY <1>1, <3>1
  <2>3. ASSUME NEW t \in Token, Buy(t) PROVE o = <<t, cycle, "buy">>
    <3>1. chain' = [chain EXCEPT ![<<t, cycle, "buy">>] = "pending"]
        BY <1>1, <2>3 DEF Buy, PlaceOrder, Submit
    <3> QED
        BY <1>1, <3>1
  <2>4. ASSUME NEW t \in Token, PassOver(t) \/ PaperSell(t) \/ SkipBuy(t) PROVE FALSE
      BY <1>1, <2>4 DEF PassOver, PaperSell, SkipBuy
  <2>5. CASE SellReturns \/ BuyReturns
      BY <1>1, <2>5, ReturnLots DEF SellReturns, BuyReturns
  <2>6. CASE CloseRow \/ StartBuying \/ NoBuy \/ WriteRow \/ BuysDone
      BY <1>1, <2>6 DEF CloseRow, StartBuying, NoBuy, WriteRow, BuysDone
  <2> QED
      BY <2>1, <2>2, <2>3, <2>4, <2>5, <2>6 DEF EngineStep
<1>3. ASSUME NEW s \in Signals, Evaluate(s) PROVE FALSE
    BY <1>1, <1>3 DEF Evaluate, BreakerTrips, ExposureRefuses, GuardsPass
<1>4. ASSUME NEW t \in Token, ForcedRaises(t) \/ ForcedRead(t) \/ ForcedReturns(t) \/ ForcedClose(t)
      PROVE  FALSE
  <2>1. Staged'
      BY StagedStep DEF LotInv
  <2> QED
      BY <1>1, <1>4, <2>1, ForcedLots
<1>5. CASE Crash
    BY <1>5 DEF Crash, WalletCrash
<1>6. ASSUME NEW m, Observe(m) PROVE FALSE
    BY <1>1, <1>6 DEF Observe
<1>7. ASSUME NEW c, Start(c) PROVE FALSE
    BY <1>1, <1>7 DEF Start
<1>8. CASE \/ Wait \/ StopSeen \/ Shutdown \/ EvaluationRaises
           \/ EvaluationEnds \/ CycleEnds \/ RequestStop \/ UNCHANGED vars
    BY <1>1, <1>8 DEF Wait, StopSeen, Shutdown, EvaluationRaises, SignalFails,
         RowWriteFails, EvaluationEnds, CycleEnds, RequestStop, vars
<1> QED
    BY <1>2, <1>3, <1>4, <1>5, <1>6, <1>7, <1>8 DEF Next, ProcessStep

(* No order is ever sent twice: a swap whose answer was lost or timed out   *)
(* is not repeated, in this process or in a later one.                      *)
THEOREM OrdersSentOnce == Spec => SoldOnce
<1> DEFINE Once == \A o \in Order : chain'[o] = "pending" => chain[o] \in {"none", "pending"}
<1>1. LotInv /\ [Next]_vars => Once
  <2> SUFFICES ASSUME LotInv, [Next]_vars, NEW o \in Order,
                      chain[o] # "pending", chain'[o] = "pending"
               PROVE  chain[o] = "none"
      OBVIOUS
  <2>1. PICK t \in Token : \/ SendSell(t) /\ o = SellOrder(t)
                           \/ Buy(t) /\ o = <<t, cycle, "buy">>
      BY WhoSends
  <2>2. pc = "decide" /\ UNCHANGED agentVars /\ Staged'
      BY WhoSends, StagedStep DEF LotInv
  <2> QED
      BY <2>1, <2>2, SellLots, BuyLots
<1>2. LotInv /\ [Next]_vars => LotInv' /\ [Once]_vars
    BY <1>1, LotInvStep
<1> QED
    BY <1>2, LotInvInit, PTL DEF Spec, SoldOnce

(* A position whose price is missing is never sold: zero times the units it *)
(* holds is below the floor of the pre-trade check.                         *)
THEOREM UnpricedIsHeld == Spec => HoldWhenUnpriced
<1> DEFINE Priced == \A t \in Token, c \in Cycle : Sends(<<t, c, "sell">>) => price[t] > 0
<1>1. LotInv /\ [Next]_vars => Priced
  <2> SUFFICES ASSUME LotInv, [Next]_vars, NEW t \in Token, NEW c \in Cycle,
                      Sends(<<t, c, "sell">>)
               PROVE  price[t] > 0
      OBVIOUS
  <2>1. <<t, c, "sell">> \in Order
      BY DEF Order, Side
  <2>2. PICK u \in Token : \/ SendSell(u) /\ <<t, c, "sell">> = SellOrder(u)
                           \/ Buy(u) /\ <<t, c, "sell">> = <<u, cycle, "buy">>
      BY <2>1, WhoSends DEF Sends
  <2>3. SendSell(u) /\ u = t
      BY <2>2 DEF SellOrder
  <2>4. ~TooSmall(t) /\ t \in todo /\ step = "sell"
      BY <2>3 DEF SendSell, Sellable
  <2>5. mem[t] # NoLot /\ mem[t] \in LotType
      BY <2>4, LotFacts DEF LotInv, Staged, Stage
  <2>6. mem[t].cost \in Nat /\ mem[t].entry \in Nat \ {0}
      BY <2>5, NoLotIsNone
  <2>7. price[t] \in Nat
    <3>1. price \in [Token -> Prices]
        BY DEF LotInv, Staged, TypeOK
    <3> QED
        BY <3>1, AgentAssumption
  <2>8. ASSUME price[t] = 0 PROVE FALSE
    <3>1. Value(mem[t], price[t]) = 0
        BY <2>6, <2>8 DEF Value
    <3> QED
        BY <2>4, <3>1, SizeAssumption DEF TooSmall
  <2> QED
      BY <2>7, <2>8
<1>2. LotInv /\ [Next]_vars => LotInv' /\ [Priced]_vars
    BY <1>1, LotInvStep
<1> QED
    BY <1>2, LotInvInit, PTL DEF Spec, HoldWhenUnpriced

(* Time passes with the cycles. *)
LEMMA ElapsedShrinks ==
    ASSUME NEW d \in Nat, NEW b \in Nat, NEW c \in Nat, d <= b
    PROVE  Elapsed(b, c) <= Elapsed(d, c)
<1>1. WaitTicks \in Nat /\ c - b \in Int /\ c - d \in Int /\ c - b <= c - d
    BY EngineAssumption
<1>2. \A w \in Nat, x \in Int, y \in Int : x <= y => x * w <= y * w
    OBVIOUS
<1> QED
    BY <1>1, <1>2 DEF Elapsed

(* A process buys a token again only after the cooldown, whatever became of *)
(* the lot it had.                                                          *)
THEOREM CooldownHolds == Spec => CooldownKept
<1> DEFINE Kept == \A t \in Token, c \in Cycle : Sends(<<t, c, "buy">>) =>
                       \A d \in born + 1 .. c - 1 : Bought(t, d) => Elapsed(d, c) >= Cooldown
<1>1. LotInv /\ [Next]_vars => Kept
  <2> SUFFICES ASSUME LotInv, [Next]_vars, NEW t \in Token, NEW c \in Cycle,
                      Sends(<<t, c, "buy">>), NEW d \in born + 1 .. c - 1, Bought(t, d)
               PROVE  Elapsed(d, c) >= Cooldown
      OBVIOUS
  <2>1. <<t, c, "buy">> \in Order
      BY DEF Order, Side
  <2>2. PICK u \in Token : \/ SendSell(u) /\ <<t, c, "buy">> = SellOrder(u)
                           \/ Buy(u) /\ <<t, c, "buy">> = <<u, cycle, "buy">>
      BY <2>1, WhoSends DEF Sends
  <2>3. Buy(u) /\ u = t /\ cycle = c
      BY <2>2 DEF SellOrder
  <2>4. ~CoolingDown(t) /\ pc = "decide"
      BY <2>1, <2>3, WhoSends DEF Buy, Buyable, Sends
  <2>5. born \in Nat /\ c \in 1 .. MaxCycles /\ MaxCycles \in Nat /\ d \in Cycle /\ d > born
    <3>1. born \in Nat /\ c \in 1 .. MaxCycles /\ MaxCycles \in Nat
        BY LotFacts, WalletAssumption DEF Cycle
    <3> QED
        BY <3>1 DEF Cycle
  <2>6. lastBuy[t] # Never /\ lastBuy[t] >= d
      BY <2>4, <2>5 DEF LotInv, Remembered
  <2>7. ~(Elapsed(lastBuy[t], c) < Cooldown)
      BY <2>3, <2>4, <2>6 DEF CoolingDown
  <2>8. lastBuy[t] \in Nat /\ d \in Nat /\ c \in Nat
      BY <2>5, <2>6, LotFacts
  <2>9. Elapsed(lastBuy[t], c) <= Elapsed(d, c)
      BY <2>6, <2>8, ElapsedShrinks
  <2>10. Elapsed(lastBuy[t], c) \in Int /\ Elapsed(d, c) \in Int /\ Cooldown \in Nat
      BY <2>8, EngineAssumption DEF Elapsed
  <2> QED
      BY <2>7, <2>9, <2>10
<1>2. LotInv /\ [Next]_vars => LotInv' /\ [Kept]_vars
    BY <1>1, LotInvStep
<1> QED
    BY <1>2, LotInvInit, PTL DEF Spec, CooldownKept

(* With live swaps every open row had a buy that came back. *)
THEOREM RowsFollowOrders == Spec => [](EnvLive => RowsWereSent)
<1>1. LotInv => (EnvLive => RowsWereSent)
    BY DEF LotInv, SentBefore, RowsWereSent, CameBack
<1> QED
    BY <1>1, LotInvInit, LotInvStep, PTL DEF Spec

(***************************************************************************)
(* The two books.                                                           *)
(***************************************************************************)
(* At the start both books are empty. *)
LEMMA BooksInit == Init => BookAgreement
BY DEF Init, BookAgreement

(* A step that writes neither book, forgets no failed write and stays in    *)
(* the trade it is in, or is in none, keeps their agreement.                *)
LEMMA QuietBooks ==
    ASSUME BookAgreement, UNCHANGED <<mem, book, born>>, torn \subseteq torn',
           pc' # "off" => pc # "off",
           \A t \in Token : MidTrade(t) => MidTrade(t)' \/ t \in torn'
    PROVE  BookAgreement'
BY DEF BookAgreement

(* The sell loop: the dict first, then the row. *)
LEMMA SellBooks ==
    ASSUME LotInv, BookAgreement, pc = "decide", UNCHANGED agentVars,
           SellReturns \/ CloseRow \/ \E t \in Token : PaperSell(t)
    PROVE  BookAgreement'
<1> USE DEF inputs, history, agentVars
<1>1. CASE SellReturns
  <2>1. /\ \A u \in Token : u # token => mem'[u] = mem[u]
        /\ MidTrade(token)' /\ \A u \in Token : ~MidTrade(u)
        /\ UNCHANGED <<book, torn, born, pc, token>>
      BY <1>1, LotFacts DEF SellReturns, MidTrade
  <2> QED
      BY <2>1 DEF BookAgreement, MidTrade
<1>2. CASE CloseRow
  <2>1. mem[token] = NoLot /\ step = "sellRow" /\ step' = "sell" /\ token \in Token
      BY <1>2, LotFacts DEF CloseRow, LotInv, Staged, Stage
  <2>2. /\ book'[token] = NoLot /\ \A u \in Token : u # token => book'[u] = book[u]
        /\ \A u \in Token \ {token} : ~MidTrade(u) /\ (u \notin torn' => u \notin torn)
        /\ UNCHANGED <<mem, born, pc>>
      BY <1>2, LotFacts DEF CloseRow, MidTrade
  <2> QED
      BY <2>1, <2>2 DEF BookAgreement
<1>3. ASSUME NEW t \in Token, PaperSell(t) PROVE BookAgreement'
  <2>1. /\ \A u \in Token : u # t => mem'[u] = mem[u]
        /\ MidTrade(t)' /\ \A u \in Token : ~MidTrade(u)
        /\ UNCHANGED <<book, torn, born, pc>>
      BY <1>3, LotFacts DEF PaperSell, MidTrade
  <2> QED
      BY <2>1 DEF BookAgreement
<1> QED
    BY <1>1, <1>2, <1>3

(* The buy loop: the same. *)
LEMMA BuyBooks ==
    ASSUME LotInv, BookAgreement, pc = "decide", UNCHANGED agentVars,
           WriteRow \/ \E t \in Token : Buy(t)
    PROVE  BookAgreement'
<1> USE DEF inputs, history, agentVars
<1>1. CASE WriteRow
  <2>1. mem[token] # NoLot /\ step = "buyRow" /\ step' = "buy" /\ token \in Token
      BY <1>1, LotFacts DEF WriteRow, LotInv, Staged, Stage
  <2>2. /\ book'[token] = mem[token] /\ \A u \in Token : u # token => book'[u] = book[u]
        /\ \A u \in Token \ {token} : ~MidTrade(u) /\ (u \notin torn' => u \notin torn)
        /\ UNCHANGED <<mem, born, pc>>
      BY <1>1, LotFacts DEF WriteRow, MidTrade
  <2> QED
      BY <2>1, <2>2 DEF BookAgreement
<1>2. ASSUME NEW t \in Token, Buy(t) PROVE BookAgreement'
  <2>1. step' \in {"buySwap", "buyRow"}
      BY <1>2 DEF Buy, PlaceOrder
  <2>2. /\ \A u \in Token : u # t => mem'[u] = mem[u]
        /\ MidTrade(t)' /\ \A u \in Token : ~MidTrade(u)
        /\ UNCHANGED <<book, torn, born, pc>>
      BY <1>2, <2>1, LotFacts DEF Buy, MidTrade
  <2> QED
      BY <2>2 DEF BookAgreement
<1> QED
    BY <1>1, <1>2

(* A process starts with an empty dict, and calls all the rows it finds     *)
(* inherited.                                                               *)
LEMMA StartBooks ==
    ASSUME LotInv, NEW c \in InitialCash, Start(c)
    PROVE  BookAgreement'
<1>1. UNCHANGED <<mem, book>> /\ born' = cycle /\ pc = "off"
    BY DEF Start
<1>2. \A t \in Token : mem[t] = NoLot /\ book[t].cycle <= cycle
    BY <1>1 DEF LotInv, Staged, Stage, Nothing, Dated
<1> QED
    BY <1>1, <1>2 DEF BookAgreement

(* Every step keeps the agreement of the books. *)
LEMMA BooksStep == LotInv /\ BookAgreement /\ [Next]_vars => BookAgreement'
<1> SUFFICES ASSUME LotInv, BookAgreement, [Next]_vars PROVE BookAgreement'
    OBVIOUS
<1> USE DEF inputs, history, agentVars, engineVars
<1>1. CASE EvaluationStep
  <2>1. pc = "decide" /\ UNCHANGED agentVars /\ EngineStep
      BY <1>1 DEF EvaluationStep
  <2>2. ASSUME NEW t \in Token, PassOver(t) \/ SendSell(t) \/ SkipBuy(t) PROVE BookAgreement'
    <3>1. UNCHANGED <<mem, book, born, torn>> /\ step \in {"sell", "buy"}
        BY <2>2 DEF PassOver, SendSell, SkipBuy
    <3> QED
        BY <2>1, <3>1, QuietBooks DEF MidTrade
  <2>3. CASE StartBuying \/ NoBuy \/ BuysDone
    <3>1. UNCHANGED <<mem, book, born, torn>> /\ step \in {"sell", "buy"}
        BY <2>3 DEF StartBuying, NoBuy, BuysDone
    <3> QED
        BY <2>1, <3>1, QuietBooks DEF MidTrade
  <2>4. CASE BuyReturns
    <3>1. UNCHANGED <<mem, book, born, torn, token>> /\ step' = "buyRow"
        BY <2>4 DEF BuyReturns
    <3> QED
        BY <2>1, <3>1, QuietBooks DEF MidTrade
  <2> QED
      BY <2>1, <2>2, <2>3, <2>4, SellBooks, BuyBooks DEF EngineStep
<1>2. ASSUME NEW s \in Signals, Evaluate(s) PROVE BookAgreement'
  <2>1. UNCHANGED <<mem, book, born, torn, pc>> /\ step = "idle"
      BY <1>2 DEF Evaluate, BreakerTrips, ExposureRefuses, GuardsPass
  <2> QED
      BY <2>1, QuietBooks DEF MidTrade
<1>3. CASE EvaluationRaises
  <2>1. CASE SignalFails
    <3>1. UNCHANGED <<mem, book, born, torn, pc>> /\ step = "idle"
        BY <1>3, <2>1 DEF EvaluationRaises, SignalFails
    <3> QED
        BY <3>1, QuietBooks DEF MidTrade
  <2>2. CASE RowWriteFails
    <3>1. UNCHANGED <<mem, book, born, pc>> /\ torn' = torn \cup {token}
        BY <1>3, <2>2 DEF EvaluationRaises, RowWriteFails
    <3> QED
        BY <3>1, QuietBooks DEF MidTrade
  <2> QED
      BY <1>3, <2>1, <2>2 DEF EvaluationRaises
<1>4. CASE Shutdown \/ Crash
    BY <1>4 DEF Shutdown, Crash, ForgetMemory, BookAgreement
<1>5. ASSUME NEW c \in InitialCash, Start(c) PROVE BookAgreement'
    BY <1>5, StartBooks
<1>6. ASSUME NEW t \in Token, ForcedRaises(t) \/ ForcedRead(t) \/ ForcedReturns(t) \/ ForcedClose(t)
      PROVE  BookAgreement'
  <2>1. Staged'
      BY StagedStep DEF LotInv
  <2>2. book' = book
      BY <1>6, <2>1, ForcedLots
  <2>3. UNCHANGED <<mem, born, torn, pc, step, token>>
      BY <1>6 DEF ForcedRaises, ForcedRead, ForcedReturns, ForcedClose
  <2> QED
      BY <2>2, <2>3, QuietBooks DEF MidTrade
<1>7. CASE \/ Wait \/ StopSeen \/ RequestStop \/ EvaluationEnds \/ CycleEnds \/ UNCHANGED vars
           \/ \E m \in [Token -> Prices] : Observe(m)
  <2>1. pc # "decide" => step = "idle"
      BY DEF LotInv, Staged, Stage
  <2>2. /\ UNCHANGED <<mem, book, born, torn>> /\ (pc' # "off" => pc # "off")
        /\ UNCHANGED <<step, token>> \/ step \in {"idle", "done"}
      BY <1>7, <2>1 DEF Wait, StopSeen, RequestStop, EvaluationEnds, CycleEnds, CycleOver, Observe, vars
  <2> QED
      BY <2>2, QuietBooks DEF MidTrade
<1> QED
    BY <1>1, <1>2, <1>3, <1>4, <1>5, <1>6, <1>7 DEF Next, ProcessStep

(* The dict and the table agree on every token whose last write did not     *)
(* fail, and what the dict lacks an earlier process left.                   *)
THEOREM BooksAgree == Spec => []BookAgreement
<1>1. Init => LotInv /\ BookAgreement
    BY LotInvInit, BooksInit
<1>2. LotInv /\ BookAgreement /\ [Next]_vars => LotInv' /\ BookAgreement'
    BY LotInvStep, BooksStep
<1> QED
    BY <1>1, <1>2, PTL DEF Spec

(***************************************************************************)
(* What a cycle spends.                                                     *)
(***************************************************************************)
(* the most the buys of this evaluation can come to *)
Share(n) == n * Amount
BasketSize == Cardinality(Basket(signal.top))

SpendInv ==
    /\ pc = "decide" /\ step \in {"idle", "sell", "sellSwap", "sellRow"} => spent = 0
    /\ step \in Buying => /\ todo \subseteq Basket(signal.top)
                          /\ spent <= Share(BasketSize - Cardinality(todo))
    /\ SpendCap

(* Any part of the basket costs no more than the cap, and half a cent for   *)
(* the size and for each token.                                             *)
LEMMA SharesWithinCap ==
    ASSUME LotInv, signal \in Signals, NEW k \in Nat, k <= BasketSize
    PROVE  /\ Share(k) \in Nat
           /\ Share(k) <= (cash * MaxPositionPct) \div 100 + Cardinality(Token)
<1> DEFINE n == BasketSize
           A == Amount
           T == TotalSize
           most == cash * MaxPositionPct
<1>1. /\ n \in Nat \ {0} /\ Cardinality(Token) \in Nat /\ n <= Cardinality(Token)
      /\ A \in Nat /\ T \in Nat /\ most \in Nat
  <2>1. signal.top \in Narrative /\ cash \in Nat
      BY DEF Signals, LotInv, Staged, TypeOK
  <2>2. n \in Nat \ {0} /\ Basket(signal.top) \subseteq Token
      BY <2>1, BasketFacts DEF BasketSize
  <2>3. Cardinality(Token) \in Nat /\ n <= Cardinality(Token)
      BY <2>2, EngineAssumption, FS_Subset, FS_CardinalityType DEF BasketSize
  <2>4. most \in Nat
      BY <2>1, PctAssumption DEF Pct
  <2> QED
      BY <2>1, <2>2, <2>3, <2>4, AmountType
<1>2. T <= RoundDiv(most, 100) /\ RoundDiv(most, 100) \in Nat /\ 100 * RoundDiv(most, 100) <= most + 50
  <2>1. RoundDiv(most, 100) \in Nat /\ 100 * RoundDiv(most, 100) <= most + 50
      BY <1>1, CentRounding
  <2>2. T <= Ceiling(cash)
    <3> DEFINE larger == Greater(Scaled(cash, Regime.mult, signal.conviction, Regime.cap), HeartbeatSize)
    <3>1. T = Lesser(larger, Ceiling(cash))
        BY DEF TotalSize, SizePosition
    <3>2. Ceiling(cash) \in Nat
        BY <2>1 DEF Ceiling
    <3> HIDE DEF larger, T
    <3> QED
        BY <1>1, <3>1, <3>2 DEF Lesser
  <2> QED
      BY <2>1, <2>2 DEF Ceiling
<1>3. 2 * (n * A) <= 2 * T + n
  <2>1. A = RoundDiv(T, n)
      BY DEF Amount, PerToken, BasketSize
  <2> HIDE DEF n, A, T
  <2> QED
      BY <1>1, <2>1, ShareRounding
<1>4. k * A <= n * A /\ k * A \in Nat /\ n * A \in Nat
  <2>1. n - k \in Nat /\ (n - k) * A >= 0 /\ k * A \in Nat /\ n * A \in Nat
      BY <1>1
  <2>2. (n - k) * A = n * A - k * A
      BY <1>1
  <2> QED
      BY <2>1, <2>2
<1>5. 100 * T <= most + 50
    BY <1>1, <1>2
<1>6. Share(k) = k * A
    BY DEF Share
<1> HIDE DEF n, A, T, most
<1>7. n * A <= most \div 100 + n
  <2>1. T <= most \div 100 + 1
      BY <1>1, <1>5
  <2>2. n >= 2 => n * A <= most \div 100 + n
      BY <1>1, <1>3, <1>4, <2>1
  <2>3. n = 1 => n * A <= most \div 100 + n
      BY <1>1, <1>3, <1>4, <2>1
  <2> QED
      BY <1>1, <2>2, <2>3
<1>8. most \div 100 \in Nat
    BY <1>1
<1>9. k * A <= most \div 100 + Cardinality(Token)
    BY <1>1, <1>4, <1>7, <1>8
<1> QED
    BY <1>4, <1>6, <1>9 DEF most

(* A buy adds one share, and takes its token out of what is to come. *)
LEMMA BuySpends ==
    ASSUME LotInv, SpendInv, pc = "decide", UNCHANGED agentVars, NEW t \in Token, Buy(t)
    PROVE  SpendInv'
<1>1. /\ step \in Buying /\ step = "buy" /\ t \in todo /\ todo' = todo \ {t}
      /\ spent' = spent + Amount /\ step' \in {"buySwap", "buyRow"} /\ pc' = "decide"
      /\ UNCHANGED <<signal, cash>>
    BY DEF Buy, PlaceOrder, Buying, inputs, history, agentVars
<1>2. signal \in Signals /\ spent \in Nat /\ Amount \in Nat /\ cash \in Nat
    BY <1>1, LotTyped DEF LotInv, Staged, Stage, Trading, TypeOK
<1>3. /\ Basket(signal.top) \subseteq Token /\ BasketSize \in Nat
      /\ IsFiniteSet(Basket(signal.top))
  <2>1. signal.top \in Narrative
      BY <1>2 DEF Signals
  <2> QED
      BY <2>1, BasketFacts, EngineAssumption, FS_Subset DEF BasketSize
<1>4. /\ Cardinality(todo) \in Nat /\ Cardinality(todo') = Cardinality(todo) - 1
      /\ Cardinality(todo) <= BasketSize /\ todo' \subseteq Basket(signal.top)
  <2>1. todo \subseteq Basket(signal.top)
      BY <1>1 DEF SpendInv
  <2>2. IsFiniteSet(todo) /\ Cardinality(todo) <= BasketSize
      BY <1>3, <2>1, FS_Subset DEF BasketSize
  <2>3. Cardinality(todo \ {t}) = Cardinality(todo) - 1
      BY <1>1, <2>2, FS_RemoveElement
  <2> QED
      BY <1>1, <2>1, <2>2, <2>3, FS_CardinalityType
<1> DEFINE k == BasketSize - Cardinality(todo)
<1>5. Cardinality(todo') \in Nat /\ k \in Nat /\ k + 1 <= BasketSize
      /\ BasketSize - Cardinality(todo') = k + 1
  <2>1. IsFiniteSet(todo')
      BY <1>3, <1>4, FS_Subset
  <2> QED
      BY <1>3, <1>4, <2>1, FS_CardinalityType
<1>6. Share(k + 1) = Share(k) + Amount /\ Share(k) \in Nat
    BY <1>2, <1>5 DEF Share
<1>7. spent' <= Share(k + 1)
    BY <1>1, <1>2, <1>6 DEF SpendInv
<1>8. Share(k + 1) <= (cash * MaxPositionPct) \div 100 + Cardinality(Token) /\ Share(k + 1) \in Nat
    BY <1>2, <1>5, SharesWithinCap
<1>9. Basket(signal.top)' = Basket(signal.top) /\ BasketSize' = BasketSize /\ Amount' = Amount
    BY <1>1 DEF Basket, BasketSize, Amount, TotalSize, PerToken, SizePosition, Ceiling, Scaled
<1>10. Share(BasketSize - Cardinality(todo))' = Share(k + 1)
    BY <1>5, <1>9 DEF Share
<1>11. spent' <= (cash * MaxPositionPct) \div 100 + Cardinality(Token)
  <2>1. (cash * MaxPositionPct) \div 100 + Cardinality(Token) \in Int
    <3>1. cash * MaxPositionPct \in Nat /\ Cardinality(Token) \in Nat
        BY <1>2, PctAssumption, EngineAssumption, FS_CardinalityType DEF Pct
    <3> QED
        BY <3>1
  <2> QED
      BY <1>1, <1>2, <1>7, <1>8, <2>1
<1>12. SpendCap'
    BY <1>1, <1>11 DEF SpendCap
<1> QED
    BY <1>1, <1>4, <1>7, <1>9, <1>10, <1>12 DEF SpendInv

(* Beginning to buy, and passing over a token of the basket. *)
LEMMA PassingSpends ==
    ASSUME LotInv, SpendInv, pc = "decide", UNCHANGED agentVars,
           StartBuying \/ \E t \in Token : SkipBuy(t)
    PROVE  SpendInv'
<1> DEFINE k == BasketSize - Cardinality(todo)
<1>1. /\ UNCHANGED <<signal, cash, spent>> /\ step' = "buy" /\ pc' = "decide"
      /\ signal \in Signals /\ spent \in Nat /\ step \in {"sell", "buy"}
    BY DEF StartBuying, SkipBuy, LotInv, Staged, Stage, Trading, TypeOK, inputs, history, agentVars
<1>2. /\ Basket(signal.top) \subseteq Token /\ BasketSize \in Nat
      /\ IsFiniteSet(Basket(signal.top)) /\ Amount \in Nat
  <2>1. signal.top \in Narrative /\ cash \in Nat
      BY <1>1 DEF Signals, LotInv, Staged, TypeOK
  <2> QED
      BY <1>1, <2>1, AmountType, BasketFacts, EngineAssumption, FS_Subset DEF BasketSize
<1>3. Basket(signal.top)' = Basket(signal.top) /\ BasketSize' = BasketSize /\ Amount' = Amount
    BY <1>1 DEF Basket, BasketSize, Amount, TotalSize, PerToken, SizePosition, Ceiling, Scaled
<1>4. SpendCap'
    BY <1>1 DEF SpendInv, SpendCap
<1>5. todo' \subseteq Basket(signal.top) /\ spent <= Share(BasketSize - Cardinality(todo'))
  <2>1. CASE StartBuying
    <3>1. todo' = Basket(signal.top) /\ spent = 0
        BY <1>1, <2>1 DEF StartBuying, SpendInv
    <3>2. Share(BasketSize - Cardinality(todo')) = 0
        BY <1>2, <3>1 DEF Share, BasketSize
    <3> QED
        BY <3>1, <3>2
  <2>2. ASSUME NEW t \in Token, SkipBuy(t)
        PROVE  todo' \subseteq Basket(signal.top) /\ spent <= Share(BasketSize - Cardinality(todo'))
    <3>1. todo' = todo \ {t} /\ t \in todo /\ todo \subseteq Basket(signal.top) /\ spent <= Share(k)
        BY <2>2 DEF SkipBuy, SpendInv, Buying
    <3>2. IsFiniteSet(todo) /\ Cardinality(todo) \in Nat /\ Cardinality(todo) <= BasketSize
          /\ Cardinality(todo') = Cardinality(todo) - 1
        BY <1>2, <3>1, FS_Subset, FS_RemoveElement, FS_CardinalityType DEF BasketSize
    <3>3. k \in Nat /\ BasketSize - Cardinality(todo') = k + 1
        BY <1>2, <3>2
    <3>4. Share(k + 1) = Share(k) + Amount /\ Share(k) \in Nat
        BY <1>2, <3>3 DEF Share
    <3> QED
        BY <1>1, <1>2, <3>1, <3>3, <3>4
  <2> QED
      BY <2>1, <2>2
<1>6. Share(BasketSize - Cardinality(todo))' = Share(BasketSize - Cardinality(todo'))
    BY <1>3 DEF Share
<1> QED
    BY <1>1, <1>3, <1>4, <1>5, <1>6 DEF SpendInv

(* A step that buys nothing spends nothing: inside the buys it leaves what  *)
(* they are reckoned with alone.                                            *)
LEMMA QuietSpends ==
    ASSUME LotInv, SpendInv, UNCHANGED spent,
           pc' = "decide" => pc = "decide",
           pc' = "force" => pc \in {"decide", "force"},
           pc' \in {"decide", "force"} => UNCHANGED cash,
           pc' = "decide" /\ step' \in {"idle", "sell", "sellSwap", "sellRow"} =>
               step \in {"idle", "sell", "sellSwap", "sellRow"},
           step' \in Buying => step \in Buying /\ UNCHANGED <<signal, todo, cash>>
    PROVE  SpendInv'
<1>1. SpendCap'
    BY DEF SpendInv, SpendCap
<1>2. pc' = "decide" /\ step' \in {"idle", "sell", "sellSwap", "sellRow"} => spent' = 0
    BY DEF SpendInv
<1>3. ASSUME step' \in Buying
      PROVE  /\ todo' \subseteq Basket(signal.top)'
             /\ spent' <= Share(BasketSize - Cardinality(todo))'
  <2>1. Basket(signal.top)' = Basket(signal.top) /\ BasketSize' = BasketSize /\ Amount' = Amount
      BY <1>3 DEF Basket, BasketSize, Amount, TotalSize, PerToken, SizePosition, Ceiling, Scaled
  <2>2. Share(BasketSize - Cardinality(todo))' = Share(BasketSize - Cardinality(todo))
      BY <1>3, <2>1 DEF Share
  <2> QED
      BY <1>3, <2>1, <2>2 DEF SpendInv
<1> QED
    BY <1>1, <1>2, <1>3 DEF SpendInv, Buying

(* A process that looks at the market has spent nothing yet, and one that   *)
(* has just been started or ended does not trade.                           *)
LEMMA IdleSpends ==
    ASSUME LotInv, Staged',
           \/ \E m \in [Token -> Prices] : Observe(m)
           \/ \E c \in InitialCash : Start(c)
           \/ Shutdown \/ Crash
    PROVE  SpendInv'
<1>1. step' \notin Buying
  <2>1. pc' # "decide" => step' = "idle"
      BY DEF Staged, Stage
  <2>2. pc' = "decide" => pc = "observe" /\ step' = step
      BY DEF Observe, Start, Shutdown, Crash, ForgetMemory
  <2>3. pc = "observe" => step = "idle"
      BY DEF LotInv, Staged, Stage
  <2> QED
      BY <2>1, <2>2, <2>3 DEF Buying
<1>2. pc' \in {"decide", "force"} => spent' = 0 /\ UNCHANGED cash
    BY DEF Observe, Start, Shutdown, Crash, ForgetMemory
<1>3. SpendCap'
  <2>1. cash * MaxPositionPct \in Nat /\ Cardinality(Token) \in Nat
      BY PctAssumption, EngineAssumption, FS_CardinalityType DEF Pct, LotInv, Staged, TypeOK
  <2>2. 0 <= (cash * MaxPositionPct) \div 100 + Cardinality(Token)
      BY <2>1
  <2> QED
      BY <1>2, <2>2 DEF SpendCap
<1> QED
    BY <1>1, <1>2, <1>3 DEF SpendInv

(* Every step keeps what is spent within the shares of the basket. *)
LEMMA SpendStep == LotInv /\ SpendInv /\ [Next]_vars => SpendInv'
<1> SUFFICES ASSUME LotInv, SpendInv, [Next]_vars PROVE SpendInv'
    OBVIOUS
<1> USE DEF inputs, history, agentVars, engineVars
<1>1. CASE EvaluationStep
  <2>1. pc = "decide" /\ UNCHANGED agentVars /\ EngineStep
      BY <1>1 DEF EvaluationStep
  <2>2. ASSUME NEW t \in Token, PassOver(t) \/ SendSell(t) \/ PaperSell(t) PROVE SpendInv'
    <3>1. UNCHANGED <<spent, cash, pc>> /\ step' \in {"sell", "sellSwap", "sellRow"} /\ step = "sell"
        BY <2>1, <2>2 DEF PassOver, SendSell, PaperSell
    <3> QED
        BY <3>1, QuietSpends DEF Buying
  <2>3. CASE SellReturns \/ CloseRow
    <3>1. /\ UNCHANGED <<spent, cash, pc>> /\ step' \in {"sell", "sellRow"}
          /\ step \in {"sellSwap", "sellRow"}
        BY <2>1, <2>3 DEF SellReturns, CloseRow
    <3> QED
        BY <3>1, QuietSpends DEF Buying
  <2>4. CASE NoBuy \/ BuysDone
    <3>1. UNCHANGED <<spent, cash, pc>> /\ step' = "done"
        BY <2>1, <2>4 DEF NoBuy, BuysDone, EndEvaluation
    <3> QED
        BY <3>1, QuietSpends DEF Buying
  <2>5. CASE BuyReturns \/ WriteRow
    <3>1. UNCHANGED <<spent, cash, pc, signal, todo>> /\ step \in Buying /\ step' \in {"buyRow", "buy"}
        BY <2>1, <2>5 DEF BuyReturns, WriteRow, Buying
    <3> QED
        BY <3>1, QuietSpends
  <2> QED
      BY <2>1, <2>2, <2>3, <2>4, <2>5, BuySpends, PassingSpends DEF EngineStep
<1>2. ASSUME NEW s \in Signals, Evaluate(s) PROVE SpendInv'
  <2>1. UNCHANGED <<spent, cash, pc>> /\ step = "idle" /\ step' \in {"sell", "done"}
      BY <1>2 DEF Evaluate, BreakerTrips, ExposureRefuses, GuardsPass, EndEvaluation
  <2> QED
      BY <2>1, QuietSpends DEF Buying
<1>3. CASE EvaluationRaises
  <2>1. UNCHANGED <<spent, cash, pc>> /\ step' = "done"
      BY <1>3 DEF EvaluationRaises, SignalFails, RowWriteFails, EndEvaluation
  <2> QED
      BY <2>1, QuietSpends DEF Buying
<1>4. CASE \/ \E m \in [Token -> Prices] : Observe(m)
           \/ \E c \in InitialCash : Start(c)
           \/ Shutdown \/ Crash
  <2>1. Staged'
      BY StagedStep DEF LotInv
  <2> QED
      BY <1>4, <2>1, IdleSpends
<1>5. ASSUME NEW t \in Token, ForcedRaises(t) \/ ForcedRead(t) \/ ForcedReturns(t) \/ ForcedClose(t)
      PROVE  SpendInv'
  <2>1. UNCHANGED <<spent, cash, pc, step>> /\ pc = "force"
      BY <1>5 DEF ForcedRaises, ForcedRead, ForcedReturns, ForcedClose
  <2>2. step = "idle"
      BY <2>1 DEF LotInv, Staged, Stage
  <2> QED
      BY <2>1, <2>2, QuietSpends DEF Buying
<1>6. CASE Wait \/ StopSeen \/ EvaluationEnds \/ CycleEnds
  <2>1. /\ UNCHANGED <<spent, cash>> /\ pc' # "decide" /\ (pc' = "force" => pc = "decide")
        /\ (step' = "idle" \/ (step' = step /\ pc # "decide"))
      BY <1>6 DEF Wait, StopSeen, EvaluationEnds, CycleEnds, CycleOver
  <2>2. pc # "decide" => step = "idle"
      BY DEF LotInv, Staged, Stage
  <2> QED
      BY <2>1, <2>2, QuietSpends DEF Buying
<1>7. CASE RequestStop \/ UNCHANGED vars
  <2>1. UNCHANGED <<spent, cash, pc, step, signal, todo>>
      BY <1>7 DEF RequestStop, vars
  <2> QED
      BY <2>1, QuietSpends
<1> QED
    BY <1>1, <1>2, <1>3, <1>4, <1>5, <1>6, <1>7 DEF Next, ProcessStep

(* All buys of a cycle together stay within MAX_POSITION_PCT of the cash,   *)
(* a cent of rounding per token apart.                                      *)
THEOREM SpendingIsCapped == Spec => []SpendCap
<1>1. Init => LotInv /\ SpendInv
  <2>1. Init => SpendInv
      BY DEF Init, SpendInv, SpendCap, Buying
  <2> QED
      BY <2>1, LotInvInit
<1>2. LotInv /\ SpendInv /\ [Next]_vars => LotInv' /\ SpendInv'
    BY LotInvStep, SpendStep
<1>3. SpendInv => SpendCap
    BY DEF SpendInv
<1> QED
    BY <1>1, <1>2, <1>3, PTL DEF Spec

(***************************************************************************)
(* What is invested.                                                        *)
(***************************************************************************)
(* Before a trading cycle the lots were within the limit, and what it has   *)
(* spent since is all that has come to them; nothing is bought for nothing. *)
ExposureInv ==
    /\ step \in Trading /\ cash > 0 =>
           100 * Invested <= MaxExposurePct * cash + 100 * spent
    /\ pc # "off" /\ cash = 0 => Invested = 0
    /\ ExposureBounded

(* The costs of lots are amounts. *)
LEMMA CostsAreAmounts ==
    ASSUME NEW lots \in [Token -> LotType]
    PROVE  [t \in Token |-> lots[t].cost] \in [Token -> Nat]
BY DEF LotType, NoLot

(* No lots have cost nothing. *)
LEMMA NothingInvested == SumFunctionOnSet([t \in Token |-> Nothing[t].cost], Token) = 0
<1> DEFINE C == [t \in Token |-> Nothing[t].cost]
<1>1. IsFiniteSet(Token) /\ IsFiniteSet({})
    BY EngineAssumption, FS_EmptySet
<1>2. (\A t \in Token : C[t] \in Nat) /\ (\A t \in Token \ {} : C[t] = 0) /\ {} \in SUBSET Token
    BY DEF Nothing, NoLot
<1> HIDE DEF C
<1>3. SumFunctionOnSet(C, Token) = SumFunctionOnSet(C, {})
    BY <1>1, <1>2, SumSupport
<1>4. SumFunctionOnSet(C, {}) = 0
    BY <1>1, SumSteps
<1> QED
    BY <1>3, <1>4 DEF C

(* What is invested is an amount, and what the exposure check adds up. *)
LEMMA InvestedFacts ==
    ASSUME Staged
    PROVE  /\ Costs \in [Token -> Nat]
           /\ Invested \in Nat /\ TotalExposure = Invested
<1>1. /\ IsFiniteSet(Token) /\ mem \in [Token -> LotType]
      /\ NoLot.cost = 0 /\ \A l \in LotType : l.cost \in Nat
    BY EngineAssumption DEF Staged, TypeOK, LotType, NoLot
<1>2. \A t \in Token : Costs[t] = mem[t].cost /\ Costs[t] \in Nat
    BY <1>1 DEF Costs
<1>3. Costs \in [Token -> Nat]
    BY <1>2 DEF Costs
<1>4. Invested \in Nat
    BY <1>1, <1>2, SumType DEF Invested
<1>5. Held \in SUBSET Token /\ \A t \in Token \ Held : Costs[t] = 0
    BY <1>1, <1>2 DEF Held
<1>6. TotalExposure = Invested
    BY <1>1, <1>2, <1>5, SumSupport DEF Invested, TotalExposure
<1> QED
    BY <1>3, <1>4, <1>6

(* A step that changes one entry of the dict changes what is invested by it *)
LEMMA OneLotChanges ==
    ASSUME Staged, Staged', NEW t \in Token, \A u \in Token \ {t} : mem'[u] = mem[u]
    PROVE  Invested' + mem[t].cost = Invested + mem'[t].cost
<1> DEFINE C == Costs
           D == Costs'
           rest == SumFunctionOnSet(C, Token \ {t})
<1>1. IsFiniteSet(Token) /\ IsFiniteSet(Token \ {t})
    BY EngineAssumption, FS_Subset
<1>2. C \in [Token -> Nat] /\ D \in [Token -> Nat]
  <2>1. mem \in [Token -> LotType] /\ mem' \in [Token -> LotType]
      BY DEF Staged, TypeOK
  <2> QED
      BY <2>1, CostsAreAmounts DEF Costs
<1>3. \A u \in Token : C[u] = mem[u].cost /\ D[u] = mem'[u].cost
    BY DEF Costs
<1>4. \A u \in Token \ {t} : C[u] = D[u]
    BY <1>3
<1>5. Invested = SumFunctionOnSet(C, Token) /\ Invested' = SumFunctionOnSet(D, Token)
    BY DEF Invested
<1> HIDE DEF C, D
<1>6. SumFunctionOnSet(C, Token) = C[t] + rest
    BY <1>1, <1>2, SumWithout
<1>7. SumFunctionOnSet(D, Token) = D[t] + SumFunctionOnSet(D, Token \ {t})
    BY <1>1, <1>2, SumWithout
<1>8. SumFunctionOnSet(D, Token \ {t}) = rest
    BY <1>1, <1>4, SumSame
<1>9. rest \in Nat
    BY <1>1, <1>2, SumType
<1>10. C[t] \in Nat /\ D[t] \in Nat
    BY <1>2
<1> QED
    BY <1>3, <1>5, <1>6, <1>7, <1>8, <1>9, <1>10

(* Without cash a buy comes to nothing. *)
LEMMA NothingForFree ==
    ASSUME cash = 0, signal \in Signals
    PROVE  Amount = 0
<1> DEFINE larger == Greater(Scaled(cash, Regime.mult, signal.conviction, Regime.cap), HeartbeatSize)
           n == Cardinality(Basket(signal.top))
<1>1. TotalSize \in Nat
    BY AmountType
<1>2. MaxPositionPct \in Nat
    BY PctAssumption DEF Pct
<1>3. Ceiling(cash) = 0
    BY <1>2 DEF Ceiling, RoundDiv
<1>4. TotalSize = Lesser(larger, Ceiling(cash))
    BY DEF TotalSize, SizePosition
<1> HIDE DEF larger
<1>5. TotalSize = 0
    BY <1>1, <1>3, <1>4 DEF Lesser
<1>6. n \in Nat \ {0}
    BY BasketFacts DEF Signals
<1>7. Amount = RoundDiv(TotalSize, n)
    BY DEF Amount, PerToken
<1> HIDE DEF n
<1> QED
    BY <1>5, <1>6, <1>7 DEF RoundDiv

(* The bound has the type of a bound. *)
LEMMA ExposureTypes ==
    ASSUME Staged
    PROVE  /\ cash \in Nat /\ spent \in Nat /\ Invested \in Nat
           /\ MaxExposurePct \in Nat /\ MaxPositionPct \in Nat /\ Cardinality(Token) \in Nat
           /\ MaxExposurePct * cash \in Nat /\ MaxPositionPct * cash \in Nat
           /\ (MaxExposurePct + MaxPositionPct) * cash
                = MaxExposurePct * cash + MaxPositionPct * cash
<1>1. /\ cash \in Nat /\ spent \in Nat /\ Invested \in Nat
      /\ MaxExposurePct \in Nat /\ MaxPositionPct \in Nat /\ Cardinality(Token) \in Nat
    BY InvestedFacts, PctAssumption, EngineAssumption, FS_CardinalityType DEF Staged, TypeOK, Pct
<1> QED
    BY <1>1

(* A step that adds nothing to the lots of a process keeps them in bounds. *)
LEMMA QuietExposure ==
    ASSUME Staged, Staged', ExposureInv, Invested' <= Invested,
           pc' # "off" => pc # "off" /\ UNCHANGED cash,
           step' \in Trading => step \in Trading /\ UNCHANGED <<cash, spent>>
    PROVE  ExposureInv'
<1>1. /\ cash \in Nat /\ spent \in Nat /\ Invested \in Nat /\ Invested' \in Nat
      /\ MaxExposurePct * cash \in Nat
      /\ (MaxExposurePct + MaxPositionPct) * cash \in Nat /\ Cardinality(Token) \in Nat
  <2>1. Invested' \in Nat
    <3>1. mem' \in [Token -> LotType]
        BY DEF Staged, TypeOK
    <3>2. Costs' \in [Token -> Nat]
        BY <3>1, CostsAreAmounts DEF Costs
    <3>3. SumFunctionOnSet(Costs', Token) \in Nat
        BY <3>2, SumType, EngineAssumption
    <3> QED
        BY <3>3 DEF Invested
  <2> QED
      BY <2>1, ExposureTypes
<1>2. step' \in Trading /\ cash' > 0 => 100 * Invested' <= MaxExposurePct * cash' + 100 * spent'
    BY <1>1 DEF ExposureInv
<1>3. pc' # "off" /\ cash' = 0 => Invested' = 0
    BY <1>1 DEF ExposureInv
<1>4. ExposureBounded'
    BY <1>1 DEF ExposureInv, ExposureBounded
<1> QED
    BY <1>2, <1>3, <1>4 DEF ExposureInv

(* A buy adds its amount to both sides, and what the cycle spends is capped. *)
LEMMA BuyExposure ==
    ASSUME LotInv, Staged', ExposureInv, SpendCap', pc = "decide", UNCHANGED agentVars,
           NEW t \in Token, Buy(t)
    PROVE  ExposureInv'
<1>1. /\ step = "buy" /\ mem' = [mem EXCEPT ![t] = NewLot(t)]
      /\ spent' = spent + Amount /\ cash' = cash /\ pc' = "decide"
    BY DEF Buy, inputs, agentVars
<1>2. Staged /\ signal \in Signals
    BY <1>1 DEF LotInv, Staged, Stage, Trading
<1>3. NewLot(t).cost = Amount /\ Amount \in Nat
    BY <1>1, <1>2, LotTyped DEF NewLot
<1>4. mem \in [Token -> LotType] /\ mem[t].cost \in Nat
    BY <1>2 DEF Staged, TypeOK, LotType, NoLot
<1>5. Invested' + mem[t].cost = Invested + Amount
  <2>1. mem'[t].cost = Amount /\ \A u \in Token \ {t} : mem'[u] = mem[u]
      BY <1>1, <1>3, <1>4
  <2> QED
      BY <1>2, <2>1, OneLotChanges
<1>6. Invested' \in Nat
  <2>1. Costs' \in [Token -> Nat]
      BY CostsAreAmounts DEF Costs, Staged, TypeOK
  <2>2. SumFunctionOnSet(Costs', Token) \in Nat
      BY <2>1, SumType, EngineAssumption
  <2> QED
      BY <2>2 DEF Invested
<1> HIDE DEF Invested
<1>7. Invested' <= Invested + Amount
    BY <1>2, <1>3, <1>4, <1>5, <1>6, ExposureTypes
<1>8. cash > 0 => 100 * Invested' <= MaxExposurePct * cash + 100 * spent'
  <2>1. cash > 0 => 100 * Invested <= MaxExposurePct * cash + 100 * spent
      BY <1>1 DEF ExposureInv, Trading
  <2> QED
      BY <1>1, <1>2, <1>3, <1>6, <1>7, <2>1, ExposureTypes
<1>9. cash = 0 => Invested' = 0
  <2>1. cash = 0 => Invested = 0 /\ Amount = 0
      BY <1>1, <1>2, NothingForFree DEF ExposureInv
  <2> QED
      BY <1>2, <1>6, <1>7, <2>1, ExposureTypes
<1>10. 100 * spent' <= MaxPositionPct * cash + 100 * Cardinality(Token)
  <2>1. spent' <= (cash * MaxPositionPct) \div 100 + Cardinality(Token)
      BY <1>1 DEF SpendCap
  <2>2. cash * MaxPositionPct = MaxPositionPct * cash /\ spent' \in Nat
      BY <1>1, <1>2, <1>3, ExposureTypes
  <2> DEFINE most == MaxPositionPct * cash
             size == Cardinality(Token)
             all == spent'
  <2>3. most \in Nat /\ size \in Nat /\ all \in Nat /\ all <= most \div 100 + size
      BY <1>2, <2>1, <2>2, ExposureTypes
  <2> HIDE DEF most, size, all
  <2>4. 100 * all <= most + 100 * size
      BY <2>3
  <2> QED
      BY <2>4 DEF most, size, all
<1>11. 100 * Invested' <= (MaxExposurePct + MaxPositionPct) * cash + 100 * Cardinality(Token)
  <2> DEFINE limit == MaxExposurePct * cash
             most == MaxPositionPct * cash
             size == Cardinality(Token)
             both == (MaxExposurePct + MaxPositionPct) * cash
             now == Invested'
             all == spent'
  <2>1. /\ limit \in Nat /\ most \in Nat /\ size \in Nat /\ both = limit + most
        /\ now \in Nat /\ all \in Nat /\ cash \in Nat
      BY <1>1, <1>2, <1>3, <1>6, ExposureTypes
  <2>2. 100 * all <= most + 100 * size /\ (cash > 0 => 100 * now <= limit + 100 * all)
        /\ (cash = 0 => now = 0)
      BY <1>8, <1>9, <1>10
  <2> HIDE DEF limit, most, size, both, now, all
  <2>3. 100 * now <= both + 100 * size
      BY <2>1, <2>2
  <2> QED
      BY <2>3 DEF size, both, now
<1> QED
    BY <1>1, <1>8, <1>9, <1>11 DEF ExposureInv, ExposureBounded

(* A process that starts has no lots, and one that has ended has none. *)
LEMMA IdleExposure ==
    ASSUME Staged, Staged', \/ \E c \in InitialCash : Start(c)
                            \/ Shutdown \/ Crash
    PROVE  ExposureInv'
<1>1. step' \notin Trading
  <2>1. pc' # "decide" => step' = "idle"
      BY DEF Staged, Stage
  <2>2. pc' # "decide"
      BY DEF Start, Shutdown, Crash, ForgetMemory
  <2> QED
      BY <2>1, <2>2 DEF Trading
<1>2. mem' = Nothing
    BY DEF Start, Shutdown, Crash, ForgetMemory, Staged, Stage
<1>3. Invested' = 0
    BY <1>2, NothingInvested DEF Invested, Costs
<1>4. cash' \in Nat
    BY DEF Staged, TypeOK
<1>5. 0 <= (MaxExposurePct + MaxPositionPct) * cash' + 100 * Cardinality(Token)
  <2>1. MaxExposurePct + MaxPositionPct \in Nat /\ Cardinality(Token) \in Nat
      BY PctAssumption, EngineAssumption, FS_CardinalityType DEF Pct
  <2> QED
      BY <1>4, <2>1
<1> QED
    BY <1>1, <1>3, <1>5 DEF ExposureInv, ExposureBounded

(* Every step keeps the lots in bounds. *)
LEMMA ExposureStep ==
    LotInv /\ SpendInv /\ ExposureInv /\ [Next]_vars => ExposureInv'
<1> SUFFICES ASSUME LotInv, SpendInv, ExposureInv, [Next]_vars PROVE ExposureInv'
    OBVIOUS
<1> USE DEF inputs, history, agentVars, engineVars
<1>1. Staged /\ Staged' /\ SpendCap' /\ mem \in [Token -> LotType]
    BY StagedStep, SpendStep DEF LotInv, SpendInv, Staged, TypeOK
<1>2. Invested \in Nat
    BY <1>1, InvestedFacts
<1>3. UNCHANGED mem => Invested' <= Invested
    BY <1>2 DEF Invested, Costs
<1>4. ASSUME NEW t \in Token, mem' = [mem EXCEPT ![t] = NoLot] PROVE Invested' <= Invested
  <2>1. mem'[t].cost = 0 /\ mem[t].cost \in Nat /\ \A u \in Token \ {t} : mem'[u] = mem[u]
      BY <1>1, <1>4 DEF NoLot, LotType
  <2>2. Invested' + mem[t].cost = Invested + mem'[t].cost
      BY <1>1, <2>1, OneLotChanges
  <2>3. Invested' \in Int
    <3>1. Costs' \in [Token -> Nat]
        BY <1>1, CostsAreAmounts DEF Costs, Staged, TypeOK
    <3>2. SumFunctionOnSet(Costs', Token) \in Nat
        BY <3>1, SumType, EngineAssumption
    <3> QED
        BY <3>2 DEF Invested
  <2> QED
      BY <1>2, <2>1, <2>2, <2>3
<1>5. CASE EvaluationStep
  <2>1. pc = "decide" /\ UNCHANGED agentVars /\ EngineStep
      BY <1>5 DEF EvaluationStep
  <2>2. ASSUME NEW t \in Token, PassOver(t) \/ SendSell(t) \/ SkipBuy(t) PROVE ExposureInv'
    <3>1. UNCHANGED <<mem, spent, cash, pc>> /\ step \in Trading
        BY <2>1, <2>2 DEF PassOver, SendSell, SkipBuy, Trading
    <3> QED
        BY <1>1, <1>3, <2>1, <3>1, QuietExposure
  <2>3. ASSUME NEW t \in Token, PaperSell(t) PROVE ExposureInv'
    <3>1. UNCHANGED <<spent, cash, pc>> /\ step \in Trading /\ mem' = [mem EXCEPT ![t] = NoLot]
        BY <2>1, <2>3 DEF PaperSell, Trading
    <3> QED
        BY <1>1, <1>4, <2>1, <3>1, QuietExposure
  <2>4. CASE SellReturns
    <3>1. /\ UNCHANGED <<spent, cash, pc>> /\ step \in Trading
          /\ mem' = [mem EXCEPT ![token] = NoLot] /\ token \in Token
        BY <1>1, <2>1, <2>4 DEF SellReturns, Trading, Staged, TypeOK
    <3> QED
        BY <1>1, <1>4, <2>1, <3>1, QuietExposure
  <2>5. CASE CloseRow \/ StartBuying \/ BuyReturns \/ WriteRow
    <3>1. UNCHANGED <<mem, spent, cash, pc>> /\ step \in Trading
        BY <2>1, <2>5 DEF CloseRow, StartBuying, BuyReturns, WriteRow, Trading
    <3> QED
        BY <1>1, <1>3, <2>1, <3>1, QuietExposure
  <2>6. CASE NoBuy \/ BuysDone
    <3>1. UNCHANGED <<mem, spent, cash, pc>> /\ step' \notin Trading
        BY <2>1, <2>6 DEF NoBuy, BuysDone, EndEvaluation, Trading
    <3> QED
        BY <1>1, <1>3, <2>1, <3>1, QuietExposure
  <2>7. ASSUME NEW t \in Token, Buy(t) PROVE ExposureInv'
      BY <1>1, <2>1, <2>7, BuyExposure
  <2> QED
      BY <2>1, <2>2, <2>3, <2>4, <2>5, <2>6, <2>7 DEF EngineStep
<1>6. ASSUME NEW s \in Signals, Evaluate(s) PROVE ExposureInv'
  <2>1. UNCHANGED <<mem, spent, cash, pc>> /\ pc = "decide"
      BY <1>6 DEF Evaluate, BreakerTrips, ExposureRefuses, GuardsPass
  <2>2. CASE BreakerTrips(s) \/ ExposureRefuses(s)
    <3>1. step' \notin Trading
        BY <2>2 DEF BreakerTrips, ExposureRefuses, EndEvaluation, Trading
    <3> QED
        BY <1>1, <1>3, <2>1, <3>1, QuietExposure
  <2>3. CASE GuardsPass(s)
    <3>1. cash > 0 => TotalExposure * 100 <= MaxExposurePct * cash
        BY <2>3 DEF GuardsPass, ExposureOk
    <3>2. TotalExposure = Invested /\ UNCHANGED Invested
        BY <1>1, <2>1, InvestedFacts DEF Invested, Costs
    <3>3. cash > 0 => 100 * Invested' <= MaxExposurePct * cash + 100 * spent
        BY <1>1, <3>1, <3>2, ExposureTypes
    <3> QED
        BY <2>1, <3>2, <3>3 DEF ExposureInv, ExposureBounded
  <2> QED
      BY <1>6, <2>2, <2>3 DEF Evaluate
<1>7. CASE EvaluationRaises \/ EvaluationEnds \/ CycleEnds \/ Wait \/ StopSeen
  <2>1. UNCHANGED <<mem, cash>> /\ pc # "off" /\ (step' \in Trading => UNCHANGED <<step, spent>>)
      BY <1>7 DEF EvaluationRaises, SignalFails, RowWriteFails, EndEvaluation, EvaluationEnds,
                  CycleEnds, CycleOver, Wait, StopSeen, Trading
  <2> QED
      BY <1>1, <1>3, <2>1, QuietExposure
<1>8. ASSUME NEW m \in [Token -> Prices], Observe(m) PROVE ExposureInv'
  <2>1. UNCHANGED <<mem, cash, step>> /\ pc = "observe"
      BY <1>8 DEF Observe
  <2>2. step' \notin Trading
      BY <1>1, <2>1 DEF Staged, Stage, Trading
  <2> QED
      BY <1>1, <1>3, <2>1, <2>2, QuietExposure
<1>9. CASE (\E c \in InitialCash : Start(c)) \/ Shutdown \/ Crash
    BY <1>1, <1>9, IdleExposure
<1>10. ASSUME NEW t \in Token, ForcedRaises(t) \/ ForcedRead(t) \/ ForcedReturns(t) \/ ForcedClose(t)
       PROVE  ExposureInv'
  <2>1. UNCHANGED <<mem, spent, cash, pc, step>>
      BY <1>10 DEF ForcedRaises, ForcedRead, ForcedReturns, ForcedClose
  <2> QED
      BY <1>1, <1>3, <2>1, QuietExposure
<1>11. CASE RequestStop \/ UNCHANGED vars
  <2>1. UNCHANGED <<mem, spent, cash, pc, step>>
      BY <1>11 DEF RequestStop, vars
  <2> QED
      BY <1>1, <1>3, <2>1, QuietExposure
<1> QED
    BY <1>5, <1>6, <1>7, <1>8, <1>9, <1>10, <1>11 DEF Next, ProcessStep

(* The lots in the dict, at their entry prices, exceed the exposure limit   *)
(* by no more than one cycle may buy, a cent of rounding per token apart.   *)
THEOREM ExposureIsBounded == Spec => []ExposureBounded
<1>1. Init => LotInv /\ SpendInv /\ ExposureInv
  <2>1. Init => SpendInv /\ ExposureInv
      BY DEF Init, SpendInv, SpendCap, Buying, ExposureInv, ExposureBounded, Trading
  <2> QED
      BY <2>1, LotInvInit
<1>2. LotInv /\ SpendInv /\ ExposureInv /\ [Next]_vars => LotInv' /\ SpendInv' /\ ExposureInv'
    BY LotInvStep, SpendStep, ExposureStep
<1>3. ExposureInv => ExposureBounded
    BY DEF ExposureInv
<1> QED
    BY <1>1, <1>2, <1>3, PTL DEF Spec

(***************************************************************************)
(* What crashes and failed writes leave behind.                             *)
(***************************************************************************)
InBuy == step \in {"buySwap", "buyRow"}
InSell == step \in {"sellSwap", "sellRow"}
SoldRow(t) == book[t] # NoLot /\ SellSent(t, book[t].cycle)

(* Both kinds of error are finitely many. *)
LEMMA ErrorsAreFinite ==
    /\ IsFiniteSet(LostBuys) /\ IsFiniteSet(GhostRows)
    /\ Cardinality(LostBuys) \in Nat /\ Cardinality(GhostRows) \in Nat
<1>1. IsFiniteSet(Cycle)
    BY WalletAssumption, FS_Interval DEF Cycle
<1>2. IsFiniteSet(Lots)
    BY <1>1, EngineAssumption, FS_Product DEF Lots
<1>3. LostBuys \subseteq Lots /\ GhostRows \subseteq Token
    BY DEF LostBuys, GhostRows
<1>4. IsFiniteSet(LostBuys) /\ IsFiniteSet(GhostRows)
    BY <1>2, <1>3, EngineAssumption, FS_Subset
<1> QED
    BY <1>4, FS_CardinalityType

(* A step without a fault makes no error. *)
LEMMA NoNewErrors ==
    ASSUME Staged, Staged', FaultsBoundErrors, faults' >= faults,
           LostBuys' \subseteq LostBuys, GhostRows' \subseteq GhostRows
    PROVE  FaultsBoundErrors'
<1>1. Cardinality(LostBuys') <= Cardinality(LostBuys) /\ Cardinality(GhostRows') <= Cardinality(GhostRows)
      /\ Cardinality(LostBuys') \in Nat /\ Cardinality(GhostRows') \in Nat
    BY ErrorsAreFinite, FS_Subset, FS_CardinalityType
<1>2. faults \in Nat /\ faults' \in Nat
    BY DEF Staged, TypeOK
<1> QED
    BY <1>1, <1>2, ErrorsAreFinite DEF FaultsBoundErrors

(* A fault makes one at most. *)
LEMMA OneNewError ==
    ASSUME Staged, Staged', FaultsBoundErrors, faults' = faults + 1, NEW l, NEW t,
           \/ LostBuys' \subseteq LostBuys \cup {l} /\ GhostRows' \subseteq GhostRows
           \/ LostBuys' \subseteq LostBuys /\ GhostRows' \subseteq GhostRows \cup {t}
    PROVE  FaultsBoundErrors'
<1>1. \A S : \A x : IsFiniteSet(S) => /\ IsFiniteSet(S \cup {x})
                                      /\ Cardinality(S \cup {x}) \in Nat
                                      /\ Cardinality(S \cup {x}) <= Cardinality(S) + 1
  <2> SUFFICES ASSUME NEW S, NEW x, IsFiniteSet(S)
               PROVE  /\ IsFiniteSet(S \cup {x})
                      /\ Cardinality(S \cup {x}) \in Nat
                      /\ Cardinality(S \cup {x}) <= Cardinality(S) + 1
      OBVIOUS
  <2>1. IsFiniteSet(S \cup {x}) /\ Cardinality(S) \in Nat /\ Cardinality(S \cup {x}) \in Nat
      BY FS_AddElement, FS_CardinalityType
  <2>2. Cardinality(S \cup {x}) = Cardinality(S) \/ Cardinality(S \cup {x}) = Cardinality(S) + 1
      BY FS_AddElement
  <2> QED
      BY <2>1, <2>2
<1>2. \A S, T : IsFiniteSet(T) /\ S \subseteq T =>
          Cardinality(S) \in Nat /\ Cardinality(S) <= Cardinality(T)
    BY FS_Subset, FS_CardinalityType
<1>3. /\ Cardinality(LostBuys') \in Nat /\ Cardinality(GhostRows') \in Nat
      /\ Cardinality(LostBuys') + Cardinality(GhostRows')
             <= Cardinality(LostBuys) + Cardinality(GhostRows) + 1
  <2>1. CASE LostBuys' \subseteq LostBuys \cup {l} /\ GhostRows' \subseteq GhostRows
    <3>1. Cardinality(LostBuys') \in Nat /\ Cardinality(LostBuys') <= Cardinality(LostBuys \cup {l})
        BY <1>1, <1>2, <2>1, ErrorsAreFinite
    <3>2. Cardinality(GhostRows') \in Nat /\ Cardinality(GhostRows') <= Cardinality(GhostRows)
        BY <1>2, <2>1, ErrorsAreFinite
    <3>3. Cardinality(LostBuys \cup {l}) \in Nat
          /\ Cardinality(LostBuys \cup {l}) <= Cardinality(LostBuys) + 1
        BY <1>1, ErrorsAreFinite
    <3> QED
        BY <3>1, <3>2, <3>3, ErrorsAreFinite
  <2>2. CASE LostBuys' \subseteq LostBuys /\ GhostRows' \subseteq GhostRows \cup {t}
    <3>1. Cardinality(GhostRows') \in Nat /\ Cardinality(GhostRows') <= Cardinality(GhostRows \cup {t})
        BY <1>1, <1>2, <2>2, ErrorsAreFinite
    <3>2. Cardinality(LostBuys') \in Nat /\ Cardinality(LostBuys') <= Cardinality(LostBuys)
        BY <1>2, <2>2, ErrorsAreFinite
    <3>3. Cardinality(GhostRows \cup {t}) \in Nat
          /\ Cardinality(GhostRows \cup {t}) <= Cardinality(GhostRows) + 1
        BY <1>1, ErrorsAreFinite
    <3> QED
        BY <3>1, <3>2, <3>3, ErrorsAreFinite
  <2> QED
      BY <2>1, <2>2
<1>4. faults \in Nat
    BY DEF Staged, TypeOK
<1> QED
    BY <1>3, <1>4, ErrorsAreFinite DEF FaultsBoundErrors

(* Which buys are lost: none anew while buys are sent only for the trade    *)
(* that is under way, and that trade goes on.                               *)
LEMMA LostStay ==
    ASSUME \A t \in Token : \A c \in Cycle : chain'[<<t, c, "buy">>] # "none" =>
               chain[<<t, c, "buy">>] # "none" \/ (InBuy' /\ t = token' /\ c = cycle'),
           written \subseteq written',
           InBuy => \/ InBuy' /\ token' = token /\ cycle' = cycle
                    \/ <<token, cycle>> \in written'
    PROVE  LostBuys' \subseteq LostBuys
<1> SUFFICES ASSUME NEW l \in LostBuys' PROVE l \in LostBuys
    OBVIOUS
<1>1. /\ l \in Lots /\ l \notin written' /\ Bought(l[1], l[2])'
      /\ ~(InBuy' /\ l = <<token', cycle'>>)
    BY DEF LostBuys, InBuy
<1>2. l[1] \in Token /\ l[2] \in Cycle /\ l = <<l[1], l[2]>>
    BY <1>1 DEF Lots
<1>3. Bought(l[1], l[2])
    BY <1>1, <1>2 DEF Bought
<1>4. ~(InBuy /\ l = <<token, cycle>>)
    BY <1>1
<1> QED
    BY <1>1, <1>3, <1>4 DEF LostBuys, InBuy

(* Which rows are ghosts: likewise. *)
LEMMA GhostsStay ==
    ASSUME \A t \in Token : SoldRow(t)' => SoldRow(t) \/ (InSell' /\ t = token'),
           InSell => (InSell' /\ token' = token) \/ book'[token] = NoLot
    PROVE  GhostRows' \subseteq GhostRows
BY DEF GhostRows, InSell, SoldRow

(* A step that sends nothing, writes no row and stays in its trade. *)
LEMMA QuietErrors ==
    ASSUME LotInv, Staged', FaultsBoundErrors, UNCHANGED <<book, written, faults>>,
           \A p \in Order : chain'[p] # "none" => chain[p] # "none",
           InBuy => InBuy' /\ UNCHANGED <<token, cycle>>,
           InSell => InSell' /\ UNCHANGED token
    PROVE  FaultsBoundErrors'
<1>1. LostBuys' \subseteq LostBuys
    BY LotFacts, LostStay
<1>2. \A t \in Token : SoldRow(t)' => SoldRow(t)
    BY LotFacts DEF SoldRow, SellSent
<1>3. GhostRows' \subseteq GhostRows
    BY <1>2, GhostsStay
<1>4. Staged /\ faults' >= faults
    BY DEF LotInv, Staged, TypeOK
<1> QED
    BY <1>1, <1>3, <1>4, NoNewErrors

(* A sell is under way from its order to the end of its row. *)
LEMMA SellErrors ==
    ASSUME LotInv, Staged', FaultsBoundErrors, pc = "decide", UNCHANGED agentVars,
           CloseRow \/ \E t \in Token : SendSell(t)
    PROVE  FaultsBoundErrors'
<1> USE DEF inputs, history, agentVars
<1>1. UNCHANGED <<written, faults, cycle>> /\ ~InBuy /\ Staged /\ faults' >= faults
    BY DEF CloseRow, SendSell, InBuy, LotInv, Staged, TypeOK
<1>2. CASE CloseRow
  <2>1. chain' = chain /\ book'[token] = NoLot /\ \A u \in Token : book'[u] \in {book[u], NoLot}
      BY <1>2, LotFacts DEF CloseRow
  <2>2. LostBuys' \subseteq LostBuys
      BY <1>1, <2>1, LostStay
  <2>3. \A u \in Token : SoldRow(u)' => SoldRow(u)
      BY <2>1 DEF SoldRow, SellSent
  <2>4. GhostRows' \subseteq GhostRows
      BY <2>1, <2>3, GhostsStay
  <2> QED
      BY <1>1, <2>2, <2>4, NoNewErrors
<1>3. ASSUME NEW t \in Token, SendSell(t) PROVE FaultsBoundErrors'
  <2>1. /\ chain' = [chain EXCEPT ![SellOrder(t)] = "pending"]
        /\ UNCHANGED book /\ ~InSell /\ InSell' /\ token' = t
      BY <1>3 DEF SendSell, Submit, InSell
  <2>2. SellOrder(t) \in Order
      BY <1>3, <1>1, SellLots
  <2>3. \A u \in Token : \A c \in Cycle : <<u, c, "buy">> # SellOrder(t)
      BY DEF SellOrder
  <2>4. LostBuys' \subseteq LostBuys
      BY <1>1, <2>1, <2>3, LotFacts, LostStay
  <2>5. \A u \in Token : SoldRow(u)' => SoldRow(u) \/ u = t
    <3> SUFFICES ASSUME NEW u \in Token, SoldRow(u)', u # t PROVE SoldRow(u)
        OBVIOUS
    <3>1. book[u] # NoLot /\ chain'[<<u, book[u].cycle, "sell">>] # "none"
        BY <2>1 DEF SoldRow, SellSent
    <3>2. <<u, book[u].cycle, "sell">> # SellOrder(t)
        BY DEF SellOrder
    <3>3. chain'[<<u, book[u].cycle, "sell">>] = chain[<<u, book[u].cycle, "sell">>]
        BY <2>1, <3>1, <3>2, LotFacts
    <3> QED
        BY <3>1, <3>3 DEF SoldRow, SellSent
  <2>6. GhostRows' \subseteq GhostRows
      BY <2>1, <2>5, GhostsStay
  <2> QED
      BY <1>1, <2>4, <2>6, NoNewErrors
<1> QED
    BY <1>2, <1>3

(* A buy is under way from the dict to its row, and the new row's lot has   *)
(* not been sold.                                                           *)
LEMMA BuyErrors ==
    ASSUME LotInv, Staged', FaultsBoundErrors, pc = "decide", UNCHANGED agentVars,
           WriteRow \/ \E t \in Token : Buy(t)
    PROVE  FaultsBoundErrors'
<1> USE DEF inputs, history, agentVars
<1>1. UNCHANGED <<faults, cycle>> /\ ~InSell /\ Staged /\ faults' >= faults
    BY DEF WriteRow, Buy, InSell, LotInv, Staged, TypeOK
<1>2. CASE WriteRow
  <2>1. /\ chain' = chain /\ step = "buyRow"
        /\ mem[token] # NoLot /\ mem[token].cycle = cycle /\ token \in Token
        /\ written' = written \cup {<<token, cycle>>}
      BY <1>2, LotFacts DEF WriteRow, LotInv, Staged, Stage
  <2>2. book'[token] = mem[token] /\ \A u \in Token : u # token => book'[u] = book[u]
      BY <1>2, LotFacts DEF WriteRow
  <2>3. LostBuys' \subseteq LostBuys
      BY <2>1, LostStay
  <2>4. cycle \in Cycle /\ cycle >= cycle
      BY <2>1, LotFacts
  <2>5. chain[<<token, cycle, "sell">>] = "none"
      BY <2>1, <2>4 DEF LotInv, Fresh, NoSells
  <2>6. \A u \in Token : SoldRow(u)' => SoldRow(u)
    <3> SUFFICES ASSUME NEW u \in Token, SoldRow(u)' PROVE SoldRow(u)
        OBVIOUS
    <3>1. u # token
        BY <2>1, <2>2, <2>5 DEF SoldRow, SellSent
    <3> QED
        BY <2>1, <2>2, <3>1 DEF SoldRow, SellSent
  <2>7. GhostRows' \subseteq GhostRows
      BY <1>1, <2>6, GhostsStay
  <2> QED
      BY <1>1, <2>3, <2>7, NoNewErrors
<1>3. ASSUME NEW t \in Token, Buy(t) PROVE FaultsBoundErrors'
  <2>1. /\ UNCHANGED <<book, written>> /\ ~InBuy /\ InBuy' /\ token' = t
        /\ \A p \in Order : p # <<t, cycle, "buy">> => chain'[p] = chain[p]
      BY <1>3, LotFacts DEF Buy, PlaceOrder, Submit, InBuy
  <2>2. \A u \in Token : \A c \in Cycle : u # t \/ c # cycle => <<u, c, "buy">> # <<t, cycle, "buy">>
      OBVIOUS
  <2>3. LostBuys' \subseteq LostBuys
      BY <1>1, <2>1, <2>2, LotFacts, LostStay
  <2>4. \A u \in Token : SoldRow(u)' => SoldRow(u)
    <3> SUFFICES ASSUME NEW u \in Token, SoldRow(u)' PROVE SoldRow(u)
        OBVIOUS
    <3>1. book[u] # NoLot /\ chain'[<<u, book[u].cycle, "sell">>] # "none"
        BY <2>1 DEF SoldRow, SellSent
    <3>2. <<u, book[u].cycle, "sell">> # <<t, cycle, "buy">>
        OBVIOUS
    <3>3. chain'[<<u, book[u].cycle, "sell">>] = chain[<<u, book[u].cycle, "sell">>]
        BY <2>1, <3>1, <3>2, LotFacts
    <3> QED
        BY <3>1, <3>3 DEF SoldRow, SellSent
  <2>5. GhostRows' \subseteq GhostRows
      BY <1>1, <2>4, GhostsStay
  <2> QED
      BY <1>1, <2>3, <2>5, NoNewErrors
<1> QED
    BY <1>2, <1>3

(* A crash, or a row that cannot be written, spoils the trade under way.    *)
LEMMA FaultErrors ==
    ASSUME LotInv, Staged', FaultsBoundErrors, Crash \/ EvaluationRaises
    PROVE  FaultsBoundErrors'
<1> USE DEF inputs, history, agentVars
<1>1. UNCHANGED <<book, written, cycle>> /\ Staged
    BY DEF Crash, EvaluationRaises, SignalFails, RowWriteFails, LotInv
<1>2. \A p \in Order : chain'[p] # "none" => chain[p] # "none"
    BY DEF Crash, WalletCrash, EvaluationRaises, SignalFails, RowWriteFails
<1>3. CASE faults' = faults + 1
  <2>1. ASSUME NEW l \in LostBuys', l # <<token, cycle>> PROVE l \in LostBuys
    <3>1. /\ l \in Lots /\ l \notin written /\ Bought(l[1], l[2])'
        BY <1>1, <2>1 DEF LostBuys
    <3>2. l[1] \in Token /\ l[2] \in Cycle
        BY <3>1 DEF Lots
    <3>3. Bought(l[1], l[2])
        BY <1>2, <3>1, <3>2, LotFacts DEF Bought
    <3> QED
        BY <2>1, <3>1, <3>3 DEF LostBuys
  <2>2. ASSUME NEW l \in LostBuys', ~InBuy PROVE l \in LostBuys
    <3>1. /\ l \in Lots /\ l \notin written /\ Bought(l[1], l[2])'
        BY <1>1, <2>2 DEF LostBuys
    <3>2. l[1] \in Token /\ l[2] \in Cycle
        BY <3>1 DEF Lots
    <3>3. Bought(l[1], l[2])
        BY <1>2, <3>1, <3>2, LotFacts DEF Bought
    <3> QED
        BY <2>2, <3>1, <3>3 DEF LostBuys, InBuy
  <2>3. \A t \in Token : SoldRow(t)' => SoldRow(t)
      BY <1>1, <1>2, LotFacts DEF SoldRow, SellSent
  <2>4. GhostRows' \subseteq GhostRows \cup {token} /\ (~InSell => GhostRows' \subseteq GhostRows)
      BY <2>3 DEF GhostRows, SoldRow, InSell
  <2>5. LostBuys' \subseteq LostBuys \cup {<<token, cycle>>} /\ (~InBuy => LostBuys' \subseteq LostBuys)
      BY <2>1, <2>2
  <2>6. ~InBuy \/ ~InSell
      BY DEF InBuy, InSell
  <2> QED
      BY <1>1, <1>3, <2>4, <2>5, <2>6, OneNewError
<1>4. CASE EvaluationRaises /\ SignalFails
  <2>1. UNCHANGED faults /\ ~InBuy /\ ~InSell
      BY <1>4 DEF SignalFails, InBuy, InSell
  <2> QED
      BY <1>1, <1>2, <2>1, QuietErrors
<1> QED
    BY <1>3, <1>4 DEF Crash, EvaluationRaises, RowWriteFails

(* Every step: only a crash and a failed write make an error. *)
LEMMA ErrorsStep == LotInv /\ FaultsBoundErrors /\ [Next]_vars => FaultsBoundErrors'
<1> SUFFICES ASSUME LotInv, FaultsBoundErrors, [Next]_vars PROVE FaultsBoundErrors'
    OBVIOUS
<1>0. Staged'
    BY StagedStep DEF LotInv
<1> USE DEF inputs, history, agentVars, engineVars
<1>1. CASE EvaluationStep
  <2>1. pc = "decide" /\ UNCHANGED agentVars /\ EngineStep
      BY <1>1 DEF EvaluationStep
  <2>2. ASSUME \/ \E t \in Token : PassOver(t) \/ PaperSell(t) \/ SkipBuy(t)
               \/ StartBuying \/ NoBuy \/ BuysDone
        PROVE FaultsBoundErrors'
    <3>1. UNCHANGED <<chain, book, written, faults>> /\ ~InBuy /\ ~InSell
        BY <2>2 DEF PassOver, PaperSell, SkipBuy, StartBuying, NoBuy, BuysDone, InBuy, InSell
    <3> QED
        BY <1>0, <3>1, QuietErrors
  <2>3. CASE SellReturns \/ BuyReturns
    <3>1. /\ UNCHANGED <<book, written, faults, token, cycle>>
          /\ (InBuy => InBuy') /\ (InSell => InSell')
        BY <2>3 DEF SellReturns, BuyReturns, InBuy, InSell
    <3>2. \A p \in Order : chain'[p] # "none" => chain[p] # "none"
        BY <2>3, ReturnLots, LotFacts DEF SellReturns, BuyReturns
    <3> QED
        BY <1>0, <3>1, <3>2, QuietErrors
  <2> QED
      BY <1>0, <2>1, <2>2, <2>3, SellErrors, BuyErrors DEF EngineStep
<1>2. CASE Crash \/ EvaluationRaises
    BY <1>0, <1>2, FaultErrors
<1>3. ASSUME NEW t \in Token, ForcedRaises(t) \/ ForcedRead(t) \/ ForcedReturns(t) \/ ForcedClose(t)
      PROVE  FaultsBoundErrors'
  <2>1. UNCHANGED <<chain, book>>
      BY <1>0, <1>3, ForcedLots
  <2>2. UNCHANGED <<written, faults, step, token, cycle>>
      BY <1>3 DEF ForcedRaises, ForcedRead, ForcedReturns, ForcedClose
  <2> QED
      BY <1>0, <2>1, <2>2, QuietErrors DEF InBuy, InSell
<1>4. CASE \/ \E s \in Signals : Evaluate(s)
           \/ \E m \in [Token -> Prices] : Observe(m)
           \/ \E c \in InitialCash : Start(c)
           \/ Wait \/ StopSeen \/ RequestStop \/ EvaluationEnds \/ CycleEnds \/ Shutdown \/ UNCHANGED vars
  <2>1. UNCHANGED <<chain, book, written, faults>>
      BY <1>4 DEF Evaluate, BreakerTrips, ExposureRefuses, GuardsPass, Observe, Start, Wait, StopSeen,
                  RequestStop, EvaluationEnds, CycleEnds, Shutdown, vars
  <2>2. UNCHANGED <<step, token, cycle>> \/ (~InBuy /\ ~InSell)
    <3>1. pc # "decide" => step = "idle"
        BY DEF LotInv, Staged, Stage
    <3>2. pc # "decide" \/ step \in {"idle", "done"} \/ UNCHANGED <<step, token, cycle>>
        BY <1>4 DEF Evaluate, BreakerTrips, ExposureRefuses, GuardsPass, Observe, Start, Wait, StopSeen,
                    RequestStop, EvaluationEnds, CycleEnds, CycleOver, Shutdown, vars
    <3> QED
        BY <3>1, <3>2 DEF InBuy, InSell
  <2> QED
      BY <1>0, <2>1, <2>2, QuietErrors DEF InBuy, InSell
<1> QED
    BY <1>1, <1>2, <1>3, <1>4 DEF Next, ProcessStep

(* The table misses a bought lot, or shows a sold one, only because of a    *)
(* fault, and each fault costs one at most.                                 *)
THEOREM ErrorsNeedFaults == Spec => []FaultsBoundErrors
<1>1. Init => LotInv /\ FaultsBoundErrors
  <2> SUFFICES ASSUME Init PROVE FaultsBoundErrors
      BY LotInvInit
  <2>1. \A t \in Token : book[t] = NoLot
      BY DEF Init, Nothing
  <2>2. \A t \in Token : \A c \in Cycle : chain[<<t, c, "buy">>] = "none"
      BY DEF Init, WalletInit, Order, Side
  <2>3. LostBuys = {} /\ GhostRows = {}
      BY <2>1, <2>2 DEF LostBuys, GhostRows, Lots, Bought
  <2> QED
      BY <2>3, FS_EmptySet DEF FaultsBoundErrors, Init
<1>2. LotInv /\ FaultsBoundErrors /\ [Next]_vars => LotInv' /\ FaultsBoundErrors'
    BY LotInvStep, ErrorsStep
<1> QED
    BY <1>1, <1>2, PTL DEF Spec
=============================================================================
