-------------------------- MODULE AgentProperties --------------------------
(***************************************************************************)
(* What the agent promises, and what its documents say it promises.         *)
(***************************************************************************)
EXTENDS Agent

Lots == Token \X Cycle
Bought(t, c) == chain[<<t, c, "buy">>] # "none"
SellSent(t, c) == chain[<<t, c, "sell">>] # "none"

Sends(o) == chain[o] = "none" /\ chain'[o] = "pending"
Buys(t) == mem'[t] # mem[t] /\ mem'[t] # NoLot

(***************************************************************************)
(* Type invariant.                                                          *)
(***************************************************************************)
LotType == [cycle : Cycle, cost : Nat, entry : Nat \ {0}] \cup {NoLot}

(* Every variable has the type its declaration says. *)
TypeOK ==
    /\ WalletTypeOK
    /\ step \in {"idle", "sell", "sellSwap", "sellRow",
                 "buy", "buySwap", "buyRow", "done"}
    /\ mem \in [Token -> LotType] /\ book \in [Token -> LotType]
    /\ lastBuy \in [Token -> Cycle \cup {Never}]
    /\ signal \in Signals \cup {NoSignal}
    /\ todo \in SUBSET Token /\ token \in Token
    /\ price \in [Token -> Prices]
    /\ cash \in Nat /\ peak \in Nat
    /\ cycle \in 0 .. MaxCycles /\ born \in 0 .. MaxCycles
    /\ spent \in Nat /\ tripped \in Nat \cup {Never}
    /\ torn \in SUBSET Token /\ written \in SUBSET Lots
    /\ faults \in Nat
    /\ pc \in {"off", "wait", "observe", "decide", "force", "closing"}
    /\ stop \in BOOLEAN
    /\ forced \in [Token -> {"idle", "read", "swap", "close"}]

(***************************************************************************)
(* Safety.                                                                  *)
(***************************************************************************)
(* between the first write of a trade and its last the two books differ *)
MidTrade(t) == token = t /\ step \in {"sellRow", "buySwap", "buyRow"}

(* The dict the engine trades on and the table that survives it tell the    *)
(* same story of every token whose last write did not fail: a lot in the    *)
(* dict is the open row, and an open row the dict lacks was inherited from  *)
(* an earlier process (decision.py writes dict and table in two places).    *)
BookAgreement ==
    pc # "off" =>
        \A t \in Token \ torn : ~MidTrade(t) =>
            /\ mem[t] # NoLot => book[t] = mem[t]
            /\ book[t] # NoLot /\ mem[t] = NoLot => book[t].cycle <= born

(* With live swaps a row is only ever written for a lot whose buy order     *)
(* came back: a crash cannot leave a row for an order that never went out   *)
(* (the swap at decision.py:190 precedes the sync at 193).                  *)
RowsWereSent ==
    \A t \in Token : book[t] # NoLot =>
        chain[<<t, book[t].cycle, "buy">>] \notin {"none", "pending"}

(* A lot is offered for sale at most once, whatever the swap reported and   *)
(* however often the process crashed or a forced sell ran beside the        *)
(* engine: a timed-out sell is never repeated.                              *)
SoldOnce ==
    [][\A o \in Order : chain'[o] = "pending" => chain[o] \in {"none", "pending"}]_vars

LostBuys == {l \in Lots :
    /\ Bought(l[1], l[2]) /\ l \notin written
    /\ ~(step \in {"buySwap", "buyRow"} /\ l = <<token, cycle>>)}

GhostRows == {t \in Token :
    /\ book[t] # NoLot /\ SellSent(t, book[t].cycle)
    /\ ~(step \in {"sellSwap", "sellRow"} /\ token = t)}

(* The table misses a bought lot, or still shows a lot that was sold, only  *)
(* because of a fault, and each crash or failed write costs one at most.    *)
FaultsBoundErrors == Cardinality(LostBuys) + Cardinality(GhostRows) <= faults

(* A process buys a token again only after the cooldown, also when the lot  *)
(* was sold, its swap failed or its row could not be written in between.    *)
CooldownKept ==
    [][\A t \in Token, c \in Cycle : Sends(<<t, c, "buy">>) =>
          \A d \in born + 1 .. c - 1 :
              Bought(t, d) => Elapsed(d, c) >= Cooldown]_vars

(* Once the breaker has tripped, no order goes out while the cash it        *)
(* tripped at has not grown, restarts included: the peak it compares with   *)
(* is kept in the snapshots table and never falls.                          *)
KillLatch ==
    [][\A o \in Order : Sends(o) => ~(tripped # Never /\ cash <= tripped)]_vars

(* A position without a price is held: the sell loop never turns a missing  *)
(* quote into an order.                                                     *)
HoldWhenUnpriced ==
    [][\A t \in Token, c \in Cycle : Sends(<<t, c, "sell">>) => price[t] > 0]_vars

(* All buys of a cycle together stay within MAX_POSITION_PCT of the cash,   *)
(* a cent of rounding per token apart.                                      *)
SpendCap ==
    pc \in {"decide", "force"} =>
        spent <= (cash * MaxPositionPct) \div 100 + Cardinality(Token)

(* what the lots in the dict have cost *)
Invested == SumFunctionOnSet(Costs, Token)

(* The lots in the dict, at their entry prices, exceed the exposure limit   *)
(* by no more than one cycle may buy: the limit is tested before each cycle *)
(* although the cash it is compared with is never reduced.                  *)
ExposureBounded ==
    pc # "off" =>
        100 * Invested <= (MaxExposurePct + MaxPositionPct) * cash
                               + 100 * Cardinality(Token)

(***************************************************************************)
(* Liveness.                                                                *)
(***************************************************************************)
(* A stop signal ends the process, at whatever point of a cycle it comes. *)
StopHonoured == stop ~> pc = "off"

(* A cycle that begins to trade returns, whatever fails inside it. *)
CycleReturns == pc = "decide" ~> pc \in {"wait", "off"}

(***************************************************************************)
(* What documents and comments say and the code does not do.                *)
(***************************************************************************)
(* Every buy has the approval of the pre-trade check made for it            *)
(* (decision.py:175).                                                       *)
BuysAreApproved ==
    [][\A t \in Token : Buys(t) =>
          PreTradeApproved(0, cash, mem'[t].cost, 0)]_vars

(* A row whose stop-loss or take-profit was reached is closed by the end of *)
(* that cycle (agent.py, Phases 4 and 6).                                   *)
ExitsExecuted ==
    CycleOver => \A t \in Token : ~MustSell(t, price[t])

(* When buying starts, no lot older than MAX_HOLD_HOURS is left             *)
(* (decision.py:114).                                                       *)
TimeoutHonoured ==
    step = "buy" => \A t \in Held : ~TimedOut(t)

(* After a cycle in which the breaker tripped no position is open           *)
(* (decision.py:79).                                                        *)
KillClosesAll ==
    CycleOver /\ tripped = cash => book = Nothing
=============================================================================
