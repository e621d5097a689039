--------------------------- MODULE DecisionEngine ---------------------------
(***************************************************************************)
(* src/decision.py on top of the two halves of src/portfolio.py: the dict   *)
(* Portfolio.positions (mem) and the open rows of the positions table       *)
(* (book).  One call of DecisionEngine.evaluate is a run of this machine    *)
(* from "idle" to "done"; each await that leaves the process (a swap, a     *)
(* database write) is a step of its own, so a crash or an exception can     *)
(* fall between any two of them.                                            *)
(*                                                                         *)
(* The order in which the loops visit tokens (dict order, basket order) is  *)
(* left open.  A lot is identified by its token and the cycle it was bought *)
(* in: a basket names a token once, so a cycle buys it at most once.        *)
(* Units are kept as cost / entry price, the quotient the code computes.    *)
(***************************************************************************)
EXTENDS Sizing, TwakWallet, Sequences, FiniteSets, FiniteSetsExt

CONSTANTS
    Narratives,     \* NARRATIVE_BASKETS: sequence of [name, tokens], in dict order
    Regime,         \* multiplier (tenths) and conviction cap of the regime
    LongThreshold,  \* the conviction from which the verdict is LONG
    Places,         \* price units in one unit of the sixth decimal place
    PhantomPrice,   \* the 1.0 that stands in for a missing price
    WaitTicks,      \* time from one cycle to the next: --interval
    MaxHold,        \* MAX_HOLD_HOURS
    Cooldown,       \* TRADE_INTERVAL_MINUTES
    EnvLive         \* os.getenv("AGENT_MODE") is something else than "paper"

Narrative == 1 .. Len(Narratives)
Basket(n) == Narratives[n].tokens

ASSUME EngineAssumption ==
    /\ IsFiniteSet(Token) /\ Token # {}
    /\ \A n \in Narrative : Basket(n) \subseteq Token /\ Basket(n) # {}
    /\ Regime \in [mult : Nat, cap : Nat]
    /\ {WaitTicks, MaxHold, Cooldown} \subseteq Nat
    /\ PhantomPrice \in Nat \ {0}
    /\ EnvLive \in BOOLEAN

(* _build_narrative_map: the last narrative that lists a token wins *)
TokenNarrative(t) == Max({n \in Narrative : t \in Basket(n)})

NoLot == [cycle |-> 0, cost |-> 0, entry |-> 0]
Never == -1

(* the clock: time is counted in cycles, WaitTicks apart *)
Elapsed(from, to) == (to - from) * WaitTicks

VARIABLES
    step,           \* where evaluate is
    mem,            \* Portfolio.positions
    book,           \* open rows of the positions table
    lastBuy,        \* DecisionEngine._last_buy_tick, as the cycle of that time
    signal,         \* the scan this cycle trades on: [top, conviction]
    todo,           \* tokens the current loop has still to visit
    token,          \* the token the current iteration is about
    price,          \* price_map, 0 for a token without a price
    cash,           \* cash_value of the latest snapshot row
    peak,           \* MAX(peak_value) over the snapshot rows
    cycle,          \* trading cycles begun
    born,           \* history: cycles begun before this process started
    spent,          \* history: dollars the current cycle has bought for
    tripped,        \* history: value at which the breaker last tripped, or Never
    torn,           \* history: tokens whose last database write failed
    written,        \* history: <<token, cycle>> of every row ever written
    faults          \* history: crashes and failed database writes

inputs == <<price, cash, peak, cycle>>     \* what evaluate is given, and reads
history == <<born, spent, tripped, torn, written, faults>>
engineVars == <<chain, step, mem, book, lastBuy, signal, todo, token, inputs, history>>

NoSignal == [top |-> 0, conviction |-> 0]
Long(s) == s.conviction >= LongThreshold
Held == {t \in Token : mem[t] # NoLot}

(* mutant: reads a key the lots do not have, so every lot counts as nothing *)
ExposureOfWrongKey == 0

(* Portfolio.total_exposure: units at their entry prices *)
Costs == [t \in Token |-> mem[t].cost]
TotalExposure == SumFunctionOnSet(Costs, Held)

(* pos["units"] * price *)
Value(lot, p) == (lot.cost * p) \div lot.entry

(* evaluate unpacks the dict of pre_trade_check into two names.  Unpacking *)
(* a dict yields its keys, so sell_ok and buy_ok are the string "approved", *)
(* whatever the check found.                                                *)
Unpacked(approved) == "approved" # ""

SellCheck(value) == Unpacked(PreTradeApproved(0, cash, value, 0))
BuyCheck(amount) == Unpacked(PreTradeApproved(0, cash, amount, 0))

(***************************************************************************)
(* Guards, before anything is traded.                                       *)
(***************************************************************************)
EndEvaluation == step' = "done" /\ todo' = {}

(* circuit_breaker refuses: nothing is traded, nothing is closed *)
BreakerTrips(s) ==
    /\ step = "idle"
    /\ ~CircuitBreakerOk(peak, cash)
    /\ EndEvaluation
    /\ signal' = s
    /\ tripped' = cash
    /\ UNCHANGED <<chain, mem, book, lastBuy, token, born, spent, torn,
                   written, faults, inputs>>

(* exposure_check refuses: the sell loop is not reached either *)
ExposureRefuses(s) ==
    /\ step = "idle"
    /\ CircuitBreakerOk(peak, cash)
    /\ ~ExposureOk(TotalExposure, cash)
    /\ EndEvaluation
    /\ signal' = s
    /\ UNCHANGED <<chain, mem, book, lastBuy, token, inputs, history>>

GuardsPass(s) ==
    /\ step = "idle"
    /\ CircuitBreakerOk(peak, cash)
    /\ ExposureOk(TotalExposure, cash)
    /\ step' = "sell"
    /\ signal' = s
    /\ todo' = Held
    /\ UNCHANGED <<chain, mem, book, lastBuy, token, inputs, history>>

(* the quotes behind the scan cannot be had: evaluate is never entered *)
SignalFails ==
    /\ step = "idle"
    /\ EndEvaluation
    /\ UNCHANGED <<chain, mem, book, lastBuy, signal, token, inputs, history>>

(***************************************************************************)
(* The sell loop.                                                           *)
(***************************************************************************)
(* the 48h branch reports a sell and goes on to the next token *)
TimedOut(t) == Elapsed(mem[t].cycle, cycle) >= MaxHold
Wanted(t) == TokenNarrative(t) = signal.top /\ Long(signal)

(* mutant: the fallback price of the buy loop used for sells too *)
TooSmallAtPhantom(t) ==
    Value(mem[t], IF price[t] = 0 THEN PhantomPrice ELSE price[t]) < PortfolioFloor

TooSmall(t) == Value(mem[t], price[t]) < PortfolioFloor

Sellable(t) ==
    /\ ~TimedOut(t) /\ ~Wanted(t) /\ ~TooSmall(t)
    /\ SellCheck(Value(mem[t], price[t]))

SellOrder(t) == <<t, mem[t].cycle, "sell">>

(* mutant: the loop does not advance past a held token *)
PassOverForever(t) ==
    /\ step = "sell" /\ t \in todo
    /\ ~Sellable(t)
    /\ UNCHANGED engineVars

PassOver(t) ==
    /\ step = "sell" /\ t \in todo
    /\ ~Sellable(t)
    /\ todo' = todo \ {t}
    /\ UNCHANGED <<chain, step, mem, book, lastBuy, signal, token, inputs, history>>

SendSell(t) ==
    /\ EnvLive
    /\ step = "sell" /\ t \in todo
    /\ Sellable(t)
    /\ Submit(SellOrder(t))
    /\ step' = "sellSwap" /\ token' = t /\ todo' = todo \ {t}
    /\ UNCHANGED <<mem, book, lastBuy, signal, inputs, history>>

(* mutant: a sell that was not confirmed is put back into the loop *)
SellReturnsRetrying ==
    /\ step = "sellSwap"
    /\ SwapReturns(SellOrder(token))
    /\ IF chain'[SellOrder(token)] = "filled"
       THEN mem' = [mem EXCEPT ![token] = NoLot] /\ step' = "sellRow" /\ UNCHANGED todo
       ELSE todo' = todo \cup {token} /\ step' = "sell" /\ UNCHANGED mem
    /\ UNCHANGED <<book, lastBuy, signal, token, inputs, history>>

(* mutant: the row is not removed after the swap *)
SellReturnsRowLeft ==
    /\ step = "sellSwap"
    /\ SwapReturns(SellOrder(token))
    /\ mem' = [mem EXCEPT ![token] = NoLot]
    /\ step' = "sell"
    /\ UNCHANGED <<book, lastBuy, signal, todo, token, inputs, history>>

(* whatever came back, the lot leaves the dict *)
SellReturns ==
    /\ step = "sellSwap"
    /\ SwapReturns(SellOrder(token))
    /\ mem' = [mem EXCEPT ![token] = NoLot]
    /\ step' = "sellRow"
    /\ UNCHANGED <<book, lastBuy, signal, todo, token, inputs, history>>

(* mutant: only the row is removed, the dict keeps the lot *)
PaperSellKeepsLot(t) ==
    /\ ~EnvLive
    /\ step = "sell" /\ t \in todo
    /\ Sellable(t)
    /\ step' = "sellRow" /\ token' = t /\ todo' = todo \ {t}
    /\ UNCHANGED <<chain, mem, book, lastBuy, signal, inputs, history>>

PaperSell(t) ==
    /\ ~EnvLive
    /\ step = "sell" /\ t \in todo
    /\ Sellable(t)
    /\ mem' = [mem EXCEPT ![t] = NoLot]
    /\ step' = "sellRow" /\ token' = t /\ todo' = todo \ {t}
    /\ UNCHANGED <<chain, book, lastBuy, signal, inputs, history>>

(* remove_position_from_db -> close_position; without an open row it does nothing *)
CloseRow ==
    /\ step = "sellRow"
    /\ book' = [book EXCEPT ![token] = NoLot]
    /\ torn' = torn \ {token}
    /\ step' = "sell"
    /\ UNCHANGED <<chain, mem, lastBuy, signal, todo, token, born, spent,
                   tripped, written, faults, inputs>>

(* a database error leaves evaluate: the rest of both loops is skipped *)
RowWriteFails ==
    /\ step \in {"sellRow", "buyRow"}
    /\ EndEvaluation
    /\ torn' = torn \cup {token}
    /\ faults' = faults + 1
    /\ UNCHANGED <<chain, mem, book, lastBuy, signal, token, born, spent,
                   tripped, written, inputs>>

(***************************************************************************)
(* The buy loop.                                                            *)
(***************************************************************************)
TotalSize == SizePosition(cash, Regime.mult, signal.conviction, Regime.cap)
Amount == PerToken(TotalSize, Cardinality(Basket(signal.top)))

BuyWanted == Long(signal) /\ TotalSize >= HeartbeatSize

StartBuying ==
    /\ step = "sell" /\ todo = {}
    /\ BuyWanted
    /\ step' = "buy"
    /\ todo' = Basket(signal.top)
    /\ UNCHANGED <<chain, mem, book, lastBuy, signal, token, inputs, history>>

NoBuy ==
    /\ step = "sell" /\ todo = {}
    /\ ~BuyWanted
    /\ EndEvaluation
    /\ UNCHANGED <<chain, mem, book, lastBuy, signal, token, inputs, history>>

(* mutant: the cooldown of the lot that is held, not of the last buy *)
CoolingDownOfLot(t) == mem[t] # NoLot /\ Elapsed(mem[t].cycle, cycle) < Cooldown

CoolingDown(t) == lastBuy[t] # Never /\ Elapsed(lastBuy[t], cycle) < Cooldown
Buyable(t) == ~CoolingDown(t) /\ Amount >= MinTradeSize /\ BuyCheck(Amount)


(* mutant: no fallback for a missing price *)
EntryPriceRaw(t) == price[t]

EntryPrice(t) == IF price[t] = 0 THEN PhantomPrice ELSE price[t]
NewLot(t) == [cycle |-> cycle, cost |-> Amount, entry |-> EntryPrice(t)]
BuyOrder(t) == <<t, mem[t].cycle, "buy">>

(* mutant: the loop does not advance past a token it refuses *)
SkipBuyForever(t) ==
    /\ step = "buy" /\ t \in todo
    /\ ~Buyable(t)
    /\ UNCHANGED engineVars

SkipBuy(t) ==
    /\ step = "buy" /\ t \in todo
    /\ ~Buyable(t)
    /\ todo' = todo \ {t}
    /\ UNCHANGED <<chain, step, mem, book, lastBuy, signal, token, inputs, history>>

(* mutant: the swap is started and not awaited *)
PlaceOrderAsync(t) ==
    /\ step' = "buyRow"
    /\ IF EnvLive THEN Submit(<<t, cycle, "buy">>) ELSE UNCHANGED chain

(* the swap, when AGENT_MODE asks for one *)
PlaceOrder(t) ==
    IF EnvLive
    THEN Submit(<<t, cycle, "buy">>) /\ step' = "buySwap"
    ELSE UNCHANGED chain /\ step' = "buyRow"

(* portfolio.add replaces the lot the dict had; the order goes out last *)
Buy(t) ==
    /\ step = "buy" /\ t \in todo
    /\ Buyable(t)
    /\ mem' = [mem EXCEPT ![t] = NewLot(t)]
    /\ lastBuy' = [lastBuy EXCEPT ![t] = cycle]
    /\ spent' = spent + Amount
    /\ PlaceOrder(t)
    /\ token' = t /\ todo' = todo \ {t}
    /\ UNCHANGED <<book, signal, born, tripped, torn, written, faults, inputs>>

(* whatever came back, the lot goes into the table next *)
BuyReturns ==
    /\ step = "buySwap"
    /\ SwapReturns(BuyOrder(token))
    /\ step' = "buyRow"
    /\ UNCHANGED <<mem, book, lastBuy, signal, todo, token, inputs, history>>

(* sync_position_to_db -> add_position, an upsert on the symbol *)
WriteRow ==
    /\ step = "buyRow"
    /\ book' = [book EXCEPT ![token] = mem[token]]
    /\ written' = written \cup {<<token, mem[token].cycle>>}
    /\ torn' = torn \ {token}
    /\ step' = "buy"
    /\ UNCHANGED <<chain, mem, lastBuy, signal, todo, token, born, spent,
                   tripped, faults, inputs>>

BuysDone ==
    /\ step = "buy" /\ todo = {}
    /\ EndEvaluation
    /\ UNCHANGED <<chain, mem, book, lastBuy, signal, token, inputs, history>>

EngineStep ==
    \/ \E t \in Token : \/ PassOver(t) \/ SendSell(t) \/ PaperSell(t)
                        \/ SkipBuy(t) \/ Buy(t)
    \/ SellReturns \/ CloseRow \/ StartBuying \/ NoBuy
    \/ BuyReturns \/ WriteRow \/ BuysDone
=============================================================================
