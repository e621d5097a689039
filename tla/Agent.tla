------------------------------- MODULE Agent -------------------------------
(***************************************************************************)
(* src/agent.py: the life of the process around the decision engine.        *)
(* main_loop waits, runs a cycle, and stops at the signal handlers' event;  *)
(* a cycle reads the table and the prices, notes the rows whose stop or     *)
(* take price is reached, runs the engine, and then executes the noted      *)
(* sells in parallel.  The scripts that (re)start the agent kill whatever   *)
(* was running, and an exception out of run_cycle ends the process without  *)
(* shutdown(): both are Crash, at any point.                                *)
(***************************************************************************)
EXTENDS DecisionEngine

CONSTANTS
    CliLive,        \* --mode is not "paper": Agent.mode
    InitialCash,    \* the values --cash is given
    Prices,         \* the prices a token may have; 0 is no price
    Convictions,    \* the convictions the scan may end with
    MaxFaults       \* bound: crashes and failed database writes

ASSUME AgentAssumption ==
    /\ InitialCash \subseteq Nat
    /\ Prices \subseteq Nat /\ 0 \in Prices
    /\ Convictions \subseteq Int
    /\ MaxFaults \in Nat

VARIABLES
    pc,             \* where the process is
    stop,           \* _shutdown_requested
    forced          \* one task per forced sell of the cycle, and where it is

agentVars == <<pc, stop, forced>>
vars == <<engineVars, agentVars>>

Signals == [top : Narrative, conviction : Convictions]
NoPrices == [t \in Token |-> 0]
AnyToken == CHOOSE t \in Token : TRUE
NoForced == [t \in Token |-> "idle"]
Nothing == [t \in Token |-> NoLot]

Init ==
    /\ WalletInit
    /\ step = "idle" /\ signal = NoSignal /\ todo = {} /\ token = AnyToken
    /\ mem = Nothing /\ book = Nothing
    /\ lastBuy = [t \in Token |-> Never]
    /\ price = NoPrices /\ cash = 0 /\ peak = 0 /\ cycle = 0 /\ born = 0
    /\ spent = 0 /\ tripped = Never /\ torn = {} /\ written = {} /\ faults = 0
    /\ pc = "off" /\ stop = FALSE /\ forced = NoForced

(* mutant: the peak of the latest snapshot instead of the largest one *)
StartFromLatest(c) ==
    /\ pc = "off"
    /\ cycle < MaxCycles
    /\ pc' = "wait"
    /\ cash' = c
    /\ peak' = Greater(cash, c)
    /\ born' = cycle
    /\ UNCHANGED <<chain, step, mem, book, lastBuy, signal, todo, token, price,
                   cycle, spent, tripped, torn, written, faults, stop, forced>>

(* setup: initialize_cash appends a snapshot row; the dict starts empty, *)
(* nothing is loaded from the positions table                            *)
Start(c) ==
    /\ pc = "off"
    /\ cycle < MaxCycles
    /\ pc' = "wait"
    /\ cash' = c
    /\ peak' = Greater(peak, c)
    /\ born' = cycle
    /\ UNCHANGED <<chain, step, mem, book, lastBuy, signal, todo, token, price,
                   cycle, spent, tripped, torn, written, faults, stop, forced>>

(* _signal_handler *)
RequestStop ==
    /\ pc # "off" /\ ~stop
    /\ stop' = TRUE
    /\ UNCHANGED <<engineVars, pc, forced>>

(* the interval passes and the event is still not set *)
Wait ==
    /\ pc = "wait" /\ ~stop
    /\ cycle < MaxCycles
    /\ cycle' = cycle + 1
    /\ pc' = "observe"
    /\ UNCHANGED <<chain, step, mem, book, lastBuy, signal, todo, token, price,
                   cash, peak, history, stop, forced>>

StopSeen ==
    /\ pc = "wait" /\ stop
    /\ pc' = "closing"
    /\ UNCHANGED <<engineVars, stop, forced>>

(* Phases 1 to 4.  The rows are read before the prices are awaited, but the *)
(* process writes none in between.  A token the answer lacks, or a failed   *)
(* fetch, leaves the price at 0.                                            *)
MustSell(t, p) ==
    /\ book[t] # NoLot
    /\ \/ StopReached(ComputeStop(book[t].entry, Places), p)
       \/ TakeReached(ComputeTake(book[t].entry, Places), p)

Observe(m) ==
    /\ pc = "observe"
    /\ price' = m
    /\ forced' = [t \in Token |-> IF MustSell(t, m[t]) THEN "read" ELSE "idle"]
    /\ spent' = 0
    /\ pc' = "decide"
    /\ UNCHANGED <<chain, step, mem, book, lastBuy, signal, todo, token, cash,
                   peak, cycle, born, tripped, torn, written, faults, stop>>

(* Phase 5: the engine, whose exceptions end in the cycle's log *)
Evaluate(s) ==
    /\ pc = "decide"
    /\ BreakerTrips(s) \/ ExposureRefuses(s) \/ GuardsPass(s)
    /\ UNCHANGED agentVars

EvaluationStep ==
    /\ pc = "decide"
    /\ EngineStep
    /\ UNCHANGED agentVars

EvaluationRaises ==
    /\ pc = "decide"
    /\ \/ SignalFails
       \/ RowWriteFails /\ faults < MaxFaults
    /\ UNCHANGED agentVars

EvaluationEnds ==
    /\ pc = "decide" /\ step = "done"
    /\ step' = "idle"
    /\ pc' = "force"
    /\ UNCHANGED <<chain, mem, book, lastBuy, signal, todo, token, inputs,
                   history, stop, forced>>

(***************************************************************************)
(* Phase 6: _execute_sell, one task per noted row, in parallel.             *)
(***************************************************************************)
(* mutant: rows carry the key the forced sell reads *)
RowKeysWithUnits == {"symbol", "entry_ts", "entry_price", "units", "tx_hash",
                     "stop_price", "take_price"}

(* the keys _row_to_position gives a row, and the one _execute_sell wants *)
RowKeys == {"symbol", "entry_ts", "entry_price", "amount", "tx_hash",
            "stop_price", "take_price"}

TaskTo(t, place) == forced' = [forced EXCEPT ![t] = place]
NoteOrder(t) == <<t, book[t].cycle, "sell">>

(* pos["units"] of a row that is there: KeyError, gathered and logged *)
ForcedRaises(t) ==
    /\ pc = "force" /\ forced[t] = "read"
    /\ book[t] # NoLot /\ "units" \notin RowKeys
    /\ TaskTo(t, "idle")
    /\ UNCHANGED <<engineVars, pc, stop>>

(* the engine closed the row in Phase 5: zero units are swapped all the same *)
ForcedRead(t) ==
    /\ pc = "force" /\ forced[t] = "read"
    /\ book[t] = NoLot \/ "units" \in RowKeys
    /\ TaskTo(t, IF CliLive THEN "swap" ELSE "close")
    /\ IF CliLive /\ book[t] # NoLot
       THEN Submit(NoteOrder(t))
       ELSE UNCHANGED chain
    /\ UNCHANGED <<step, mem, book, lastBuy, signal, todo, token, inputs,
                   history, pc, stop>>

ForcedReturns(t) ==
    /\ pc = "force" /\ forced[t] = "swap"
    /\ TaskTo(t, "close")
    /\ IF book[t] # NoLot THEN SwapReturns(NoteOrder(t)) ELSE UNCHANGED chain
    /\ UNCHANGED <<step, mem, book, lastBuy, signal, todo, token, inputs,
                   history, pc, stop>>

(* close_position; Portfolio.positions is not touched.  Its errors are      *)
(* logged; as it only gets here for a row that is gone, they change nothing *)
ForcedClose(t) ==
    /\ pc = "force" /\ forced[t] = "close"
    /\ TaskTo(t, "idle")
    /\ book' = [book EXCEPT ![t] = NoLot]
    /\ UNCHANGED <<chain, step, mem, lastBuy, signal, todo, token, inputs,
                   history, pc, stop>>

(* run_cycle returns; its locals are gone *)
CycleOver == pc = "force" /\ forced = NoForced

CycleEnds ==
    /\ CycleOver
    /\ pc' = "wait"
    /\ signal' = NoSignal /\ token' = AnyToken /\ price' = NoPrices
    /\ UNCHANGED <<chain, step, mem, book, lastBuy, todo, cash, peak,
                   cycle, history, stop, forced>>

(***************************************************************************)
(* The end of the process.                                                  *)
(***************************************************************************)
ForgetMemory ==
    /\ pc' = "off" /\ stop' = FALSE /\ forced' = NoForced
    /\ step' = "idle" /\ signal' = NoSignal /\ todo' = {} /\ token' = AnyToken
    /\ mem' = Nothing
    /\ lastBuy' = [t \in Token |-> Never]
    /\ price' = NoPrices
    /\ torn' = {} /\ spent' = 0

(* shutdown() *)
Shutdown ==
    /\ pc = "closing"
    /\ ForgetMemory
    /\ UNCHANGED <<chain, book, cash, peak, cycle, born, tripped, written, faults>>

Crash ==
    /\ pc # "off" /\ faults < MaxFaults
    /\ ForgetMemory
    /\ WalletCrash
    /\ faults' = faults + 1
    /\ UNCHANGED <<book, cash, peak, cycle, born, tripped, written>>

ProcessStep ==
    \/ Wait \/ StopSeen \/ Shutdown
    \/ \E m \in [Token -> Prices] : Observe(m)
    \/ \E s \in Signals : Evaluate(s)
    \/ EvaluationStep \/ EvaluationRaises \/ EvaluationEnds
    \/ \E t \in Token : \/ ForcedRaises(t) \/ ForcedRead(t)
                        \/ ForcedReturns(t) \/ ForcedClose(t)
    \/ CycleEnds

Next ==
    \/ ProcessStep
    \/ \E c \in InitialCash : Start(c)
    \/ RequestStop
    \/ Crash

Spec == Init /\ [][Next]_vars

(* A running process keeps running: every await it makes is bounded by a   *)
(* timeout (twak 300 s, CMC_TIMEOUT, busy_timeout, the interval itself).    *)
FairSpec == Spec /\ WF_vars(ProcessStep)
=============================================================================
