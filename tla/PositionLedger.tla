--------------------------- MODULE PositionLedger ---------------------------
(***************************************************************************)
(* What src/portfolio.py promises of the positions table: every add or      *)
(* close either happens at one instant, or reports an error and leaves the  *)
(* table as it was; a close of a symbol that is not open says so.           *)
(***************************************************************************)
CONSTANTS Task, Symbol, Lot, None

VARIABLES book,     \* the open lot of every symbol, or None
          call,     \* the request every task has in hand, or None
          reply     \* what its last request came back with

ledgerVars == <<book, call, reply>>

Request == [op : {"add"}, sym : Symbol, lot : Lot]
             \cup [op : {"close"}, sym : Symbol, lot : {None}]
Reply == {"none", "ok", "missing", "error"}

ASSUME NoneAssumption == None \notin Lot /\ None \notin Request

Init ==
    /\ book = [s \in Symbol |-> None]
    /\ call = [t \in Task |-> None]
    /\ reply = [t \in Task |-> "none"]

Ask(t, r) ==
    /\ call[t] = None
    /\ call' = [call EXCEPT ![t] = r]
    /\ reply' = [reply EXCEPT ![t] = "none"]
    /\ UNCHANGED book

Answer(t, a) ==
    /\ call[t] # None
    /\ call' = [call EXCEPT ![t] = None]
    /\ reply' = [reply EXCEPT ![t] = a]

Add(t) ==
    /\ Answer(t, "ok")
    /\ call[t].op = "add"
    /\ book' = [book EXCEPT ![call[t].sym] = call[t].lot]

Close(t) ==
    /\ Answer(t, "ok")
    /\ call[t].op = "close" /\ book[call[t].sym] # None
    /\ book' = [book EXCEPT ![call[t].sym] = None]

Miss(t) ==
    /\ Answer(t, "missing")
    /\ call[t].op = "close" /\ book[call[t].sym] = None
    /\ UNCHANGED book

Fail(t) == Answer(t, "error") /\ UNCHANGED book

(* the process dies: whoever was waiting is gone, what was done is done *)
Restart ==
    /\ call' = [t \in Task |-> None]
    /\ reply' = [t \in Task |-> "none"]
    /\ UNCHANGED book

Next ==
    \/ \E t \in Task : \/ \E r \in Request : Ask(t, r)
                       \/ Add(t) \/ Close(t) \/ Miss(t) \/ Fail(t)
    \/ Restart

Spec == Init /\ [][Next]_ledgerVars
=============================================================================
