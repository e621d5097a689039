------------------------------- MODULE Sqlite -------------------------------
(***************************************************************************)
(* One SQLite file and the connections on it, as portfolio.py, log.py and   *)
(* cache.py use them through aiosqlite: every writing method is BEGIN       *)
(* IMMEDIATE, a statement, commit, or rollback when one of them raises, and *)
(* each is an await between which other tasks run.  Portfolio, TradeLogger  *)
(* and Cache have a connection each, which all tasks that use one share.    *)
(* Opening a connection is left out: the call that does it is alone until   *)
(* it is open (setup does it for Portfolio, agent.py:114).                  *)
(***************************************************************************)
EXTENDS Integers, Sequences

CONSTANTS Task, Conn, ConnOf,   \* tasks, connections, and the one of a task
          None

ASSUME TaskAssumption ==
    /\ Task \subseteq Nat /\ ConnOf \in [Task -> Conn]
    /\ None \notin Nat

VARIABLES
    up,         \* the process runs
    file,       \* the committed tables
    work,       \* the tables as the open write transaction has left them
    inTx,       \* the connection that has the write lock, as a set
    stuck,      \* connections in a transaction begun without the lock
    raised,     \* connections on which a statement has raised inside a try
    call,       \* the request every task has in hand, or None
    seen,       \* what its method has noted so far: see Note
    pc          \* where the task is in its method

sqliteVars == <<up, file, work, inTx, stuck, raised, call, seen, pc>>

(* the time stamp, the row id and the figure a method keeps in its locals *)
Note(ts, id, high) == [ts |-> ts, id |-> id, high |-> high]
Blank == Note(0, 0, 0)

Op(t) == IF call[t] = None THEN "none" ELSE call[t].op
Goto(t, place) == pc' = [pc EXCEPT ![t] = place]

(* what a SELECT of a connection finds: its own uncommitted changes too *)
View(c) == IF c \in inTx THEN work ELSE file

(* Tasks are interchangeable, so the first idle one of a connection calls. *)
Enter(t, r, place, note) ==
    /\ up
    /\ pc[t] = "idle"
    /\ \A u \in Task : u < t /\ ConnOf[u] = ConnOf[t] => pc[u] # "idle"
    /\ call' = [call EXCEPT ![t] = r]
    /\ seen' = [seen EXCEPT ![t] = note]
    /\ Goto(t, place)
    /\ UNCHANGED <<up, file, work, inTx, stuck, raised>>

Leave(t) ==
    /\ call' = [call EXCEPT ![t] = None]
    /\ seen' = [seen EXCEPT ![t] = Blank]
    /\ Goto(t, "idle")

(* the requests of a connection reach its thread in the order they came *)
InTurn(t) ==
    \A u \in Task : pc[u] = "begin" /\ ConnOf[u] = ConnOf[t] => seen[t].ts <= seen[u].ts

Begin(t) ==
    /\ pc[t] = "begin" /\ InTurn(t)
    /\ inTx = {} /\ ConnOf[t] \notin stuck
    /\ inTx' = {ConnOf[t]}
    /\ work' = file
    /\ Goto(t, "write")
    /\ UNCHANGED <<up, file, stuck, raised, call, seen>>

(* mutant: BEGIN inside the try, so that its failure rolls back too *)
BeginRaisesInTry(t) ==
    /\ pc[t] = "begin" /\ InTurn(t)
    /\ inTx # {} \/ ConnOf[t] \in stuck
    /\ Goto(t, "rollback")
    /\ UNCHANGED <<up, file, work, inTx, stuck, raised, call, seen>>

(* The connection is in a transaction already, or the lock is not had       *)
(* within busy_timeout.  BEGIN stands before the try.                       *)
BeginRaises(t) ==
    /\ pc[t] = "begin" /\ InTurn(t)
    /\ inTx # {} \/ ConnOf[t] \in stuck
    /\ Leave(t)
    /\ UNCHANGED <<up, file, work, inTx, stuck, raised>>

(* The statement leaves these tables.  If another task's commit has ended   *)
(* the transaction meanwhile, the driver begins one of its own accord.      *)
Write(t, tables) ==
    /\ pc[t] = "write"
    /\ inTx \in {{}, {ConnOf[t]}}
    /\ inTx' = {ConnOf[t]}
    /\ work' = tables
    /\ Goto(t, "commit")
    /\ UNCHANGED <<up, file, stuck, raised, call, seen>>

(* The statement, or the commit of a transaction, raises.  A transaction of *)
(* the driver's own that did not get the lock stays open.                   *)
WriteRaises(t) ==
    /\ pc[t] = "write" \/ (pc[t] = "commit" /\ ConnOf[t] \in inTx)
    /\ stuck' = stuck \cup ({ConnOf[t]} \ inTx)
    /\ raised' = raised \cup {ConnOf[t]}
    /\ Goto(t, "rollback")
    /\ UNCHANGED <<up, file, work, inTx, call, seen>>

(* commit(), which does nothing where no transaction is open *)
EndTransaction(t) ==
    /\ file' = View(ConnOf[t])
    /\ inTx' = inTx \ {ConnOf[t]}
    /\ stuck' = stuck \ {ConnOf[t]}
    /\ UNCHANGED <<up, work, raised>>

Commit(t) ==
    /\ pc[t] = "commit"
    /\ EndTransaction(t)
    /\ Leave(t)

(* mutant: the error branch returns without a rollback *)
RollbackForgotten(t) ==
    /\ pc[t] = "rollback"
    /\ Leave(t)
    /\ UNCHANGED <<up, file, work, inTx, stuck, raised>>

(* mutant: the error branch tries again, as often as it takes *)
RollbackRetries(t) ==
    /\ pc[t] = "rollback"
    /\ work' = IF ConnOf[t] \in inTx THEN file ELSE work
    /\ inTx' = inTx \ {ConnOf[t]}
    /\ stuck' = stuck \ {ConnOf[t]}
    /\ Goto(t, "begin")
    /\ UNCHANGED <<up, file, raised, call, seen>>

(* the except branch: rollback and raise *)
Rollback(t) ==
    /\ pc[t] = "rollback"
    /\ work' = IF ConnOf[t] \in inTx THEN file ELSE work
    /\ inTx' = inTx \ {ConnOf[t]}
    /\ stuck' = stuck \ {ConnOf[t]}
    /\ Leave(t)
    /\ UNCHANGED <<up, file, raised>>

(* the process dies; the file keeps what was committed *)
Kill ==
    /\ up /\ up' = FALSE
    /\ work' = file
    /\ inTx' = {} /\ stuck' = {}
    /\ call' = [t \in Task |-> None]
    /\ seen' = [t \in Task |-> Blank]
    /\ pc' = [t \in Task |-> "idle"]
    /\ UNCHANGED <<file, raised>>
=============================================================================
