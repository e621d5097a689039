--------------------------- MODULE PositionStore ---------------------------
(***************************************************************************)
(* add_position and close_position of src/portfolio.py over aiosqlite.      *)
(* Tasks of one event loop share a connection (all of Portfolio's methods   *)
(* do; agent.py:209 gathers forced sells that close rows in parallel), and  *)
(* a second connection on the same file may write too (TradeLogger has its  *)
(* own).  Every await is a point where another task may run: SELECT, BEGIN  *)
(* IMMEDIATE, the statement, commit and rollback are separate steps.        *)
(* Each symbol is in the hands of one task at a time: the engine is         *)
(* sequential, and Phase 6 lists a row once.                                *)
(***************************************************************************)
EXTENDS PositionLedger

CONSTANTS Conn, ConnOf      \* the connections, and the one every task uses

ASSUME ConnAssumption == ConnOf \in [Task -> Conn]

VARIABLES
    work,       \* the rows as the open transaction has left them
    inTx,       \* connections with an open write transaction
    pc          \* where every task is in its method

(* book is what the database file holds: the committed rows *)
storeVars == <<book, call, reply, work, inTx, pc>>

NoRows == [s \in Symbol |-> None]

StoreInit ==
    /\ Init
    /\ work = NoRows
    /\ inTx = {}
    /\ pc = [t \in Task |-> "idle"]

Goto(t, place) == pc' = [pc EXCEPT ![t] = place]
Sym(t) == call[t].sym
Busy(s) == \E t \in Task : call[t] # None /\ Sym(t) = s

(* the rows a connection sees: its own uncommitted changes included *)
View(c) == IF c \in inTx THEN work ELSE book

(* a method is called; close_position starts with a SELECT *)
Enter(t, r) ==
    /\ ~Busy(r.sym)
    /\ Ask(t, r)
    /\ Goto(t, IF r.op = "close" THEN "select" ELSE "begin")
    /\ UNCHANGED <<work, inTx>>

Return(t, a) == Answer(t, a) /\ Goto(t, "idle")

SelectFinds(t) ==
    /\ pc[t] = "select"
    /\ View(ConnOf[t])[Sym(t)] # None
    /\ Goto(t, "begin")
    /\ UNCHANGED <<book, call, reply, work, inTx>>

(* mutant: a missing row is reported by returning nothing *)
SelectMissesSilently(t) ==
    /\ pc[t] = "select"
    /\ View(ConnOf[t])[Sym(t)] = None
    /\ Return(t, None)
    /\ UNCHANGED <<book, work, inTx>>

SelectMisses(t) ==
    /\ pc[t] = "select"
    /\ View(ConnOf[t])[Sym(t)] = None
    /\ Return(t, "missing")
    /\ UNCHANGED <<book, work, inTx>>

(* mutant: BEGIN DEFERRED, which takes no lock from other connections *)
BeginDeferred(t) ==
    /\ pc[t] = "begin"
    /\ ConnOf[t] \notin inTx
    /\ inTx' = inTx \cup {ConnOf[t]}
    /\ work' = book
    /\ Goto(t, "write")
    /\ UNCHANGED <<book, call, reply>>

(* BEGIN IMMEDIATE takes the only write lock of the file *)
Begin(t) ==
    /\ pc[t] = "begin"
    /\ inTx = {}
    /\ inTx' = {ConnOf[t]}
    /\ work' = book
    /\ Goto(t, "write")
    /\ UNCHANGED <<book, call, reply>>

(* mutant: BEGIN inside the try, so that its failure rolls back too *)
BeginRaisesInTry(t) ==
    /\ pc[t] = "begin"
    /\ inTx # {}
    /\ Goto(t, "rollback")
    /\ UNCHANGED <<book, call, reply, work, inTx>>

(* mutant: the lock is waited for without a timeout *)
BeginWaits(t) ==
    /\ pc[t] = "begin"
    /\ inTx # {}
    /\ UNCHANGED storeVars

(* The connection is in a transaction already, or the lock is not had       *)
(* within busy_timeout.  BEGIN stands before the try: nothing is rolled     *)
(* back.                                                                    *)
BeginRaises(t) ==
    /\ pc[t] = "begin"
    /\ inTx # {}
    /\ Return(t, "error")
    /\ UNCHANGED <<book, work, inTx>>

(* INSERT ... ON CONFLICT DO UPDATE, or UPDATE ... SET open=0 *)
Write(t) ==
    /\ pc[t] = "write"
    /\ work' = [work EXCEPT ![Sym(t)] = call[t].lot]
    /\ Goto(t, "commit")
    /\ UNCHANGED <<book, call, reply, inTx>>

(* mutant: the error of a commit is swallowed *)
WriteRaisesSwallowed(t) ==
    /\ pc[t] \in {"write", "commit"}
    /\ inTx' = inTx \ {ConnOf[t]}
    /\ work' = NoRows
    /\ Return(t, "ok")
    /\ UNCHANGED book

(* the statement or the commit raises: the except branch follows *)
WriteRaises(t) ==
    /\ pc[t] \in {"write", "commit"}
    /\ Goto(t, "rollback")
    /\ UNCHANGED <<book, call, reply, work, inTx>>

Commit(t) ==
    /\ pc[t] = "commit"
    /\ book' = View(ConnOf[t])
    /\ inTx' = inTx \ {ConnOf[t]}
    /\ work' = NoRows
    /\ Return(t, "ok")

Rollback(t) ==
    /\ pc[t] = "rollback"
    /\ inTx' = inTx \ {ConnOf[t]}
    /\ work' = NoRows
    /\ Return(t, "error")
    /\ UNCHANGED book

(* the process dies; the file keeps what was committed *)
Crash ==
    /\ Restart
    /\ inTx' = {}
    /\ work' = NoRows
    /\ pc' = [t \in Task |-> "idle"]

Step(t) ==
    \/ SelectFinds(t) \/ SelectMisses(t)
    \/ Begin(t) \/ BeginRaises(t)
    \/ Write(t) \/ WriteRaises(t)
    \/ Commit(t) \/ Rollback(t)

StoreNext ==
    \/ \E t \in Task : Step(t) \/ \E r \in Request : Enter(t, r)
    \/ Crash

StoreSpec == StoreInit /\ [][StoreNext]_storeVars
StoreFairSpec == StoreSpec /\ \A t \in Task : WF_storeVars(Step(t))

(***************************************************************************)
(* Properties.                                                              *)
(***************************************************************************)
Writing == {t \in Task : pc[t] \in {"write", "commit", "rollback"}}

(* Every variable has the type its declaration says. *)
StoreTypeOK ==
    /\ book \in [Symbol -> Lot \cup {None}]
    /\ call \in [Task -> Request \cup {None}]
    /\ reply \in [Task -> Reply]
    /\ work \in [Symbol -> Lot \cup {None}]
    /\ inTx \in SUBSET Conn
    /\ pc \in [Task -> {"idle", "select", "begin", "write", "commit", "rollback"}]

(* A transaction is open exactly while one task is between its BEGIN and    *)
(* its commit or rollback: none is shared by two tasks of a connection, and *)
(* none is left behind, where it would keep every later BEGIN from the lock.*)
OneWriter ==
    /\ inTx = {ConnOf[t] : t \in Writing}
    /\ \A t, u \in Writing : t = u

(* What an open transaction would commit is what the file holds, but for    *)
(* the symbol of the task that opened it.                                   *)
OwnRowOnly ==
    \A t \in Writing, s \in Symbol :
        s # Sym(t) => work[s] = book[s]

(* add_position and close_position keep the promise of the ledger: at one   *)
(* instant and entirely, or with an error and not at all.                   *)
LedgerKept == Spec

(* Every call comes back, whatever the database raises. *)
CallsReturn == \A t \in Task : call[t] # None ~> call[t] = None
=============================================================================
