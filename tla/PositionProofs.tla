--------------------------- MODULE PositionProofs ---------------------------
(***************************************************************************)
(* add_position and close_position implement the ledger, and never share or *)
(* abandon a transaction, for any number of tasks, connections and symbols. *)
(*                                                                         *)
(* OneWriter and OwnRowOnly are not inductive alone.  StoreInv adds what a  *)
(* task knows at each point of its method: a close past its SELECT still    *)
(* has the row (its symbol is in no other hand), and what a task is about   *)
(* to commit holds its own change.                                          *)
(***************************************************************************)
EXTENDS PositionStore, TLAPS

IdleHasNoCall == \A t \in Task : pc[t] = "idle" <=> call[t] = None

OneTaskPerSymbol ==
    \A t, u \in Task :
        call[t] # None /\ call[u] # None /\ Sym(t) = Sym(u) => t = u

CloseHasRow ==
    \A t \in Task :
        /\ pc[t] = "select" => call[t].op = "close"
        /\ pc[t] \in {"begin", "write", "commit", "rollback"}
             /\ call[t].op = "close" => book[Sym(t)] # None

CommitHasChange ==
    \A t \in Task : pc[t] = "commit" => work[Sym(t)] = call[t].lot

StoreInv ==
    /\ StoreTypeOK /\ OneWriter /\ OwnRowOnly
    /\ IdleHasNoCall /\ OneTaskPerSymbol /\ CloseHasRow /\ CommitHasChange

(* what a request is: a symbol, and for a close the lot None *)
LEMMA RequestShape ==
    ASSUME NEW r \in Request
    PROVE  /\ r # None /\ r.sym \in Symbol /\ r.lot \in Lot \cup {None}
           /\ r.op \in {"add", "close"}
           /\ r.op = "close" => r.lot = None
           /\ r.op = "add" => r.lot \in Lot
BY NoneAssumption DEF Request

LEMMA StoreInvInit == StoreInit => StoreInv
<1> SUFFICES ASSUME StoreInit PROVE StoreInv
  OBVIOUS
<1> USE DEF StoreInit, Init, NoRows
<1>1. StoreTypeOK
  BY DEF StoreTypeOK, Reply
<1>2. Writing = {}
  BY DEF Writing
<1>3. OneWriter /\ OwnRowOnly
  BY <1>2 DEF OneWriter, OwnRowOnly
<1>4. IdleHasNoCall /\ OneTaskPerSymbol /\ CloseHasRow /\ CommitHasChange
  BY DEF IdleHasNoCall, OneTaskPerSymbol, CloseHasRow, CommitHasChange
<1> QED
  BY <1>1, <1>3, <1>4 DEF StoreInv

(* A task inside a method has a request in hand, and no other task has one  *)
(* for the same symbol.                                                     *)
LEMMA TaskFacts ==
    ASSUME StoreInv, NEW t \in Task, pc[t] # "idle"
    PROVE  /\ call[t] \in Request /\ call[t] # None /\ Sym(t) \in Symbol
           /\ call[t].lot \in Lot \cup {None}
           /\ call[t].op \in {"add", "close"}
           /\ call[t].op = "close" => call[t].lot = None
           /\ \A u \in Task : pc[u] # "idle" /\ u # t => Sym(u) # Sym(t)
<1>1. call[t] \in Request
  BY DEF StoreInv, IdleHasNoCall, StoreTypeOK
<1>2. \A u \in Task : pc[u] # "idle" /\ u # t => Sym(u) # Sym(t)
  BY <1>1, RequestShape DEF StoreInv, IdleHasNoCall, OneTaskPerSymbol
<1> QED
  BY <1>1, <1>2, RequestShape DEF Sym

(* The only open transaction is that of the writing task. *)
LEMMA WriterFacts ==
    ASSUME StoreInv, NEW t \in Writing
    PROVE  Writing = {t} /\ inTx = {ConnOf[t]} /\ t \in Task /\ pc[t] # "idle"
<1>1. Writing = {t} /\ t \in Task
  BY DEF StoreInv, OneWriter, Writing
<1>2. inTx = {ConnOf[t]}
  BY <1>1 DEF StoreInv, OneWriter
<1> QED
  BY <1>1, <1>2 DEF Writing

(***************************************************************************)
(* One lemma per kind of step.                                              *)
(***************************************************************************)
LEMMA EnterKeeps ==
    ASSUME StoreInv, NEW t \in Task, NEW r \in Request, Enter(t, r)
    PROVE  StoreInv'
<1> USE DEF StoreInv
<1>1. /\ call[t] = None /\ pc[t] = "idle" /\ t \notin Writing
      /\ r # None /\ r.sym \in Symbol
  BY RequestShape DEF Enter, Ask, IdleHasNoCall, Writing
<1>2. /\ call' = [call EXCEPT ![t] = r] /\ call'[t] = r
      /\ pc'[t] \in {"select", "begin"}
      /\ pc'[t] = "select" <=> r.op = "close"
      /\ \A u \in Task \ {t} : pc'[u] = pc[u] /\ call'[u] = call[u]
      /\ book' = book /\ work' = work /\ inTx' = inTx
  BY DEF Enter, Ask, Goto, StoreTypeOK
<1>3. StoreTypeOK'
  BY DEF StoreTypeOK, Enter, Ask, Goto, Reply
<1>4. Writing' = Writing
  BY <1>1, <1>2 DEF Writing
<1>5. \A u \in Writing : Sym(u)' = Sym(u)
  BY <1>1, <1>2 DEF Sym, Writing
<1>6. OneWriter' /\ OwnRowOnly'
  BY <1>2, <1>4, <1>5 DEF OneWriter, OwnRowOnly
<1>7. IdleHasNoCall'
  BY <1>1, <1>2 DEF IdleHasNoCall
<1>8. OneTaskPerSymbol'
  BY <1>1, <1>2 DEF OneTaskPerSymbol, Enter, Busy, Sym
<1>9. CloseHasRow' /\ CommitHasChange'
  BY <1>1, <1>2 DEF CloseHasRow, CommitHasChange, Sym
<1> QED
  BY <1>3, <1>6, <1>7, <1>8, <1>9

(* a task that holds no transaction returns with an answer *)
LEMMA ReturnKeeps ==
    ASSUME StoreInv, NEW t \in Task, pc[t] \in {"select", "begin"},
           NEW a \in Reply, Return(t, a), UNCHANGED <<book, work, inTx>>
    PROVE  StoreInv'
<1> USE DEF StoreInv
<1>1. /\ call'[t] = None /\ pc'[t] = "idle"
      /\ \A u \in Task \ {t} : pc'[u] = pc[u] /\ call'[u] = call[u]
  BY DEF Return, Answer, Goto, StoreTypeOK
<1>2. StoreTypeOK'
  BY DEF StoreTypeOK, Return, Answer, Goto
<1>3. Writing' = Writing /\ t \notin Writing
  BY <1>1 DEF Writing
<1>4. \A u \in Writing : Sym(u)' = Sym(u)
  BY <1>1, <1>3 DEF Sym, Writing
<1>5. OneWriter' /\ OwnRowOnly'
  BY <1>3, <1>4 DEF OneWriter, OwnRowOnly
<1>6. IdleHasNoCall'
  BY <1>1 DEF IdleHasNoCall
<1>7. OneTaskPerSymbol'
  BY <1>1 DEF OneTaskPerSymbol, Sym
<1>8. CloseHasRow' /\ CommitHasChange'
  BY <1>1 DEF CloseHasRow, CommitHasChange, Sym
<1> QED
  BY <1>2, <1>5, <1>6, <1>7, <1>8

(* the SELECT sees the committed row: a writer of the same connection is    *)
(* busy with another symbol                                                 *)
LEMMA SelectSees ==
    ASSUME StoreInv, NEW t \in Task, pc[t] = "select"
    PROVE  View(ConnOf[t])[Sym(t)] = book[Sym(t)]
<1>1. CASE ConnOf[t] \notin inTx
  BY <1>1 DEF View
<1>2. CASE ConnOf[t] \in inTx
  <2>1. PICK u \in Writing : TRUE
    BY <1>2 DEF StoreInv, OneWriter
  <2>2. u \in Task /\ pc[u] # "idle" /\ u # t
    BY <2>1 DEF Writing
  <2>3. Sym(t) # Sym(u) /\ Sym(t) \in Symbol
    BY <2>2, TaskFacts
  <2> QED
    BY <1>2, <2>1, <2>3 DEF View, StoreInv, OwnRowOnly
<1> QED
  BY <1>1, <1>2

LEMMA SelectFindsKeeps ==
    ASSUME StoreInv, NEW t \in Task, SelectFinds(t)
    PROVE  StoreInv'
<1> USE DEF StoreInv
<1>1. /\ pc[t] = "select" /\ pc'[t] = "begin" /\ book[Sym(t)] # None
      /\ \A u \in Task \ {t} : pc'[u] = pc[u]
      /\ UNCHANGED <<book, call, reply, work, inTx>>
  BY SelectSees DEF SelectFinds, Goto, StoreTypeOK
<1>2. StoreTypeOK'
  BY <1>1 DEF StoreTypeOK, SelectFinds, Goto
<1>3. Writing' = Writing
  BY <1>1 DEF Writing
<1>4. OneWriter' /\ OwnRowOnly'
  BY <1>1, <1>3 DEF OneWriter, OwnRowOnly, Sym
<1>5. IdleHasNoCall' /\ OneTaskPerSymbol'
  BY <1>1 DEF IdleHasNoCall, OneTaskPerSymbol, Sym
<1>6. CloseHasRow' /\ CommitHasChange'
  BY <1>1 DEF CloseHasRow, CommitHasChange, Sym
<1> QED
  BY <1>2, <1>4, <1>5, <1>6

LEMMA BeginKeeps ==
    ASSUME StoreInv, NEW t \in Task, Begin(t)
    PROVE  StoreInv'
<1> USE DEF StoreInv
<1>1. /\ pc[t] = "begin" /\ pc'[t] = "write"
      /\ \A u \in Task \ {t} : pc'[u] = pc[u]
      /\ inTx = {} /\ inTx' = {ConnOf[t]} /\ work' = book
      /\ UNCHANGED <<book, call, reply>>
  BY DEF Begin, Goto, StoreTypeOK
<1>2. StoreTypeOK'
  BY <1>1, ConnAssumption DEF StoreTypeOK, Begin, Goto
<1>3. Writing = {}
  BY <1>1 DEF OneWriter
<1>4. Writing' = {t}
  BY <1>1, <1>3 DEF Writing
<1>5. OneWriter' /\ OwnRowOnly'
  BY <1>1, <1>4 DEF OneWriter, OwnRowOnly
<1>6. IdleHasNoCall' /\ OneTaskPerSymbol'
  BY <1>1 DEF IdleHasNoCall, OneTaskPerSymbol, Sym
<1>7. CloseHasRow'
  BY <1>1 DEF CloseHasRow, Sym
<1>8. CommitHasChange'
  BY <1>1, <1>3 DEF CommitHasChange, Writing
<1> QED
  BY <1>2, <1>5, <1>6, <1>7, <1>8

LEMMA WriteKeeps ==
    ASSUME StoreInv, NEW t \in Task, Write(t)
    PROVE  StoreInv'
<1> USE DEF StoreInv
<1>1. /\ pc[t] = "write" /\ pc'[t] = "commit" /\ t \in Writing
      /\ \A u \in Task \ {t} : pc'[u] = pc[u]
      /\ work' = [work EXCEPT ![Sym(t)] = call[t].lot]
      /\ UNCHANGED <<book, call, reply, inTx>>
  BY DEF Write, Goto, StoreTypeOK, Writing
<1>2. Sym(t) \in Symbol /\ call[t].lot \in Lot \cup {None} /\ Writing = {t}
  BY <1>1, TaskFacts, WriterFacts
<1>3. StoreTypeOK'
  BY <1>1, <1>2 DEF StoreTypeOK, Write, Goto
<1>4. Writing' = Writing
  BY <1>1 DEF Writing
<1>5. OneWriter'
  BY <1>1, <1>4 DEF OneWriter
<1>6. OwnRowOnly'
  BY <1>1, <1>2, <1>4 DEF OwnRowOnly, StoreTypeOK, Sym
<1>7. IdleHasNoCall' /\ OneTaskPerSymbol'
  BY <1>1 DEF IdleHasNoCall, OneTaskPerSymbol, Sym
<1>8. CloseHasRow'
  BY <1>1 DEF CloseHasRow, Sym
<1>9. CommitHasChange'
  <2>1. \A u \in Task \ {t} : pc'[u] # "commit"
    BY <1>1, <1>2 DEF Writing
  <2>2. work'[Sym(t)] = call[t].lot
    BY <1>1, <1>2 DEF StoreTypeOK
  <2> QED
    BY <1>1, <2>1, <2>2 DEF CommitHasChange, Sym
<1> QED
  BY <1>3, <1>5, <1>6, <1>7, <1>8, <1>9

LEMMA WriteRaisesKeeps ==
    ASSUME StoreInv, NEW t \in Task, WriteRaises(t)
    PROVE  StoreInv'
<1> USE DEF StoreInv
<1>1. /\ pc[t] \in {"write", "commit"} /\ pc'[t] = "rollback"
      /\ \A u \in Task \ {t} : pc'[u] = pc[u]
      /\ UNCHANGED <<book, call, reply, work, inTx>>
  BY DEF WriteRaises, Goto, StoreTypeOK
<1>2. StoreTypeOK'
  BY <1>1 DEF StoreTypeOK, WriteRaises, Goto
<1>3. Writing' = Writing
  BY <1>1 DEF Writing
<1>4. OneWriter' /\ OwnRowOnly'
  BY <1>1, <1>3 DEF OneWriter, OwnRowOnly, Sym
<1>5. IdleHasNoCall' /\ OneTaskPerSymbol'
  BY <1>1 DEF IdleHasNoCall, OneTaskPerSymbol, Sym
<1>6. CloseHasRow' /\ CommitHasChange'
  BY <1>1 DEF CloseHasRow, CommitHasChange, Sym
<1> QED
  BY <1>2, <1>4, <1>5, <1>6

(* the transaction ends, and with it the call; the rows of the symbols in   *)
(* other hands are as they were                                             *)
LEMMA EndKeeps ==
    ASSUME StoreInv, NEW t \in Writing, NEW a \in Reply, Return(t, a),
           inTx' = inTx \ {ConnOf[t]}, work' = NoRows, reply' \in [Task -> Reply],
           book' \in [Symbol -> Lot \cup {None}],
           \A s \in Symbol : s # Sym(t) => book'[s] = book[s]
    PROVE  StoreInv'
<1> USE DEF StoreInv
<1>1. t \in Task /\ pc[t] # "idle" /\ Writing = {t} /\ inTx = {ConnOf[t]}
  BY WriterFacts
<1>2. /\ call'[t] = None /\ pc'[t] = "idle"
      /\ \A u \in Task \ {t} : pc'[u] = pc[u] /\ call'[u] = call[u]
  BY <1>1 DEF Return, Answer, Goto, StoreTypeOK
<1>3. StoreTypeOK'
  BY <1>1 DEF StoreTypeOK, Return, Answer, Goto, NoRows
<1>4. Writing' = {}
  BY <1>1, <1>2 DEF Writing
<1>5. OneWriter' /\ OwnRowOnly'
  BY <1>1, <1>4 DEF OneWriter, OwnRowOnly
<1>6. IdleHasNoCall'
  BY <1>2 DEF IdleHasNoCall
<1>7. OneTaskPerSymbol'
  BY <1>2 DEF OneTaskPerSymbol, Sym
<1>8. CloseHasRow'
  <2> SUFFICES ASSUME NEW u \in Task
               PROVE  /\ pc'[u] = "select" => call'[u].op = "close"
                      /\ pc'[u] \in {"begin", "write", "commit", "rollback"}
                           /\ call'[u].op = "close" => book'[Sym(u)'] # None
    BY DEF CloseHasRow
  <2>1. CASE u = t \/ pc[u] = "idle"
    BY <1>2, <2>1
  <2>2. CASE u # t /\ pc[u] # "idle"
    <3>1. pc'[u] = pc[u] /\ call'[u] = call[u] /\ Sym(u)' = Sym(u)
      BY <1>2, <2>2 DEF Sym
    <3>2. Sym(u) \in Symbol /\ Sym(u) # Sym(t)
      BY <1>1, <2>2, TaskFacts
    <3> QED
      BY <3>1, <3>2 DEF CloseHasRow
  <2> QED
    BY <2>1, <2>2
<1>9. CommitHasChange'
  BY <1>4 DEF CommitHasChange, Writing
<1> QED
  BY <1>3, <1>5, <1>6, <1>7, <1>8, <1>9

LEMMA CommitKeeps ==
    ASSUME StoreInv, NEW t \in Task, Commit(t)
    PROVE  StoreInv'
<1>1. t \in Writing /\ inTx = {ConnOf[t]}
  BY WriterFacts DEF Commit, Writing
<1>2. book' = work
  BY <1>1 DEF Commit, View
<1>3. /\ book' \in [Symbol -> Lot \cup {None}] /\ reply' \in [Task -> Reply]
      /\ \A s \in Symbol : s # Sym(t) => book'[s] = book[s]
  BY <1>1, <1>2 DEF Commit, Return, Answer, StoreInv, StoreTypeOK, OwnRowOnly, Reply
<1> QED
  BY <1>1, <1>3, EndKeeps DEF Commit, Reply

LEMMA RollbackKeeps ==
    ASSUME StoreInv, NEW t \in Task, Rollback(t)
    PROVE  StoreInv'
<1>1. t \in Writing
  BY DEF Rollback, Writing
<1>2. /\ book' \in [Symbol -> Lot \cup {None}] /\ reply' \in [Task -> Reply]
      /\ \A s \in Symbol : s # Sym(t) => book'[s] = book[s]
  BY DEF Rollback, Return, Answer, StoreInv, StoreTypeOK, Reply
<1> QED
  BY <1>1, <1>2, EndKeeps DEF Rollback, Reply

LEMMA CrashKeeps == StoreInv /\ Crash => StoreInv'
<1> SUFFICES ASSUME StoreInv, Crash PROVE StoreInv'
  OBVIOUS
<1> USE DEF StoreInv, Crash, Restart
<1>1. StoreTypeOK'
  BY DEF StoreTypeOK, NoRows, Reply
<1>2. Writing' = {}
  BY DEF Writing
<1>3. OneWriter' /\ OwnRowOnly'
  BY <1>2 DEF OneWriter, OwnRowOnly
<1>4. IdleHasNoCall' /\ OneTaskPerSymbol' /\ CloseHasRow' /\ CommitHasChange'
  BY DEF IdleHasNoCall, OneTaskPerSymbol, CloseHasRow, CommitHasChange
<1> QED
  BY <1>1, <1>3, <1>4

LEMMA StoreInvStep == StoreInv /\ [StoreNext]_storeVars => StoreInv'
<1> SUFFICES ASSUME StoreInv, [StoreNext]_storeVars PROVE StoreInv'
  OBVIOUS
<1>1. ASSUME NEW t \in Task, Step(t) PROVE StoreInv'
  <2>1. CASE SelectFinds(t)
    BY <2>1, SelectFindsKeeps
  <2>2. CASE SelectMisses(t)
    BY <2>2, ReturnKeeps DEF SelectMisses, Reply
  <2>3. CASE Begin(t)
    BY <2>3, BeginKeeps
  <2>4. CASE BeginRaises(t)
    BY <2>4, ReturnKeeps DEF BeginRaises, Reply
  <2>5. CASE Write(t)
    BY <2>5, WriteKeeps
  <2>6. CASE WriteRaises(t)
    BY <2>6, WriteRaisesKeeps
  <2>7. CASE Commit(t)
    BY <2>7, CommitKeeps
  <2>8. CASE Rollback(t)
    BY <2>8, RollbackKeeps
  <2> QED
    BY <1>1, <2>1, <2>2, <2>3, <2>4, <2>5, <2>6, <2>7, <2>8 DEF Step
<1>2. ASSUME NEW t \in Task, NEW r \in Request, Enter(t, r) PROVE StoreInv'
  BY <1>2, EnterKeeps
<1>3. CASE Crash
  BY <1>3, CrashKeeps
<1>4. CASE UNCHANGED storeVars
  BY <1>4 DEF storeVars, StoreInv, StoreTypeOK, OneWriter, OwnRowOnly, Writing,
              IdleHasNoCall, OneTaskPerSymbol, CloseHasRow, CommitHasChange, Sym
<1> QED
  BY <1>1, <1>2, <1>3, <1>4 DEF StoreNext

LEMMA StoreInvAlways == StoreSpec => []StoreInv
  BY StoreInvInit, StoreInvStep, PTL DEF StoreSpec

(* Every variable of the store always has its type.                         *)
THEOREM StoreTypes == StoreSpec => []StoreTypeOK
<1>1. StoreInv => StoreTypeOK
  BY DEF StoreInv
<1> QED
  BY <1>1, StoreInvAlways, PTL

(* The write transaction is always that of exactly one task, between its    *)
(* BEGIN IMMEDIATE (portfolio.py:206, 236) and its commit or rollback; none *)
(* is shared by tasks of one connection and none is left open.              *)
THEOREM StoreOneWriter == StoreSpec => []OneWriter
<1>1. StoreInv => OneWriter
  BY DEF StoreInv
<1> QED
  BY <1>1, StoreInvAlways, PTL

(* What an open transaction would commit differs from the file in the row   *)
(* of its own symbol only: no method of portfolio.py commits another's      *)
(* half-done change.                                                        *)
THEOREM StoreOwnRowOnly == StoreSpec => []OwnRowOnly
<1>1. StoreInv => OwnRowOnly
  BY DEF StoreInv
<1> QED
  BY <1>1, StoreInvAlways, PTL

(***************************************************************************)
(* Refinement: every step of the store is a step of the ledger, or none.    *)
(***************************************************************************)
(* A commit adds or closes the row of its own symbol, and nothing else.     *)
LEMMA CommitIsOneChange ==
    ASSUME StoreInv, NEW t \in Task, Commit(t)
    PROVE  Add(t) \/ Close(t)
<1>1. t \in Writing /\ pc[t] = "commit" /\ pc[t] # "idle"
  BY DEF Commit, Writing
<1>2. inTx = {ConnOf[t]}
  BY <1>1, WriterFacts
<1>3. book' = work
  BY <1>2 DEF Commit, View
<1>4. Sym(t) \in Symbol /\ call[t].op \in {"add", "close"}
      /\ (call[t].op = "close" => call[t].lot = None)
  BY <1>1, TaskFacts
<1>5. work[Sym(t)] = call[t].lot
  BY <1>1 DEF StoreInv, CommitHasChange
<1>6. work = [book EXCEPT ![Sym(t)] = call[t].lot]
  BY <1>1, <1>4, <1>5 DEF StoreInv, OwnRowOnly, StoreTypeOK
<1>7. Answer(t, "ok")
  BY DEF Commit, Return
<1>8. CASE call[t].op = "add"
  BY <1>3, <1>6, <1>7, <1>8 DEF Add, Sym
<1>9. CASE call[t].op = "close"
  <2>1. book[Sym(t)] # None
    BY <1>1, <1>9 DEF StoreInv, CloseHasRow
  <2> QED
    BY <1>3, <1>4, <1>6, <1>7, <1>9, <2>1 DEF Close, Sym
<1> QED
  BY <1>4, <1>8, <1>9

LEMMA StepIsLedgerStep == StoreInv /\ [StoreNext]_storeVars => [Next]_ledgerVars
<1> SUFFICES ASSUME StoreInv, [StoreNext]_storeVars PROVE [Next]_ledgerVars
  OBVIOUS
<1>1. ASSUME NEW t \in Task, Step(t) PROVE [Next]_ledgerVars
  <2>1. CASE SelectFinds(t) \/ Begin(t) \/ Write(t) \/ WriteRaises(t)
    BY <2>1 DEF SelectFinds, Begin, Write, WriteRaises, ledgerVars
  <2>2. CASE SelectMisses(t)
    <3>1. call[t].op = "close" /\ book[Sym(t)] = None
      BY <2>2, SelectSees DEF SelectMisses, StoreInv, CloseHasRow
    <3>2. Miss(t)
      BY <2>2, <3>1 DEF Miss, SelectMisses, Return, Sym
    <3> QED
      BY <3>2 DEF Next
  <2>3. CASE BeginRaises(t) \/ Rollback(t)
    <3>1. Fail(t)
      BY <2>3 DEF Fail, BeginRaises, Rollback, Return
    <3> QED
      BY <3>1 DEF Next
  <2>4. CASE Commit(t)
    BY <2>4, CommitIsOneChange DEF Next
  <2> QED
    BY <1>1, <2>1, <2>2, <2>3, <2>4 DEF Step
<1>2. ASSUME NEW t \in Task, NEW r \in Request, Enter(t, r) PROVE [Next]_ledgerVars
  BY <1>2 DEF Enter, Next
<1>3. CASE Crash
  BY <1>3 DEF Crash, Next
<1>4. CASE UNCHANGED storeVars
  BY <1>4 DEF storeVars, ledgerVars
<1> QED
  BY <1>1, <1>2, <1>3, <1>4 DEF StoreNext

(* add_position and close_position keep the promise of the ledger for any   *)
(* number of tasks, connections, symbols and lots.                          *)
THEOREM StoreImplementsLedger == StoreSpec => LedgerKept
<1>1. StoreInit => Init
  BY DEF StoreInit
<1>2. StoreInv /\ [StoreNext]_storeVars => [Next]_ledgerVars
  BY StepIsLedgerStep
<1> QED
  BY <1>1, <1>2, StoreInvAlways, PTL DEF StoreSpec, LedgerKept, Spec
=============================================================================
