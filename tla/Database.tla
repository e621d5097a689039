------------------------------ MODULE Database ------------------------------
(***************************************************************************)
(* The SQLite file of the agent with the three parts that write it: the     *)
(* snapshots of Portfolio, the journal of TradeLogger and the quote cache.  *)
(* Tasks make their calls in any interleaving, statements may raise, and    *)
(* the process may die at every await and start again.                      *)
(***************************************************************************)
EXTENDS Snapshots, Journal, QuoteCache

CONSTANTS MaxCalls,     \* bound: calls and starts of the process
          MaxTime       \* bound: ticks of the clock

VARIABLES now,          \* the clock, which outlives the process
          asked,        \* calls and starts so far
          overlap,      \* history: snapshot calls have been in hand together
                        \* since one was last in hand alone or none
          before        \* history: the snapshots when they began to, or none

(* None is no request *)
ASSUME RequestAssumption ==
    /\ None \notin SnapshotRequest \cup CacheRequest
    /\ None \notin [op : {"log_trade"}, tx : Trade] \cup [op : {"log_decision"}]
    /\ None \notin [op : {"update_trade_status"}, id : Nat]

vars == <<sqliteVars, receipts, swept, stored, now, asked, overlap, before>>

NoTables == [snaps |-> <<>>, trades |-> <<>>, cache |-> [k \in Key |-> {}]]

Init ==
    /\ up = FALSE
    /\ file = NoTables /\ work = NoTables
    /\ inTx = {} /\ stuck = {} /\ raised = {}
    /\ call = [t \in Task |-> None]
    /\ seen = [t \in Task |-> Blank]
    /\ pc = [t \in Task |-> "idle"]
    /\ receipts = {} /\ swept = FALSE
    /\ stored = [k \in Key |-> None]
    /\ now = 1 /\ asked = 0
    /\ overlap = FALSE /\ before = <<>>

Count == asked < MaxCalls /\ asked' = asked + 1

SnapshotsInHand == {t \in Task : IsSnapshot(t)}

(* overlap from the second call to come to the last to go, and before it *)
Watch ==
    /\ overlap' = /\ SnapshotsInHand' # {}
                  /\ overlap \/ \E t, u \in SnapshotsInHand' : t # u
    /\ before' = IF ~overlap' THEN <<>> ELSE IF overlap THEN before ELSE file.snaps

AskSnapshot(t, r) ==
    /\ Count
    /\ ConnOf[t] = "portfolio" /\ r \in SnapshotRequest
    /\ Enter(t, r, "read", Blank)
    /\ Watch
    /\ UNCHANGED <<receipts, swept, stored, now>>

AskJournal(t, r) ==
    /\ Count
    /\ ConnOf[t] = "journal" /\ r \in JournalRequest
    /\ Enter(t, r, "begin", Note(now, 0, 0))
    /\ UNCHANGED <<receipts, swept, stored, now, overlap, before>>

(* the sets of a key do not overlap, as in scripts/test_data.py *)
AskCache(t, r) ==
    /\ Count
    /\ ConnOf[t] = "cache" /\ r \in CacheRequest
    /\ \A u \in Task : Op(u) = "set" => call[u].key # r.key
    /\ Enter(t, r, IF swept THEN "begin" ELSE "connect", Note(now, 0, 0))
    /\ swept' = TRUE
    /\ UNCHANGED <<receipts, stored, now, overlap, before>>

(* the tables after the statement of a call *)
After(t, tables) ==
    [snaps |-> SnapsAfter(t, tables.snaps),
     trades |-> TradesAfter(t, tables.trades),
     cache |-> CacheAfter(t, tables.cache)]

Return(t) ==
    /\ Commit(t)
    /\ receipts' = receipts \cup Receipts(t)
    /\ stored' = IF Op(t) = "set" THEN [stored EXCEPT ![call[t].key] = seen[t].ts] ELSE stored

Fail(t) ==
    /\ \/ BeginRaises(t) \/ ValueRaises(t) \/ Rollback(t)
       \/ CheckpointRaises(t) \/ SweepRaises(t)
    /\ UNCHANGED <<receipts, stored>>

GoOn(t) ==
    /\ \/ ReadLatest(t) \/ ReadHighest(t)
       \/ Begin(t) \/ Write(t, After(t, View(ConnOf[t]))) \/ WriteRaises(t)
       \/ Schema(t) \/ Checkpoint(t) \/ Sweep(t, now) \/ SweepEnds(t, now)
    /\ UNCHANGED <<receipts, stored>>

(* the next await of a call *)
Step(t) ==
    /\ Return(t) \/ Fail(t) \/ GoOn(t)
    /\ Watch
    /\ UNCHANGED <<swept, now, asked>>

Start ==
    /\ InitializeCash
    /\ Count
    /\ UNCHANGED <<receipts, swept, stored, now, overlap, before>>

Crash ==
    /\ Kill
    /\ swept' = FALSE /\ overlap' = FALSE /\ before' = <<>>
    /\ UNCHANGED <<receipts, stored, now, asked>>

Tick ==
    /\ now < MaxTime /\ now' = now + 1
    /\ UNCHANGED <<sqliteVars, receipts, swept, stored, asked, overlap, before>>

Ask(t) == \E r \in SnapshotRequest \cup JournalRequest \cup CacheRequest :
              AskSnapshot(t, r) \/ AskJournal(t, r) \/ AskCache(t, r)

Next == Start \/ Crash \/ Tick \/ \E t \in Task : Ask(t) \/ Step(t)

(* The event loop goes on as long as a task can, and so do the threads of   *)
(* the connections: waiting for the lock ends at busy_timeout at the latest.*)
Spec == Init /\ [][Next]_vars /\ WF_vars(\E t \in Task : Step(t))

-----------------------------------------------------------------------------

(* Type invariant. *)
DatabaseTypeOK ==
    /\ up \in BOOLEAN /\ swept \in BOOLEAN /\ overlap \in BOOLEAN
    /\ inTx \subseteq Conn /\ stuck \subseteq Conn /\ raised \subseteq Conn
    /\ \A tables \in {file, work} :
           /\ tables.snaps \in Seq([cash : Amount, peak : Amount])
           /\ tables.trades \in Seq([tx : Trade \cup {None}, ts : Nat,
                                     status : {"pending", "logged", "confirmed"}])
           /\ tables.cache \in [Key -> SUBSET [id : Nat, ts : Nat]]
    /\ before \in Seq([cash : Amount, peak : Amount])
    /\ seen \in [Task -> [ts : Nat, id : Nat, high : Amount \cup {0}]]
    /\ stored \in [Key -> Nat \cup {None}]
    /\ now \in Nat /\ asked \in Nat

(* The write lock is never left behind: a connection that has it has a call *)
(* under way that will commit or roll back, and only the cache, whose sweep *)
(* has no rollback, can be left in a transaction it has begun in vain.      *)
LockIsHeld ==
    /\ \A c \in inTx : \E t \in Task : ConnOf[t] = c /\ pc[t] \in {"write", "commit", "rollback", "swept"}
    /\ \A c \in stuck \ {"cache"} : \E t \in Task : ConnOf[t] = c /\ pc[t] = "rollback"

(* An id log_trade has returned is that trade's for good: over status       *)
(* updates, over rollbacks of other calls and over a crash.  A row that is  *)
(* confirmed has been acknowledged: no update meets the row of another.     *)
JournalIds ==
    /\ \A r \in receipts :
           /\ r.id \in DOMAIN file.trades
           /\ file.trades[r.id].tx = r.tx /\ file.trades[r.id].ts = r.ts
    /\ \A i \in DOMAIN file.trades :
           file.trades[i].status = "confirmed" => \E r \in receipts : r.id = i

(* The heartbeat never asks for a trade when one logged in the last 22      *)
(* hours was acknowledged, whatever else was logged or rolled back since.   *)
(* That is so at the heartbeat hour too, as in ARCHITECTURE.md ("If no      *)
(* natural trade in 22 hours"): the docstring of check_heartbeat ("or if    *)
(* current UTC hour matches HEARTBEAT_HOUR") says the contrary.             *)
HeartbeatHeard ==
    \A r \in receipts :
        now - r.ts < HeartbeatWindow => ~CheckHeartbeat(file.trades, now).needed

(* What a set has stored is served until it expires, over sweeps and over a *)
(* crash, as long as no statement of the cache has raised: a rollback takes *)
(* with it what another call has written in the same transaction.           *)
NewestServed ==
    "cache" \notin raised =>
        \A k \in Key :
            stored[k] # None /\ now - stored[k] < TTL =>
                LET got == Get(file.cache, k, now) IN got # None /\ got.ts >= stored[k]

(* Refinement: the snapshots are the account of CashAccount.  A call that   *)
(* returns has made its cash what get_cash_balance answers and has raised   *)
(* the peak risk.py reads to it; one that raises has changed neither.  Only *)
(* calls that overlap at their awaits can lower the peak, and never below   *)
(* what it was before they did.                                             *)
Writers == {t \in Task : ConnOf[t] = "portfolio"}

Account ==
    INSTANCE CashAccount WITH
        Caller <- Writers, Opening <- InitialCash,
        cash <- Balance(file.snaps), mark <- HighestPeak(file.snaps),
        inHand <- [t \in Writers |-> IF IsSnapshot(t) THEN call[t].cash ELSE None],
        written <- {t \in SnapshotsInHand : pc[t] = "commit"},
        overlapped <- overlap, floor <- HighestPeak(before)

AccountIsKept == Account!Spec

(* All calls return or raise: none waits for a lock that another, or the    *)
(* cache's unfinished sweep, never lets go.                                 *)
CallsReturn == []<>(\A t \in Task : call[t] = None)
=============================================================================
