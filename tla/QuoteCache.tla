----------------------------- MODULE QuoteCache -----------------------------
(***************************************************************************)
(* The tables of src/cache.py.  A row is its id and its time stamp.  A      *)
(* symbol has one row, which a later set replaces; trending and fear_greed  *)
(* are lists one adds to.  The first call of a process makes the tables,    *)
(* truncates the log and deletes what has expired before it does what it    *)
(* was called for; the others do not wait for that.                         *)
(***************************************************************************)
EXTENDS Sqlite

CONSTANTS Symbol, List,     \* symbols with a quote, and the two list tables
          TTL               \* CACHE_TTL_SECONDS, in ticks

ASSUME CacheAssumption == TTL \in Nat /\ None \notin [id : Nat, ts : Nat]

VARIABLES swept,            \* _checkpoint_done: the first call has come
          stored            \* time stamp of the last set of a key that returned

Key == Symbol \cup List

CacheRequest == [op : {"set"}, key : Key]

Alive(e, now) == e.ts > now - TTL

(* mutant: what expires now is deleted too early by a tick *)
SweptEager(cache, now) == [k \in Key |-> {e \in cache[k] : e.ts > now - TTL + 1}]

(* _gc_expired: DELETE ... WHERE ts < cutoff *)
Swept(cache, now) == [k \in Key |-> {e \in cache[k] : e.ts >= now - TTL}]

(* ORDER BY id DESC LIMIT 1 *)
Newest(rows) == CHOOSE e \in rows : \A f \in rows : f.id <= e.id

(* the row get_quote, get_trending and get_fear_greed read *)
Get(cache, k, now) ==
    LET alive == {e \in cache[k] : Alive(e, now)}
    IN  IF alive = {} THEN None ELSE Newest(alive)

(* above all ids that are there, as AUTOINCREMENT is *)
NextId(rows) == IF rows = {} THEN 1 ELSE Newest(rows).id + 1

CacheAfter(t, cache) ==
    IF Op(t) # "set" THEN cache
    ELSE [cache EXCEPT ![call[t].key] =
             IF call[t].key \in List
             THEN @ \cup {[id |-> NextId(@), ts |-> seen[t].ts]}
             ELSE {[id |-> 1, ts |-> seen[t].ts]}]

(* _init_schema: executescript commits what is open, the tables are there *)
Schema(t) ==
    /\ pc[t] = "connect"
    /\ EndTransaction(t)
    /\ Goto(t, "checkpoint")
    /\ UNCHANGED <<call, seen>>

(* checkpoint, which raises inside a transaction of the connection; the     *)
(* sweep is not tried again then                                            *)
Checkpoint(t) ==
    /\ pc[t] = "checkpoint" /\ ConnOf[t] \notin inTx
    /\ Goto(t, "sweep")
    /\ UNCHANGED <<up, file, work, inTx, stuck, raised, call, seen>>

CheckpointRaises(t) ==
    /\ pc[t] = "checkpoint" /\ ConnOf[t] \in inTx
    /\ Leave(t)
    /\ UNCHANGED <<up, file, work, inTx, stuck, raised>>

(* The deletes join a transaction that is open, or the driver opens one.    *)
Sweep(t, now) ==
    /\ pc[t] = "sweep"
    /\ inTx \in {{}, {ConnOf[t]}}
    /\ inTx' = {ConnOf[t]}
    /\ work' = LET tables == View(ConnOf[t])
               IN  [tables EXCEPT !.cache = Swept(@, now)]
    /\ Goto(t, "swept")
    /\ UNCHANGED <<up, file, stuck, raised, call, seen>>

(* The lock is not had in time: nothing rolls back the driver's transaction.*)
SweepRaises(t) ==
    /\ pc[t] = "sweep" /\ inTx \notin {{}, {ConnOf[t]}}
    /\ stuck' = stuck \cup {ConnOf[t]}
    /\ Leave(t)
    /\ UNCHANGED <<up, file, work, inTx, raised>>

(* commits whatever transaction the connection is in, and goes on *)
SweepEnds(t, now) ==
    /\ pc[t] = "swept"
    /\ EndTransaction(t)
    /\ seen' = [seen EXCEPT ![t] = Note(now, 0, 0)]
    /\ Goto(t, "begin")
    /\ UNCHANGED call
=============================================================================
