----------------------------- MODULE Snapshots -----------------------------
(***************************************************************************)
(* The table portfolio_snapshots of src/portfolio.py: initialize_cash,      *)
(* update_cash, compute_value, get_cash_balance, and the peak that risk.py  *)
(* reads.  A row is its cash and its peak.  The value of positions is 0 in  *)
(* every row: compute_value raises on a row of the positions table, whose   *)
(* key is "amount" and not "units", so it succeeds only without any.        *)
(***************************************************************************)
EXTENDS Sqlite, Arith

CONSTANTS Amount,       \* what cash may be reported as
          InitialCash   \* the agent's argument of that name

ASSUME AmountAssumption == Amount \subseteq Nat /\ InitialCash \in Amount

Largest(S) == CHOOSE x \in S : \A y \in S : y <= x

Row(cash, peak) == [cash |-> cash, peak |-> peak]

(* get_cash_balance *)
Balance(rows) == IF rows = <<>> THEN 0 ELSE rows[Len(rows)].cash

(* SELECT MAX(peak_value), which circuit_breaker compares with *)
HighestPeak(rows) == IF rows = <<>> THEN 0 ELSE Largest({rows[i].peak : i \in DOMAIN rows})

(* SELECT MAX(total_value), which compute_value reads *)
HighestTotal(rows) == IF rows = <<>> THEN 0 ELSE Largest({rows[i].cash : i \in DOMAIN rows})

SnapshotRequest == [op : {"update_cash", "compute_value"}, cash : Amount]

IsSnapshot(t) == Op(t) \in {"update_cash", "compute_value"}

(* setup: initialize_cash, before anything else runs on the connection *)
InitializeCash ==
    /\ ~up /\ up' = TRUE
    /\ file' = [file EXCEPT !.snaps = Append(@, Row(InitialCash, InitialCash))]
    /\ work' = file'
    /\ UNCHANGED <<inTx, stuck, raised, call, seen, pc>>

(* update_cash: the newest row, before BEGIN *)
ReadLatest(t) ==
    /\ pc[t] = "read" /\ Op(t) = "update_cash"
    /\ LET rows == View(ConnOf[t]).snaps
       IN  seen' = [seen EXCEPT ![t] =
                       Note(0, Len(rows), IF rows = <<>> THEN 0 ELSE rows[Len(rows)].peak)]
    /\ Goto(t, "begin")
    /\ UNCHANGED <<up, file, work, inTx, stuck, raised, call>>

(* compute_value: the highest total, before BEGIN *)
ReadHighest(t) ==
    /\ pc[t] = "read" /\ Op(t) = "compute_value"
    /\ seen' = [seen EXCEPT ![t] = Note(0, 0, HighestTotal(View(ConnOf[t]).snaps))]
    /\ Goto(t, "begin")
    /\ UNCHANGED <<up, file, work, inTx, stuck, raised, call>>

(* _sum_position_values: KeyError on an open position, if there is one *)
ValueRaises(t) ==
    /\ pc[t] = "read" /\ Op(t) = "compute_value"
    /\ Leave(t)
    /\ UNCHANGED <<up, file, work, inTx, stuck, raised>>

(* mutant: the patch of the row leaves out its cash *)
UpdatedUncashed(t, rows) ==
    IF seen[t].id \in DOMAIN rows
    THEN [rows EXCEPT ![seen[t].id].peak = Greater(seen[t].high, call[t].cash)]
    ELSE rows

(* mutant: the new total is added to the peak *)
UpdatedSummed(t, rows) ==
    IF seen[t].id \in DOMAIN rows
    THEN [rows EXCEPT ![seen[t].id] = Row(call[t].cash, seen[t].high + call[t].cash)]
    ELSE rows

(* update_cash patches the row it has read, if it is there *)
Updated(t, rows) ==
    IF seen[t].id = 0
    THEN Append(rows, Row(call[t].cash, call[t].cash))
    ELSE IF seen[t].id \in DOMAIN rows
         THEN [rows EXCEPT ![seen[t].id] = Row(call[t].cash, Greater(seen[t].high, call[t].cash))]
         ELSE rows

(* compute_value adds a row *)
Valued(t, rows) == Append(rows, Row(call[t].cash, Greater(seen[t].high, call[t].cash)))

SnapsAfter(t, rows) ==
    CASE Op(t) = "update_cash" -> Updated(t, rows)
      [] Op(t) = "compute_value" -> Valued(t, rows)
      [] OTHER -> rows
=============================================================================
