------------------------------ MODULE Journal ------------------------------
(***************************************************************************)
(* The table trades: TradeLogger of src/log.py writes it on a connection of *)
(* its own, get_last_trade_ts of src/portfolio.py reads it for the          *)
(* heartbeat check of src/risk.py.  A row is the trade, or None for a       *)
(* decision, its time stamp and its status; its place is its id.            *)
(***************************************************************************)
EXTENDS Sqlite

CONSTANTS Trade,            \* trades one may log
          HeartbeatWindow,  \* 22 hours, in ticks
          HeartbeatTicks    \* the ticks in the hour HEARTBEAT_HOUR_UTC

ASSUME JournalAssumption == HeartbeatWindow \in Nat /\ HeartbeatTicks \subseteq Nat

VARIABLE receipts           \* [id, tx, ts] of every log_trade that returned

Entry(tx, ts, status) == [tx |-> tx, ts |-> ts, status |-> status]

JournalRequest ==
    [op : {"log_trade"}, tx : Trade]
        \cup [op : {"log_decision"}]
        \cup [op : {"update_trade_status"}, id : {r.id : r \in receipts}]

(* mutant: a decision has no time stamp *)
TradesAfterUndated(t, rows) ==
    CASE Op(t) = "log_trade" -> Append(rows, Entry(call[t].tx, seen[t].ts, "pending"))
      [] Op(t) = "log_decision" -> Append(rows, Entry(None, 0, "logged"))
      [] OTHER -> rows

TradesAfter(t, rows) ==
    CASE Op(t) = "log_trade" -> Append(rows, Entry(call[t].tx, seen[t].ts, "pending"))
      [] Op(t) = "log_decision" -> Append(rows, Entry(None, seen[t].ts, "logged"))
      [] Op(t) = "update_trade_status" ->
             [i \in DOMAIN rows |->
                 IF i = call[t].id THEN [rows[i] EXCEPT !.status = "confirmed"] ELSE rows[i]]
      [] OTHER -> rows

(* the row id log_trade returns once it has committed *)
Receipts(t) ==
    IF Op(t) = "log_trade" /\ pc[t] = "commit"
    THEN {[id |-> Len(View(ConnOf[t]).trades), tx |-> call[t].tx, ts |-> seen[t].ts]}
    ELSE {}

(* get_last_trade_ts: ORDER BY id DESC LIMIT 1, decisions included *)
LastTradeTs(rows) == IF rows = <<>> THEN None ELSE rows[Len(rows)].ts

(* check_heartbeat at the time now: the last trade is looked at first, the  *)
(* hour only if that is not recent                                          *)
CheckHeartbeat(rows, now) ==
    IF LastTradeTs(rows) # None /\ now - LastTradeTs(rows) < HeartbeatWindow
    THEN [needed |-> FALSE, reason |-> "recent"]
    ELSE [needed |-> TRUE, reason |-> IF now \in HeartbeatTicks THEN "hour" ELSE "overdue"]
=============================================================================
