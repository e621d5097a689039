--------------------------- MODULE DatabaseProofs ---------------------------
(***************************************************************************)
(* What the calls on the database keep, for any tasks, connections,         *)
(* requests, bounds and interleavings, over failures, crashes and restarts. *)
(*                                                                         *)
(* The write lock is never left behind (LocksAreReleased): DbInv, on which  *)
(* all else stands.                                                         *)
(* The rows of the journal stand in the order of their time stamps, as the  *)
(* calls get their turns in that order (IdsAreKept, RecentTradesAreHeard):  *)
(* JournalInv.  So do the rows of a key of the cache, whose sets do not     *)
(* overlap (StoredIsServed): CacheInv.  With the types of the figures       *)
(* (DatabaseTypes) DbInv shows that the snapshots implement the account of  *)
(* CashAccount (SnapshotsAreTheAccount).                                    *)
(***************************************************************************)
EXTENDS Database, SequenceTheorems, WellFoundedInduction, NaturalsInduction, TLAPS

(***************************************************************************)
(* The largest of a set of numbers.                                         *)
(***************************************************************************)
Above(S) == {n \in Nat : \A x \in S : x <= n}

(* a set of numbers that a number bounds has a largest one *)
LEMMA MaxExists ==
    ASSUME NEW S \in SUBSET Nat, S # {}, NEW b \in Nat, \A x \in S : x <= b
    PROVE  \E m \in S : \A x \in S : x <= m
<1>1. Above(S) \subseteq Nat /\ Above(S) # {}
      BY DEF Above
<1>2. PICK m \in Above(S) : \A n \in Above(S) : ~ (<<n, m>> \in OpToRel(<, Nat))
      BY <1>1, WFMin, NatLessThanWellFounded
<1>3. \A n \in Above(S) : ~ (n < m)
      BY <1>1, <1>2 DEF OpToRel
<1>4. CASE m \in S
      BY <1>4 DEF Above
<1>5. CASE m \notin S
  <2>1. \A x \in S : x < m
        BY <1>5 DEF Above
  <2>2. m \in Nat /\ m - 1 \in Nat
    <3>1. m \in Nat
          BY <1>2 DEF Above
    <3>2. PICK x \in S : TRUE
          OBVIOUS
    <3>3. x \in Nat /\ x < m
          BY <2>1
    <3>4. QED BY <3>1, <3>3
  <2>3. \A x \in S : x <= m - 1
        BY <2>1, <2>2
  <2>4. m - 1 \in Above(S) /\ m - 1 < m
        BY <2>2, <2>3 DEF Above
  <2>5. QED BY <1>3, <2>4
<1>6. QED BY <1>4, <1>5

(* and Largest chooses it *)
LEMMA LargestIsMax ==
    ASSUME NEW S \in SUBSET Nat, S # {}, NEW b \in Nat, \A x \in S : x <= b
    PROVE  Largest(S) \in S /\ \A x \in S : x <= Largest(S)
BY MaxExists DEF Largest

(***************************************************************************)
(* Rows of snapshots.  The peaks need a bound for the largest to exist.     *)
(***************************************************************************)
RowType == [cash : Nat, peak : Nat]

RowsOK(rows) ==
    /\ rows \in Seq(RowType)
    /\ \A i \in DOMAIN rows : rows[i].cash <= rows[i].peak
    /\ \E b \in Nat : \A i \in DOMAIN rows : rows[i].peak <= b

(* the places of rows, and what stands in them *)
LEMMA RowFacts ==
    ASSUME NEW rows, RowsOK(rows)
    PROVE  /\ Len(rows) \in Nat /\ DOMAIN rows = 1 .. Len(rows)
           /\ (rows = <<>>) <=> (Len(rows) = 0)
           /\ \A i \in DOMAIN rows :
                  /\ rows[i] \in RowType /\ rows[i].cash \in Nat /\ rows[i].peak \in Nat
                  /\ rows[i].cash <= rows[i].peak
<1>1. rows \in Seq(RowType)
    BY DEF RowsOK
<1>2. Len(rows) \in Nat /\ DOMAIN rows = 1 .. Len(rows) /\ \A i \in DOMAIN rows : rows[i] \in RowType
    BY <1>1
<1>3. (rows = <<>>) <=> (Len(rows) = 0)
    BY <1>1
<1>4. \A i \in DOMAIN rows : rows[i].cash \in Nat /\ rows[i].peak \in Nat
    BY <1>2 DEF RowType
<1> QED
    BY <1>2, <1>3, <1>4 DEF RowsOK

(* a row added: the others stay where they are *)
LEMMA AppendFacts ==
    ASSUME NEW rows, RowsOK(rows), NEW row \in RowType
    PROVE  /\ Append(rows, row) \in Seq(RowType) /\ Append(rows, row) # <<>>
           /\ Len(Append(rows, row)) = Len(rows) + 1
           /\ DOMAIN Append(rows, row) = 1 .. Len(rows) + 1
           /\ Append(rows, row)[Len(rows) + 1] = row
           /\ \A i \in DOMAIN rows : Append(rows, row)[i] = rows[i]
<1>1. rows \in Seq(RowType)
    BY DEF RowsOK
<1> QED
    BY <1>1, AppendProperties, RowFacts

(* the mark of rows is a peak of theirs, and none is above it *)
LEMMA PeakIsHighest ==
    ASSUME NEW rows, RowsOK(rows), rows # <<>>
    PROVE  /\ HighestPeak(rows) \in Nat
           /\ \E i \in DOMAIN rows : HighestPeak(rows) = rows[i].peak
           /\ \A i \in DOMAIN rows : rows[i].peak <= HighestPeak(rows)
<1> DEFINE S == {rows[i].peak : i \in DOMAIN rows}
<1>1. PICK b \in Nat : \A i \in DOMAIN rows : rows[i].peak <= b
    BY DEF RowsOK
<1>2. S \in SUBSET Nat /\ \A x \in S : x <= b
    BY <1>1, RowFacts
<1>3. S # {}
  <2>1. 1 \in DOMAIN rows
      BY RowFacts
  <2> QED
      BY <2>1
<1>4. Largest(S) \in S /\ \A x \in S : x <= Largest(S)
    BY <1>1, <1>2, <1>3, LargestIsMax
<1>5. HighestPeak(rows) = Largest(S)
    BY DEF HighestPeak
<1> QED
    BY <1>2, <1>4, <1>5

(* the highest total is never above the mark *)
LEMMA TotalBelowPeak ==
    ASSUME NEW rows, RowsOK(rows)
    PROVE  /\ HighestTotal(rows) \in Nat /\ HighestTotal(rows) <= HighestPeak(rows)
           /\ HighestTotal(rows) \in {0} \cup {rows[i].cash : i \in DOMAIN rows}
<1>1. CASE rows = <<>>
    BY <1>1 DEF HighestTotal, HighestPeak
<1>2. CASE rows # <<>>
  <2> DEFINE S == {rows[i].cash : i \in DOMAIN rows}
  <2>1. \A i \in DOMAIN rows : rows[i].cash \in Nat /\ rows[i].cash <= HighestPeak(rows)
    <3>1. \A i \in DOMAIN rows : rows[i].peak <= HighestPeak(rows) /\ HighestPeak(rows) \in Nat
        BY <1>2, PeakIsHighest
    <3> QED
        BY <3>1, RowFacts
  <2>2. S \in SUBSET Nat /\ \A x \in S : x <= HighestPeak(rows)
      BY <2>1
  <2>3. S # {} /\ HighestPeak(rows) \in Nat
    <3>1. 1 \in DOMAIN rows
        BY <1>2, RowFacts
    <3> QED
        BY <1>2, <3>1, PeakIsHighest
  <2>4. Largest(S) \in S
      BY <2>2, <2>3, LargestIsMax
  <2>5. HighestTotal(rows) = Largest(S)
      BY <1>2 DEF HighestTotal
  <2> QED
      BY <2>2, <2>4, <2>5
<1> QED
    BY <1>1, <1>2

(* what the rows say is a cash that its mark is not below *)
LEMMA BalanceBelowPeak ==
    ASSUME NEW rows, RowsOK(rows)
    PROVE  /\ Balance(rows) \in Nat /\ HighestPeak(rows) \in Nat
           /\ Balance(rows) <= HighestPeak(rows)
<1>1. CASE rows = <<>>
    BY <1>1 DEF Balance, HighestPeak
<1>2. CASE rows # <<>>
  <2>1. Len(rows) \in DOMAIN rows
      BY <1>2, RowFacts
  <2>2. HighestPeak(rows) \in Nat /\ rows[Len(rows)].peak <= HighestPeak(rows)
      BY <1>2, <2>1, PeakIsHighest
  <2>3. rows[Len(rows)].cash \in Nat /\ rows[Len(rows)].cash <= rows[Len(rows)].peak
      BY <2>1, RowFacts
  <2>4. Balance(rows) = rows[Len(rows)].cash
      BY <1>2 DEF Balance
  <2>5. rows[Len(rows)].peak \in Nat
      BY <2>1, RowFacts
  <2> QED
      BY <2>2, <2>3, <2>4, <2>5
<1> QED
    BY <1>1, <1>2

(* sound rows stay sound when a sound row is added, or put in place of one *)
LEMMA AppendOK ==
    ASSUME NEW rows, RowsOK(rows), NEW cash \in Nat, NEW peak \in Nat, cash <= peak
    PROVE  RowsOK(Append(rows, Row(cash, peak)))
<1> DEFINE after == Append(rows, Row(cash, peak))
           n == Len(rows) + 1
<1>1. PICK b \in Nat : \A i \in DOMAIN rows : rows[i].peak <= b
    BY DEF RowsOK
<1>2. Row(cash, peak) \in RowType /\ Row(cash, peak).cash = cash /\ Row(cash, peak).peak = peak
    BY DEF Row, RowType
<1>3. /\ after \in Seq(RowType) /\ after[n] = Row(cash, peak)
      /\ \A i \in DOMAIN rows : after[i] = rows[i]
    BY <1>2, AppendFacts
<1>4. \A i \in DOMAIN after : i = n \/ i \in DOMAIN rows
    BY <1>2, AppendFacts, RowFacts
<1> HIDE DEF after, n
<1>5. \A i \in DOMAIN after : after[i].cash <= after[i].peak
    BY <1>2, <1>3, <1>4, RowFacts
<1>6. \A i \in DOMAIN after : after[i].peak <= b + peak
    BY <1>1, <1>2, <1>3, <1>4, RowFacts
<1>7. b + peak \in Nat
    OBVIOUS
<1> QED
    BY <1>3, <1>5, <1>6, <1>7 DEF RowsOK, after

(* the same for a row that replaces another *)
LEMMA PatchOK ==
    ASSUME NEW rows, RowsOK(rows), NEW id \in DOMAIN rows,
           NEW cash \in Nat, NEW peak \in Nat, cash <= peak
    PROVE  RowsOK([rows EXCEPT ![id] = Row(cash, peak)])
<1> DEFINE after == [rows EXCEPT ![id] = Row(cash, peak)]
<1>1. PICK b \in Nat : \A i \in DOMAIN rows : rows[i].peak <= b
    BY DEF RowsOK
<1>2. Row(cash, peak) \in RowType /\ Row(cash, peak).cash = cash /\ Row(cash, peak).peak = peak
    BY DEF Row, RowType
<1>3. /\ DOMAIN after = DOMAIN rows
      /\ \A i \in DOMAIN after : after[i] = IF i = id THEN Row(cash, peak) ELSE rows[i]
    OBVIOUS
<1>4. after \in Seq(RowType)
    BY <1>2, RowFacts DEF RowsOK
<1> HIDE DEF after
<1>5. \A i \in DOMAIN after : after[i].cash <= after[i].peak
    BY <1>2, <1>3, RowFacts
<1>6. \A i \in DOMAIN after : after[i].peak <= b + peak
    BY <1>1, <1>2, <1>3, RowFacts
<1>7. b + peak \in Nat
    OBVIOUS
<1> QED
    BY <1>4, <1>5, <1>6, <1>7 DEF RowsOK, after

(* A row added with a peak not above the mark reports its cash exactly. *)
LEMMA AppendReports ==
    ASSUME NEW rows, RowsOK(rows), NEW cash \in Nat, NEW peak \in Nat,
           cash <= peak, peak <= Greater(HighestPeak(rows), cash)
    PROVE  /\ Balance(Append(rows, Row(cash, peak))) = cash
           /\ HighestPeak(Append(rows, Row(cash, peak))) = Greater(HighestPeak(rows), cash)
<1> DEFINE after == Append(rows, Row(cash, peak))
           n == Len(rows)
<1>1. /\ RowsOK(after) /\ after # <<>> /\ Len(after) = n + 1 /\ n \in Nat
      /\ after[n + 1] = Row(cash, peak) /\ n + 1 \in DOMAIN after
      /\ \A i \in DOMAIN rows : i \in DOMAIN after /\ after[i] = rows[i]
      /\ \A i \in DOMAIN after : i = n + 1 \/ i \in DOMAIN rows
  <2>1. Row(cash, peak) \in RowType
      BY DEF Row, RowType
  <2>2. RowsOK(after)
      BY AppendOK
  <2>3. /\ after # <<>> /\ Len(after) = n + 1 /\ n \in Nat /\ after[n + 1] = Row(cash, peak)
        /\ DOMAIN after = 1 .. n + 1 /\ DOMAIN rows = 1 .. n
        /\ \A i \in DOMAIN rows : after[i] = rows[i]
      BY <2>1, AppendFacts, RowFacts
  <2> HIDE DEF after, n
  <2> QED
      BY <2>2, <2>3
<1>2. Balance(after) = cash
    BY <1>1 DEF Balance, Row
<1>3. /\ HighestPeak(after) \in Nat
      /\ \E i \in DOMAIN after : HighestPeak(after) = after[i].peak
      /\ \A i \in DOMAIN after : after[i].peak <= HighestPeak(after)
    BY <1>1, PeakIsHighest
<1>4. HighestPeak(rows) \in Nat
    BY BalanceBelowPeak
<1>5. HighestPeak(after) >= HighestPeak(rows)
  <2>1. CASE rows = <<>>
      BY <1>3, <2>1 DEF HighestPeak
  <2>2. CASE rows # <<>>
    <3>1. PICK i \in DOMAIN rows : HighestPeak(rows) = rows[i].peak
        BY <2>2, PeakIsHighest
    <3> QED
        BY <1>1, <1>3, <1>4, <3>1
  <2> QED
      BY <2>1, <2>2
<1>6. HighestPeak(after) >= peak
    BY <1>1, <1>3 DEF Row
<1>7. HighestPeak(after) <= Greater(HighestPeak(rows), cash)
  <2>1. PICK i \in DOMAIN after : HighestPeak(after) = after[i].peak
      BY <1>3
  <2>2. CASE i = n + 1
      BY <1>1, <2>1, <2>2 DEF Row
  <2>3. CASE i \in DOMAIN rows
    <3>1. rows # <<>>
        BY <2>3
    <3>2. after[i].peak <= HighestPeak(rows)
        BY <1>1, <2>3, <3>1, PeakIsHighest
    <3> QED
        BY <1>3, <1>4, <2>1, <3>2 DEF Greater
  <2> QED
      BY <1>1, <2>2, <2>3
<1> QED
    BY <1>2, <1>3, <1>4, <1>5, <1>6, <1>7 DEF Greater

(* So does the newest row patched with the larger of its peak and the cash. *)
LEMMA PatchReports ==
    ASSUME NEW rows, RowsOK(rows), rows # <<>>, NEW cash \in Nat
    PROVE  LET n == Len(rows)
               after == [rows EXCEPT ![n] = Row(cash, Greater(rows[n].peak, cash))]
           IN  /\ Balance(after) = cash
               /\ HighestPeak(after) = Greater(HighestPeak(rows), cash)
<1> DEFINE n == Len(rows)
           peak == Greater(rows[n].peak, cash)
           after == [rows EXCEPT ![n] = Row(cash, peak)]
<1>1. n \in DOMAIN rows /\ rows[n].peak \in Nat /\ peak \in Nat /\ cash <= peak
      /\ peak >= rows[n].peak /\ peak \in {cash, rows[n].peak}
    BY RowFacts DEF Greater
<1> HIDE DEF peak
<1>2. /\ RowsOK(after) /\ DOMAIN after = DOMAIN rows /\ Len(after) = n /\ after # <<>>
      /\ after[n] = Row(cash, peak)
      /\ \A i \in DOMAIN rows : i # n => after[i] = rows[i]
  <2>1. RowsOK(after)
      BY <1>1, PatchOK
  <2>2. DOMAIN after = DOMAIN rows
      OBVIOUS
  <2>3. Len(after) = n
      BY <2>1, <2>2, RowFacts
  <2> QED
      BY <1>1, <2>1, <2>2, <2>3, RowFacts
<1>3. Balance(after) = cash
    BY <1>2 DEF Balance, Row
<1>4. /\ HighestPeak(after) \in Nat
      /\ \E i \in DOMAIN after : HighestPeak(after) = after[i].peak
      /\ \A i \in DOMAIN after : after[i].peak <= HighestPeak(after)
    BY <1>2, PeakIsHighest
<1>5. /\ HighestPeak(rows) \in Nat
      /\ \E i \in DOMAIN rows : HighestPeak(rows) = rows[i].peak
      /\ \A i \in DOMAIN rows : rows[i].peak <= HighestPeak(rows)
    BY PeakIsHighest
<1>6. HighestPeak(after) >= peak
    BY <1>1, <1>2, <1>4 DEF Row
<1>7. HighestPeak(after) >= HighestPeak(rows)
  <2>1. PICK i \in DOMAIN rows : HighestPeak(rows) = rows[i].peak
      BY <1>5
  <2>2. CASE i = n
      BY <1>1, <1>4, <1>5, <1>6, <2>1, <2>2
  <2>3. CASE i # n
      BY <1>2, <1>4, <1>5, <2>1, <2>3
  <2> QED
      BY <2>2, <2>3
<1>8. HighestPeak(after) \in {peak} \/ HighestPeak(after) <= HighestPeak(rows)
  <2>1. PICK i \in DOMAIN after : HighestPeak(after) = after[i].peak
      BY <1>4
  <2>2. CASE i = n
      BY <1>2, <2>1, <2>2 DEF Row
  <2>3. CASE i # n
      BY <1>2, <1>5, <2>1, <2>3
  <2> QED
      BY <2>2, <2>3
<1>9. HighestPeak(after) = Greater(HighestPeak(rows), cash)
  <2>1. rows[n].peak <= HighestPeak(rows)
      BY <1>1, <1>5
  <2> QED
      BY <1>1, <1>4, <1>5, <1>6, <1>7, <1>8, <2>1 DEF Greater
<1> QED
    BY <1>3, <1>9 DEF peak

(* Rows that no peak has been lost from: as many at least, and none lower.  *)
AtLeast(base, rows) ==
    /\ Len(base) <= Len(rows)
    /\ \A i \in DOMAIN base : base[i].peak <= rows[i].peak

LEMMA AtLeastItself ==
    ASSUME NEW rows, RowsOK(rows)
    PROVE  AtLeast(rows, rows)
BY RowFacts DEF AtLeast

(* a row patched with a peak that was not below loses none *)
LEMMA PatchAtLeast ==
    ASSUME NEW base, RowsOK(base), NEW rows, RowsOK(rows), AtLeast(base, rows),
           NEW id \in DOMAIN rows, NEW cash \in Nat, NEW peak \in Nat,
           id \in DOMAIN base => base[id].peak <= peak
    PROVE  LET after == [rows EXCEPT ![id] = Row(cash, peak)]
           IN  AtLeast(base, after) /\ Balance(after) \in {Balance(rows), cash}
<1> DEFINE after == [rows EXCEPT ![id] = Row(cash, peak)]
<1>1. rows \in Seq(RowType) /\ Row(cash, peak) \in RowType
      /\ Row(cash, peak).cash = cash /\ Row(cash, peak).peak = peak
    BY DEF RowsOK, Row, RowType
<1>2. /\ DOMAIN after = DOMAIN rows /\ after \in Seq(RowType)
      /\ \A i \in DOMAIN rows : after[i] = IF i = id THEN Row(cash, peak) ELSE rows[i]
    BY <1>1
<1> HIDE DEF after
<1>3. Len(rows) \in Nat /\ DOMAIN rows = 1 .. Len(rows)
    BY RowFacts
<1>4. Len(after) \in Nat /\ DOMAIN after = 1 .. Len(after)
    BY <1>2
<1>5. Len(after) = Len(rows) /\ Len(rows) \in DOMAIN rows
    BY <1>2, <1>3, <1>4
<1>6. rows # <<>> /\ after # <<>>
    BY <1>1, <1>2, <1>5
<1>7. AtLeast(base, after)
  <2>1. Len(base) <= Len(after)
      BY <1>5 DEF AtLeast
  <2>2. ASSUME NEW i \in DOMAIN base
        PROVE  base[i].peak <= after[i].peak
    <3>1. i \in DOMAIN rows /\ base[i].peak <= rows[i].peak
        BY <1>3, RowFacts DEF AtLeast
    <3> QED
        BY <1>1, <1>2, <3>1
  <2> QED
      BY <2>1, <2>2 DEF AtLeast
<1>8. Balance(after) \in {Balance(rows), cash}
    BY <1>1, <1>2, <1>5, <1>6 DEF Balance
<1> QED
    BY <1>7, <1>8 DEF after

(* their mark is no lower either *)
LEMMA AtLeastMark ==
    ASSUME NEW base, RowsOK(base), NEW rows, RowsOK(rows), AtLeast(base, rows)
    PROVE  HighestPeak(base) <= HighestPeak(rows)
<1>1. HighestPeak(rows) \in Nat
    BY BalanceBelowPeak
<1>2. CASE base = <<>>
    BY <1>1, <1>2 DEF HighestPeak
<1>3. CASE base # <<>>
  <2>1. PICK i \in DOMAIN base : HighestPeak(base) = base[i].peak
      BY <1>3, PeakIsHighest
  <2>2. i \in DOMAIN rows /\ rows # <<>>
      BY <2>1, RowFacts DEF AtLeast
  <2>3. rows[i].peak <= HighestPeak(rows)
      BY <2>2, PeakIsHighest
  <2> QED
      BY <1>1, <2>1, <2>2, <2>3, RowFacts DEF AtLeast
<1> QED
    BY <1>2, <1>3
(***************************************************************************)
(* The inductive invariant.  Control: a task of the portfolio's connection  *)
(* is in a snapshot call or idle, the others are in none.                   *)
(***************************************************************************)
Portfolio(t) == ConnOf[t] = "portfolio"

NoteType == [ts : Nat, id : Nat, high : Nat]

SnapPlaces == {"read", "begin", "write", "commit", "rollback"}
CachePlaces == {"connect", "checkpoint", "sweep", "swept"}

TableNames == {"snaps", "trades", "cache"}

Shapes ==
    /\ DOMAIN call = Task /\ DOMAIN pc = Task
    /\ seen \in [Task -> NoteType]
    /\ now \in Nat /\ overlap \in BOOLEAN
    /\ DOMAIN file = TableNames /\ DOMAIN work = TableNames

Calls ==
    \A t \in Task :
        /\ Portfolio(t) => \/ pc[t] = "idle" /\ call[t] = None
                           \/ pc[t] \in SnapPlaces /\ call[t] \in SnapshotRequest
        /\ ~Portfolio(t) => ~IsSnapshot(t) /\ pc[t] # "read"
        /\ pc[t] \in CachePlaces => ConnOf[t] = "cache"

Down == ~up => inTx = {} /\ ~overlap /\ \A t \in Task : pc[t] = "idle"

Control == Shapes /\ Calls /\ Down

(* what the places and the snapshot calls of a state have to do with each other *)
LEMMA InHand ==
    ASSUME Calls, NEW t \in Task
    PROVE  /\ IsSnapshot(t) <=> Portfolio(t) /\ pc[t] # "idle"
           /\ IsSnapshot(t) => /\ call[t] \in SnapshotRequest /\ call[t].cash \in Nat
                               /\ pc[t] \in SnapPlaces
<1>1. CASE call[t] \in SnapshotRequest
  <2>1. call[t] # None /\ call[t].op \in {"update_cash", "compute_value"} /\ call[t].cash \in Amount
      BY <1>1, RequestAssumption DEF SnapshotRequest
  <2>2. IsSnapshot(t) /\ call[t].cash \in Nat
      BY <2>1, AmountAssumption DEF IsSnapshot, Op
  <2> QED
      BY <1>1, <2>1, <2>2 DEF Calls, SnapPlaces
<1>2. CASE call[t] \notin SnapshotRequest
  <2>1. Portfolio(t) => pc[t] = "idle" /\ call[t] = None
      BY <1>2 DEF Calls
  <2>2. call[t] = None => ~IsSnapshot(t)
      BY DEF IsSnapshot, Op
  <2> QED
      BY <2>1, <2>2 DEF Calls
<1> QED
    BY <1>1, <1>2

(* the same of the state after a step *)
LEMMA InHandNext ==
    ASSUME Calls', NEW t \in Task
    PROVE  IsSnapshot(t)' <=> Portfolio(t) /\ pc'[t] # "idle"
<1>1. CASE call'[t] \in SnapshotRequest
  <2>1. call'[t] # None /\ call'[t].op \in {"update_cash", "compute_value"}
      BY <1>1, RequestAssumption DEF SnapshotRequest
  <2>2. IsSnapshot(t)'
      BY <2>1 DEF IsSnapshot, Op
  <2> QED
      BY <1>1, <2>1, <2>2 DEF Calls, SnapPlaces, Portfolio
<1>2. CASE call'[t] \notin SnapshotRequest
  <2>1. Portfolio(t) => pc'[t] = "idle" /\ call'[t] = None
      BY <1>2 DEF Calls, Portfolio
  <2>2. call'[t] = None => ~IsSnapshot(t)'
      BY DEF IsSnapshot, Op
  <2> QED
      BY <2>1, <2>2 DEF Calls, Portfolio
<1> QED
    BY <1>1, <1>2

(* a task that leaves its method keeps the places and the types *)
LEMMA LeaveKeeps ==
    ASSUME Shapes, Calls, NEW t \in Task, Leave(t)
    PROVE  /\ Calls' /\ seen' \in [Task -> NoteType] /\ DOMAIN call' = Task /\ DOMAIN pc' = Task
           /\ pc'[t] = "idle" /\ call'[t] = None
           /\ \A u \in Task : u # t => pc'[u] = pc[u] /\ call'[u] = call[u] /\ seen'[u] = seen[u]
<1>1. /\ DOMAIN call' = Task /\ DOMAIN pc' = Task
      /\ pc'[t] = "idle" /\ call'[t] = None
      /\ \A u \in Task : u # t => pc'[u] = pc[u] /\ call'[u] = call[u] /\ seen'[u] = seen[u]
    BY DEF Shapes, Leave, Goto
<1>2. seen' \in [Task -> NoteType]
    BY DEF Shapes, Leave, Blank, Note, NoteType
<1>3. Calls'
    BY <1>1 DEF Calls, CachePlaces, IsSnapshot, Op, Portfolio
<1> QED
    BY <1>1, <1>2, <1>3

(* the same for a task that goes on in its method *)
LEMMA GotoKeeps ==
    ASSUME Shapes, Calls, NEW t \in Task, NEW place, Goto(t, place), UNCHANGED call,
           pc[t] # "idle", place \in (SnapPlaces \cup CachePlaces) \ {"read"},
           Portfolio(t) => place \in SnapPlaces,
           place \in CachePlaces => ConnOf[t] = "cache"
    PROVE  /\ Calls' /\ DOMAIN pc' = Task /\ pc'[t] = place
           /\ \A u \in Task : u # t => pc'[u] = pc[u]
<1>1. DOMAIN pc' = Task /\ pc'[t] = place /\ \A u \in Task : u # t => pc'[u] = pc[u]
    BY DEF Shapes, Goto
<1>2. Calls'
    BY <1>1 DEF Calls, CachePlaces, SnapPlaces, IsSnapshot, Op, Portfolio
<1> QED
    BY <1>1, <1>2

(* the same for a task that enters one *)
LEMMA EnterKeeps ==
    ASSUME Shapes, Calls, NEW t \in Task, NEW r, NEW place, NEW note \in NoteType,
           Enter(t, r, place, note),
           \/ Portfolio(t) /\ r \in SnapshotRequest /\ place = "read"
           \/ /\ ~Portfolio(t) /\ r.op \notin {"update_cash", "compute_value"}
              /\ place = "begin" \/ (place = "connect" /\ ConnOf[t] = "cache")
    PROVE  /\ Calls' /\ seen' \in [Task -> NoteType] /\ DOMAIN call' = Task /\ DOMAIN pc' = Task
           /\ pc[t] = "idle" /\ pc'[t] = place /\ call'[t] = r
           /\ \A u \in Task : u # t => pc'[u] = pc[u] /\ call'[u] = call[u] /\ seen'[u] = seen[u]
<1>1. /\ DOMAIN call' = Task /\ DOMAIN pc' = Task
      /\ pc[t] = "idle" /\ pc'[t] = place /\ call'[t] = r
      /\ \A u \in Task : u # t => pc'[u] = pc[u] /\ call'[u] = call[u] /\ seen'[u] = seen[u]
    BY DEF Shapes, Enter, Goto
<1>2. seen' \in [Task -> NoteType]
    BY DEF Shapes, Enter
<1>3. Calls'
    BY <1>1 DEF Calls, CachePlaces, SnapPlaces, IsSnapshot, Op, Portfolio
<1> QED
    BY <1>1, <1>2, <1>3
(***************************************************************************)
(* Tables: rows are sound in the file and in the open transaction, which    *)
(* differs in its snapshots only while it is the portfolio's.               *)
(***************************************************************************)
Tables ==
    /\ RowsOK(file.snaps) /\ RowsOK(work.snaps)
    /\ "portfolio" \notin inTx => work.snaps = file.snaps

(* A step of a task: it was not idle, the process was up, and stays so. *)
LEMMA StepShape ==
    ASSUME Control, Tables, NEW t \in Task, Step(t)
    PROVE  /\ up /\ up' /\ pc[t] # "idle"
           /\ Calls' /\ Shapes'
           /\ \A u \in Task : u # t => pc'[u] = pc[u] /\ call'[u] = call[u] /\ seen'[u] = seen[u]
<1> USE DEF Control
<1>1. pc[t] # "idle" /\ up' = up
    BY DEF Step, Return, Fail, GoOn, Commit, BeginRaises, ValueRaises, Rollback, CheckpointRaises,
           SweepRaises, ReadLatest, ReadHighest, Begin, Write, WriteRaises, Schema, Checkpoint,
           Sweep, SweepEnds, EndTransaction
<1>2. up
    BY <1>1 DEF Down
<1>3. now' \in Nat /\ overlap' \in BOOLEAN
    BY DEF Step, Watch, Shapes
<1>4. ASSUME Leave(t)
      PROVE  /\ Calls' /\ seen' \in [Task -> NoteType] /\ DOMAIN call' = Task /\ DOMAIN pc' = Task
             /\ \A u \in Task : u # t => pc'[u] = pc[u] /\ call'[u] = call[u] /\ seen'[u] = seen[u]
    BY <1>4, LeaveKeeps
<1>5. ASSUME NEW place, Goto(t, place), UNCHANGED call,
             place \in {"begin", "write", "commit", "rollback"}
      PROVE  /\ Calls' /\ DOMAIN call' = Task /\ DOMAIN pc' = Task
             /\ \A u \in Task : u # t => pc'[u] = pc[u] /\ call'[u] = call[u]
  <2>1. place \in (SnapPlaces \cup CachePlaces) \ {"read"} /\ place \notin CachePlaces /\ place \in SnapPlaces
      BY <1>5 DEF SnapPlaces, CachePlaces
  <2>2. Calls' /\ DOMAIN pc' = Task /\ \A u \in Task : u # t => pc'[u] = pc[u]
      BY <1>1, <1>5, <2>1, GotoKeeps
  <2> QED
      BY <1>5, <2>2 DEF Shapes
<1>6. ASSUME NEW place, Goto(t, place), UNCHANGED call, pc[t] \in CachePlaces,
             place \in CachePlaces
      PROVE  /\ Calls' /\ DOMAIN call' = Task /\ DOMAIN pc' = Task
             /\ \A u \in Task : u # t => pc'[u] = pc[u] /\ call'[u] = call[u]
  <2>1. place \in (SnapPlaces \cup CachePlaces) \ {"read"} /\ ConnOf[t] = "cache" /\ ~Portfolio(t)
      BY <1>6 DEF SnapPlaces, CachePlaces, Calls, Portfolio
  <2>2. Calls' /\ DOMAIN pc' = Task /\ \A u \in Task : u # t => pc'[u] = pc[u]
      BY <1>1, <1>6, <2>1, GotoKeeps
  <2> QED
      BY <1>6, <2>2 DEF Shapes
<1>7. seen \in [Task -> NoteType] /\ DOMAIN file = TableNames /\ DOMAIN work = TableNames
    BY DEF Shapes
<1>8. ASSUME EndTransaction(t)
      PROVE  (DOMAIN file)' = TableNames /\ (DOMAIN work)' = TableNames
    BY <1>7, <1>8 DEF EndTransaction, View
<1> HIDE DEF Control
<1> DEFINE Kept == /\ Calls' /\ seen' \in [Task -> NoteType] /\ DOMAIN call' = Task /\ DOMAIN pc' = Task
                   /\ (DOMAIN file)' = TableNames /\ (DOMAIN work)' = TableNames
                   /\ \A u \in Task : u # t => pc'[u] = pc[u] /\ call'[u] = call[u] /\ seen'[u] = seen[u]
<1>9. Kept
  <2>1. CASE Return(t)
      BY <1>4, <1>8, <2>1 DEF Return, Commit
  <2>2. CASE Fail(t)
    <3>1. Leave(t)
        BY <2>2 DEF Fail, BeginRaises, ValueRaises, Rollback, CheckpointRaises, SweepRaises
    <3>2. file' = file /\ (work' = work \/ work' = file)
        BY <2>2 DEF Fail, BeginRaises, ValueRaises, Rollback, CheckpointRaises, SweepRaises
    <3> QED
        BY <1>4, <1>7, <3>1, <3>2
  <2>3. CASE ReadLatest(t) \/ ReadHighest(t)
    <3>1. /\ Goto(t, "begin") /\ UNCHANGED <<call, file, work>>
          /\ \A u \in Task : u # t => seen'[u] = seen[u]
        BY <1>7, <2>3 DEF ReadLatest, ReadHighest
    <3>2. RowsOK(View(ConnOf[t]).snaps)
        BY DEF Tables, View
    <3>3. CASE ReadLatest(t)
      <4> DEFINE rows == View(ConnOf[t]).snaps
                 note == Note(0, Len(rows), IF rows = <<>> THEN 0 ELSE rows[Len(rows)].peak)
      <4>1. seen' = [seen EXCEPT ![t] = note]
          BY <3>3 DEF ReadLatest
      <4>2. Len(rows) \in Nat /\ (rows # <<>> => rows[Len(rows)].peak \in Nat)
        <5> HIDE DEF rows
        <5> QED
            BY <3>2, RowFacts DEF rows
      <4>3. note \in NoteType
          BY <4>2 DEF Note, NoteType
      <4> HIDE DEF note
      <4>4. seen' \in [Task -> NoteType]
          BY <1>7, <4>1, <4>3
      <4> QED
          BY <1>5, <1>7, <3>1, <4>4
    <3>4. CASE ReadHighest(t)
      <4> DEFINE note == Note(0, 0, HighestTotal(View(ConnOf[t]).snaps))
      <4>1. seen' = [seen EXCEPT ![t] = note]
          BY <3>4 DEF ReadHighest
      <4>2. note \in NoteType
          BY <3>2, TotalBelowPeak DEF Note, NoteType
      <4> HIDE DEF note
      <4>3. seen' \in [Task -> NoteType]
          BY <1>7, <4>1, <4>2
      <4> QED
          BY <1>5, <1>7, <3>1, <4>3
    <3> QED
        BY <2>3, <3>3, <3>4
  <2>4. CASE Begin(t)
      BY <1>5, <1>7, <2>4 DEF Begin
  <2>5. CASE Write(t, After(t, View(ConnOf[t])))
    <3>1. (DOMAIN work)' = TableNames
        BY <2>5 DEF Write, After, TableNames
    <3>2. Goto(t, "commit") /\ UNCHANGED <<file, call, seen>>
        BY <2>5 DEF Write
    <3> QED
        BY <1>5, <1>7, <3>1, <3>2
  <2>6. CASE WriteRaises(t)
      BY <1>5, <1>7, <2>6 DEF WriteRaises
  <2>7. CASE Schema(t)
      BY <1>6, <1>7, <1>8, <2>7 DEF Schema, CachePlaces
  <2>8. CASE Checkpoint(t)
      BY <1>6, <1>7, <2>8 DEF Checkpoint, CachePlaces
  <2>9. CASE Sweep(t, now)
    <3>1. (DOMAIN work)' = TableNames
        BY <1>7, <2>9 DEF Sweep, View
    <3>2. pc[t] = "sweep" /\ Goto(t, "swept") /\ UNCHANGED <<file, call, seen>>
        BY <2>9 DEF Sweep
    <3> QED
        BY <1>6, <1>7, <3>1, <3>2 DEF CachePlaces
  <2>10. CASE SweepEnds(t, now)
    <3>1. Goto(t, "begin") /\ UNCHANGED call /\ seen' = [seen EXCEPT ![t] = Note(now, 0, 0)]
          /\ EndTransaction(t)
        BY <2>10 DEF SweepEnds
    <3>2. Note(now, 0, 0) \in NoteType
        BY DEF Control, Shapes, Note, NoteType
    <3>3. seen' \in [Task -> NoteType] /\ \A u \in Task : u # t => seen'[u] = seen[u]
        BY <1>7, <3>1, <3>2
    <3> QED
        BY <1>5, <1>8, <3>1, <3>3
  <2> QED
      BY <2>1, <2>2, <2>3, <2>4, <2>5, <2>6, <2>7, <2>8, <2>9, <2>10 DEF Step, GoOn
<1> QED
    BY <1>1, <1>2, <1>3, <1>9 DEF Shapes
(***************************************************************************)
(* Locks: one connection has the write lock, and it has a call under way;   *)
(* one call of the portfolio or the journal is in its transaction, and its  *)
(* connection has the lock.  The cache's is another matter: there a call    *)
(* may commit or roll back what another one has written.                    *)
(***************************************************************************)
Plain(t) == ConnOf[t] # "cache"

Writing == {"write", "commit", "rollback"}

Locks ==
    /\ LockIsHeld
    /\ \A c, d \in inTx : c = d
    /\ \A t \in Task : Plain(t) /\ pc[t] \in Writing => ConnOf[t] \in inTx
    /\ \A t, u \in Task :
           Plain(t) /\ Plain(u) /\ pc[t] \in Writing /\ pc[u] \in Writing => t = u

(* a task takes the lock or has it already, lets go of it, or has none of it *)
LEMMA LockTaken ==
    ASSUME Locks, NEW t \in Task, inTx \in {{}, {ConnOf[t]}}, inTx' = {ConnOf[t]}, stuck' = stuck,
           \A u \in Task : u # t => pc'[u] = pc[u],
           pc'[t] \in {"write", "commit", "swept"}, pc[t] # "rollback",
           Plain(t) => pc'[t] # "swept" /\ (inTx = {} \/ pc[t] \in Writing)
    PROVE  Locks'
<1>1. LockIsHeld'
    BY DEF Locks, LockIsHeld
<1>2. \A c, d \in inTx' : c = d
    OBVIOUS
<1>3. ASSUME NEW u \in Task, Plain(u), pc'[u] \in Writing
      PROVE  ConnOf[u] \in inTx'
    BY <1>3 DEF Locks, Plain, Writing
<1>4. ASSUME NEW u \in Task, NEW v \in Task, Plain(u), Plain(v),
             pc'[u] \in Writing, pc'[v] \in Writing
      PROVE  u = v
  <2>1. CASE inTx = {}
    <3>1. \A x \in Task : Plain(x) => pc[x] \notin Writing
        BY <2>1 DEF Locks
    <3> QED
        BY <1>4, <3>1
  <2>2. CASE inTx # {}
    <3>1. \A x \in Task : Plain(x) /\ pc'[x] \in Writing => pc[x] \in Writing
        BY <2>2
    <3> QED
        BY <1>4, <3>1 DEF Locks
  <2> QED
      BY <2>1, <2>2
<1> QED
    BY <1>1, <1>2, <1>3, <1>4 DEF Locks, Plain

(* the task lets go of the lock, or of a transaction begun in vain *)
LEMMA LockLeft ==
    ASSUME Locks, NEW t \in Task, inTx' = inTx \ {ConnOf[t]}, stuck' = stuck \ {ConnOf[t]},
           \A u \in Task : u # t => pc'[u] = pc[u],
           pc'[t] \notin Writing, Plain(t) => pc[t] \in Writing
    PROVE  Locks'
<1>1. LockIsHeld'
    BY DEF Locks, LockIsHeld
<1>2. ASSUME NEW u \in Task, Plain(u), pc'[u] \in Writing
      PROVE  u # t /\ pc[u] \in Writing /\ ConnOf[u] \in inTx'
    BY <1>2 DEF Locks, Plain
<1> QED
    BY <1>1, <1>2 DEF Locks, Plain

(* the task has no lock and gets none *)
LEMMA LockUntouched ==
    ASSUME Locks, NEW t \in Task, inTx' = inTx, stuck' \subseteq stuck \cup {"cache"},
           \A u \in Task : u # t => pc'[u] = pc[u],
           pc[t] \notin Writing \cup {"swept"}, pc'[t] \notin Writing
    PROVE  Locks'
<1>1. LockIsHeld'
    BY DEF Locks, LockIsHeld, Writing
<1>2. ASSUME NEW u \in Task, Plain(u), pc'[u] \in Writing
      PROVE  u # t /\ pc[u] \in Writing
    BY <1>2
<1> QED
    BY <1>1, <1>2 DEF Locks, Plain

(* the task keeps the lock on its way to the rollback *)
LEMMA LockKept ==
    ASSUME Locks, NEW t \in Task, inTx' = inTx, stuck' = stuck \cup ({ConnOf[t]} \ inTx),
           \A u \in Task : u # t => pc'[u] = pc[u],
           pc[t] \in {"write", "commit"}, pc'[t] = "rollback"
    PROVE  Locks'
<1>1. LockIsHeld'
    BY DEF Locks, LockIsHeld
<1>2. ASSUME NEW u \in Task, Plain(u), pc'[u] \in Writing
      PROVE  pc[u] \in Writing
    BY <1>2 DEF Writing
<1> QED
    BY <1>1, <1>2 DEF Locks, Plain

(* every step of a method is one of these four *)
LEMMA StepLocks ==
    ASSUME Control, Tables, Locks, NEW t \in Task, Step(t)
    PROVE  Locks'
<1>1. /\ \A u \in Task : u # t => pc'[u] = pc[u]
      /\ pc[t] \in CachePlaces => ConnOf[t] = "cache" /\ ~Plain(t)
    BY StepShape DEF Control, Calls, Plain
<1>2. ASSUME NEW place, Goto(t, place)
      PROVE  pc'[t] = place
    BY <1>2 DEF Control, Shapes, Goto
<1>3. ASSUME Leave(t)
      PROVE  pc'[t] = "idle"
    BY <1>2, <1>3 DEF Leave
<1> USE DEF Writing, CachePlaces, SnapPlaces
<1>4. CASE Return(t)
  <2>1. /\ inTx' = inTx \ {ConnOf[t]} /\ stuck' = stuck \ {ConnOf[t]}
        /\ pc'[t] = "idle" /\ pc[t] = "commit"
      BY <1>3, <1>4 DEF Return, Commit, EndTransaction
  <2> QED
      BY <1>1, <2>1, LockLeft
<1>5. CASE Rollback(t)
  <2>1. /\ inTx' = inTx \ {ConnOf[t]} /\ stuck' = stuck \ {ConnOf[t]}
        /\ pc'[t] = "idle" /\ pc[t] = "rollback"
      BY <1>3, <1>5 DEF Rollback
  <2> QED
      BY <1>1, <2>1, LockLeft
<1>6. CASE Schema(t) \/ SweepEnds(t, now)
  <2>1. /\ inTx' = inTx \ {ConnOf[t]} /\ stuck' = stuck \ {ConnOf[t]}
        /\ pc'[t] \in {"checkpoint", "begin"} /\ pc[t] \in {"connect", "swept"}
      BY <1>2, <1>6 DEF Schema, SweepEnds, EndTransaction
  <2> QED
      BY <1>1, <2>1, LockLeft
<1>7. CASE BeginRaises(t) \/ ValueRaises(t) \/ CheckpointRaises(t)
  <2>1. /\ inTx' = inTx /\ stuck' = stuck
        /\ pc'[t] = "idle" /\ pc[t] \in {"begin", "read", "checkpoint"}
      BY <1>3, <1>7 DEF BeginRaises, ValueRaises, CheckpointRaises
  <2> QED
      BY <1>1, <2>1, LockUntouched
<1>8. CASE SweepRaises(t)
  <2>1. /\ inTx' = inTx /\ stuck' = stuck \cup {ConnOf[t]}
        /\ pc'[t] = "idle" /\ pc[t] = "sweep"
      BY <1>3, <1>8 DEF SweepRaises
  <2> QED
      BY <1>1, <2>1, LockUntouched
<1>9. CASE ReadLatest(t) \/ ReadHighest(t) \/ Checkpoint(t)
  <2>1. /\ inTx' = inTx /\ stuck' = stuck
        /\ pc'[t] \in {"begin", "sweep"} /\ pc[t] \in {"read", "checkpoint"}
      BY <1>2, <1>9 DEF ReadLatest, ReadHighest, Checkpoint
  <2> QED
      BY <1>1, <2>1, LockUntouched
<1>10. CASE Begin(t)
  <2>1. /\ inTx = {} /\ inTx' = {ConnOf[t]} /\ stuck' = stuck
        /\ pc'[t] = "write" /\ pc[t] = "begin"
      BY <1>2, <1>10 DEF Begin
  <2> QED
      BY <1>1, <2>1, LockTaken
<1>11. CASE Write(t, After(t, View(ConnOf[t])))
  <2>1. /\ inTx \in {{}, {ConnOf[t]}} /\ inTx' = {ConnOf[t]} /\ stuck' = stuck
        /\ pc'[t] = "commit" /\ pc[t] = "write"
      BY <1>2, <1>11 DEF Write
  <2> QED
      BY <1>1, <2>1, LockTaken
<1>12. CASE Sweep(t, now)
  <2>1. /\ inTx \in {{}, {ConnOf[t]}} /\ inTx' = {ConnOf[t]} /\ stuck' = stuck
        /\ pc'[t] = "swept" /\ pc[t] = "sweep"
      BY <1>2, <1>12 DEF Sweep
  <2> QED
      BY <1>1, <2>1, LockTaken
<1>13. CASE WriteRaises(t)
  <2>1. /\ inTx' = inTx /\ stuck' = stuck \cup ({ConnOf[t]} \ inTx)
        /\ pc'[t] = "rollback" /\ pc[t] \in {"write", "commit"}
      BY <1>2, <1>13 DEF WriteRaises
  <2> QED
      BY <1>1, <2>1, LockKept
<1> QED
    BY <1>4, <1>5, <1>6, <1>7, <1>8, <1>9, <1>10, <1>11, <1>12, <1>13 DEF Step, Fail, GoOn

(* A task of another connection leaves the snapshots as they are. *)
LEMMA Bystander ==
    ASSUME Control, Tables, Locks, NEW t \in Task, Step(t), ~Portfolio(t)
    PROVE  /\ file'.snaps = file.snaps /\ work'.snaps = work.snaps
           /\ "portfolio" \in inTx <=> "portfolio" \in inTx'
<1>1. ConnOf[t] # "portfolio" /\ ~IsSnapshot(t)
    BY DEF Control, Calls, Portfolio
<1>2. ConnOf[t] \in inTx \/ inTx = {} => work.snaps = file.snaps
    BY <1>1 DEF Tables, Locks
<1>3. ASSUME EndTransaction(t)
      PROVE  /\ file'.snaps = file.snaps /\ work' = work
             /\ "portfolio" \in inTx <=> "portfolio" \in inTx'
    BY <1>1, <1>2, <1>3 DEF EndTransaction, View
<1>4. CASE Return(t) \/ Schema(t) \/ SweepEnds(t, now)
    BY <1>3, <1>4 DEF Return, Commit, Schema, SweepEnds
<1>5. CASE Rollback(t)
    BY <1>1, <1>2, <1>5 DEF Rollback
<1>6. CASE \/ BeginRaises(t) \/ ValueRaises(t) \/ CheckpointRaises(t) \/ SweepRaises(t)
           \/ ReadLatest(t) \/ ReadHighest(t) \/ Checkpoint(t) \/ WriteRaises(t)
    BY <1>6 DEF BeginRaises, ValueRaises, CheckpointRaises, SweepRaises, ReadLatest, ReadHighest,
                Checkpoint, WriteRaises
<1>7. CASE Begin(t)
    BY <1>1, <1>2, <1>7 DEF Begin
<1>8. CASE Write(t, After(t, View(ConnOf[t])))
  <2>1. After(t, View(ConnOf[t])).snaps = View(ConnOf[t]).snaps
      BY <1>1 DEF After, SnapsAfter, IsSnapshot
  <2> QED
      BY <1>1, <1>2, <1>8, <2>1 DEF Write, View
<1>9. CASE Sweep(t, now)
  <2>1. "snaps" \in DOMAIN View(ConnOf[t])
      BY DEF Control, Shapes, View, TableNames
  <2> DEFINE tables == View(ConnOf[t])
             after == [tables EXCEPT !.cache = Swept(@, now)]
  <2>2. after.snaps = tables.snaps
      BY <2>1
  <2>3. work' = after
      BY <1>9 DEF Sweep
  <2>4. file' = file /\ inTx \in {{}, {ConnOf[t]}} /\ inTx' = {ConnOf[t]}
      BY <1>9 DEF Sweep
  <2>5. tables.snaps = work.snaps
      BY <1>2, <2>4 DEF View
  <2> HIDE DEF after, tables
  <2> QED
      BY <1>1, <2>2, <2>3, <2>4, <2>5
<1> QED
    BY <1>4, <1>5, <1>6, <1>7, <1>8, <1>9 DEF Step, Fail, GoOn
(***************************************************************************)
(* Alone: as long as no two snapshot calls overlap, the one in hand has     *)
(* read what the file still says, and what it leaves is an exact report.    *)
(***************************************************************************)
Exact(t) ==
    /\ Balance(SnapsAfter(t, file.snaps)) = call[t].cash
    /\ HighestPeak(SnapsAfter(t, file.snaps)) = Greater(HighestPeak(file.snaps), call[t].cash)

Reading == {"begin", "write", "commit"}

Alone ==
    ~overlap =>
        /\ \A t, u \in SnapshotsInHand : t = u
        /\ \A t \in SnapshotsInHand : pc[t] \in Reading => Exact(t)

(***************************************************************************)
(* Overlaps: the rows from before an overlap lose no peak, neither in the   *)
(* file nor in the open transaction, as a call that patches one has read a  *)
(* peak of it that was no lower.  What a call leaves is what its statement  *)
(* makes of the file, alone or not.                                         *)
(***************************************************************************)
Base == IF overlap THEN before ELSE file.snaps

Noted(t) == seen[t].id \in DOMAIN Base => Base[seen[t].id].peak <= seen[t].high

Overlaps ==
    /\ RowsOK(before)
    /\ ~overlap => before = <<>>
    /\ overlap => SnapshotsInHand # {}
    /\ AtLeast(Base, file.snaps) /\ AtLeast(Base, work.snaps)
    /\ \A t \in SnapshotsInHand :
           /\ pc[t] \in Reading => Noted(t)
           /\ pc[t] = "write" => work.snaps = file.snaps
           /\ pc[t] = "commit" => work.snaps = SnapsAfter(t, file.snaps)

DbInv == Control /\ Tables /\ Locks /\ Alone /\ Overlaps

(* the statement of a call leaves sound rows *)
LEMMA AfterOK ==
    ASSUME NEW t, NEW rows, RowsOK(rows), seen[t] \in NoteType, call[t].cash \in Nat
    PROVE  RowsOK(SnapsAfter(t, rows))
<1> DEFINE cash == call[t].cash
           high == seen[t].high
           id == seen[t].id
           peak == Greater(high, cash)
<1>1. cash \in Nat /\ id \in Nat /\ peak \in Nat /\ cash <= peak
    BY DEF NoteType, Greater
<1>2. RowsOK(Append(rows, Row(cash, cash))) /\ RowsOK(Append(rows, Row(cash, peak)))
    BY <1>1, AppendOK
<1>3. id \in DOMAIN rows => RowsOK([rows EXCEPT ![id] = Row(cash, peak)])
  <2> HIDE DEF id, cash, peak
  <2> QED
      BY <1>1, PatchOK
<1>4. Updated(t, rows) \in {Append(rows, Row(cash, cash)), rows}
          \/ (id \in DOMAIN rows /\ Updated(t, rows) = [rows EXCEPT ![id] = Row(cash, peak)])
    BY DEF Updated
<1>5. Valued(t, rows) = Append(rows, Row(cash, peak))
    BY DEF Valued
<1> HIDE DEF cash, high, id, peak
<1>6. RowsOK(Updated(t, rows)) /\ RowsOK(Valued(t, rows))
    BY <1>2, <1>3, <1>4, <1>5
<1>7. SnapsAfter(t, rows) \in {Updated(t, rows), Valued(t, rows), rows}
    BY Zenon DEF SnapsAfter
<1> QED
    BY <1>6, <1>7

(* it loses no peak that the call had noted, and its cash is the old or the new one *)
LEMMA AfterAtLeast ==
    ASSUME NEW t, NEW base, RowsOK(base), NEW rows, RowsOK(rows), AtLeast(base, rows),
           seen[t] \in NoteType, call[t].cash \in Nat,
           seen[t].id \in DOMAIN base => base[seen[t].id].peak <= seen[t].high
    PROVE  /\ AtLeast(base, SnapsAfter(t, rows))
           /\ Balance(SnapsAfter(t, rows)) \in {Balance(rows), call[t].cash}
<1> DEFINE cash == call[t].cash
           high == seen[t].high
           id == seen[t].id
           peak == Greater(high, cash)
<1>1. cash \in Nat /\ id \in Nat /\ high \in Nat /\ peak \in Nat /\ high <= peak
    BY DEF NoteType, Greater
<1>2. ASSUME NEW p \in Nat
      PROVE  /\ AtLeast(base, Append(rows, Row(cash, p)))
             /\ Balance(Append(rows, Row(cash, p))) = cash
  <2>1. Row(cash, p) \in RowType
      BY <1>1 DEF Row, RowType
  <2> DEFINE after == Append(rows, Row(cash, p))
  <2>2. /\ after # <<>> /\ Len(after) = Len(rows) + 1 /\ after[Len(rows) + 1] = Row(cash, p)
        /\ \A i \in DOMAIN rows : after[i] = rows[i]
      BY <2>1, AppendFacts
  <2> HIDE DEF after
  <2>3. Balance(after) = cash
      BY <2>2 DEF Balance, Row
  <2>4. AtLeast(base, after)
      BY <2>2, RowFacts DEF AtLeast
  <2> QED
      BY <2>3, <2>4 DEF after
<1>3. ASSUME id \in DOMAIN rows
      PROVE  LET after == [rows EXCEPT ![id] = Row(cash, peak)]
             IN  AtLeast(base, after) /\ Balance(after) \in {Balance(rows), cash}
  <2>1. id \in DOMAIN base => base[id].peak <= peak
    <3>1. id \in DOMAIN base => base[id].peak \in Nat /\ base[id].peak <= high
        BY RowFacts
    <3> HIDE DEF id, high, peak
    <3> QED
        BY <1>1, <3>1
  <2> HIDE DEF id, high, peak, cash
  <2> QED
      BY <1>1, <1>3, <2>1, PatchAtLeast
<1>4. Updated(t, rows) \in {Append(rows, Row(cash, cash)), rows}
          \/ (id \in DOMAIN rows /\ Updated(t, rows) = [rows EXCEPT ![id] = Row(cash, peak)])
    BY DEF Updated
<1>5. Valued(t, rows) = Append(rows, Row(cash, peak))
    BY DEF Valued
<1>6. SnapsAfter(t, rows) \in {Updated(t, rows), Valued(t, rows), rows}
    BY Zenon DEF SnapsAfter
<1> HIDE DEF cash, high, id, peak
<1>7. ASSUME NEW after \in {Updated(t, rows), Valued(t, rows), rows}
      PROVE  AtLeast(base, after) /\ Balance(after) \in {Balance(rows), cash}
    BY <1>1, <1>2, <1>3, <1>4, <1>5, <1>7
<1> QED
    BY <1>6, <1>7 DEF cash

(* what a snapshot call notes of rows that stay is enough for an exact report *)
LEMMA ReadIsExact ==
    ASSUME Control, Tables, Locks, Alone, ~overlap, NEW t \in Task, Portfolio(t),
           ReadLatest(t) \/ ReadHighest(t)
    PROVE  Exact(t)'
<1> DEFINE rows == file.snaps
           cash == call[t].cash
<1>1. IsSnapshot(t) /\ cash \in Nat /\ pc[t] = "read"
    BY InHand DEF Control, ReadLatest, ReadHighest
<1>2. \A u \in Task : Portfolio(u) /\ pc[u] # "idle" => u = t
    BY <1>1, InHand DEF Alone, SnapshotsInHand, Control
<1>3. "portfolio" \notin inTx
    BY <1>1, <1>2 DEF Locks, LockIsHeld, Portfolio
<1>4. View(ConnOf[t]) = file
    BY <1>3 DEF View, Portfolio
<1>5. RowsOK(rows)
    BY DEF Tables
<1>6. file' = file /\ call' = call
    BY DEF ReadLatest, ReadHighest
<1>7. CASE ReadLatest(t)
  <2> DEFINE note == Note(0, Len(rows), IF rows = <<>> THEN 0 ELSE rows[Len(rows)].peak)
  <2>1. seen' = [seen EXCEPT ![t] = note] /\ Op(t) = "update_cash"
      BY <1>4, <1>7 DEF ReadLatest
  <2>2. seen'[t] = note
      BY <2>1 DEF Control, Shapes
  <2>3. SnapsAfter(t, rows)' = Updated(t, rows)'
      BY <1>6, <2>1 DEF SnapsAfter, Op
  <2>4. CASE rows = <<>>
    <3>1. Updated(t, rows)' = Append(rows, Row(cash, cash))
      <4>1. seen'[t].id = 0
          BY <2>2, <2>4 DEF Note
      <4> QED
          BY <1>6, <4>1 DEF Updated
    <3>2. cash <= cash /\ cash <= Greater(HighestPeak(rows), cash)
      <4>1. HighestPeak(rows) \in Nat
          BY <1>5, BalanceBelowPeak
      <4> QED
          BY <1>1, <4>1 DEF Greater
    <3>3. /\ Balance(Append(rows, Row(cash, cash))) = cash
          /\ HighestPeak(Append(rows, Row(cash, cash))) = Greater(HighestPeak(rows), cash)
        BY <1>1, <1>5, <3>2, AppendReports
    <3> QED
        BY <1>6, <2>3, <3>1, <3>3 DEF Exact
  <2>5. CASE rows # <<>>
    <3>1. Len(rows) # 0 /\ Len(rows) \in DOMAIN rows
        BY <1>5, <2>5, RowFacts
    <3>2. seen'[t].id = Len(rows) /\ seen'[t].high = rows[Len(rows)].peak
        BY <2>2, <2>5 DEF Note
    <3>3. Updated(t, rows)' =
              [rows EXCEPT ![Len(rows)] = Row(cash, Greater(rows[Len(rows)].peak, cash))]
        BY <1>6, <3>1, <3>2 DEF Updated
    <3>4. LET after == [rows EXCEPT ![Len(rows)] = Row(cash, Greater(rows[Len(rows)].peak, cash))]
          IN  Balance(after) = cash /\ HighestPeak(after) = Greater(HighestPeak(rows), cash)
        BY <1>1, <1>5, <2>5, PatchReports
    <3> QED
        BY <1>6, <2>3, <3>3, <3>4 DEF Exact
  <2> QED
      BY <2>4, <2>5
<1>8. CASE ReadHighest(t)
  <2> DEFINE peak == Greater(HighestTotal(rows), cash)
  <2>1. seen' = [seen EXCEPT ![t] = Note(0, 0, HighestTotal(rows))] /\ Op(t) = "compute_value"
      BY <1>4, <1>8 DEF ReadHighest
  <2>2. seen'[t].high = HighestTotal(rows)
      BY <2>1 DEF Control, Shapes, Note
  <2>3. SnapsAfter(t, rows)' = Append(rows, Row(cash, peak))
      BY <1>6, <2>1, <2>2 DEF SnapsAfter, Op, Valued
  <2>4. peak \in Nat /\ cash <= peak /\ peak <= Greater(HighestPeak(rows), cash)
    <3>1. HighestTotal(rows) \in Nat /\ HighestPeak(rows) \in Nat /\ HighestTotal(rows) <= HighestPeak(rows)
        BY <1>5, TotalBelowPeak, BalanceBelowPeak
    <3> QED
        BY <1>1, <3>1 DEF Greater
  <2>5. /\ Balance(Append(rows, Row(cash, peak))) = cash
        /\ HighestPeak(Append(rows, Row(cash, peak))) = Greater(HighestPeak(rows), cash)
      BY <1>1, <1>5, <2>4, AppendReports
  <2> QED
      BY <1>6, <2>3, <2>5 DEF Exact
<1> QED
    BY <1>7, <1>8
(* The steps of a snapshot call, and what they do to the rows. *)
LEMMA SnapshotStep ==
    ASSUME Control, Tables, Locks, NEW t \in Task, Step(t), Portfolio(t)
    PROVE  /\ IsSnapshot(t) /\ call[t].cash \in Nat /\ seen[t] \in NoteType
           /\ \/ /\ pc[t] = "read" /\ pc'[t] = "begin"
                 /\ file' = file /\ work' = work /\ inTx' = inTx /\ call' = call
                 /\ ReadLatest(t) \/ ReadHighest(t)
              \/ /\ pc[t] \in {"read", "begin"} /\ pc'[t] = "idle"
                 /\ file' = file /\ work' = work /\ inTx' = inTx
              \/ /\ pc[t] = "begin" /\ pc'[t] = "write"
                 /\ file' = file /\ work' = file
                 /\ call' = call /\ seen' = seen
              \/ /\ pc[t] = "write" /\ pc'[t] = "commit"
                 /\ file' = file /\ work'.snaps = SnapsAfter(t, work.snaps)
                 /\ call' = call /\ seen' = seen
              \/ /\ pc[t] \in {"write", "commit"} /\ pc'[t] = "rollback"
                 /\ file' = file /\ work' = work /\ inTx' = inTx /\ call' = call
              \/ pc[t] = "commit" /\ pc'[t] = "idle" /\ file' = work /\ work' = work
              \/ pc[t] = "rollback" /\ pc'[t] = "idle" /\ file' = file /\ work' = file
<1>1. pc[t] # "idle" /\ IsSnapshot(t) /\ call[t].cash \in Nat /\ seen[t] \in NoteType
      /\ pc[t] \in SnapPlaces
    BY StepShape, InHand DEF Control, Shapes
<1>2. pc[t] \in Writing => ConnOf[t] \in inTx
    BY DEF Locks, Plain, Portfolio
<1>3. ASSUME NEW place, Goto(t, place)
      PROVE  pc'[t] = place
    BY <1>3 DEF Control, Shapes, Goto
<1>4. ASSUME Leave(t)
      PROVE  pc'[t] = "idle"
    BY <1>3, <1>4 DEF Leave
<1>5. ~Schema(t) /\ ~Checkpoint(t) /\ ~CheckpointRaises(t) /\ ~Sweep(t, now) /\ ~SweepEnds(t, now)
      /\ ~SweepRaises(t)
    BY <1>1 DEF SnapPlaces, Schema, Checkpoint, CheckpointRaises, Sweep, SweepEnds, SweepRaises
<1>6. CASE Return(t)
    BY <1>1, <1>2, <1>4, <1>6 DEF Return, Commit, EndTransaction, View, Writing
<1>7. CASE Rollback(t)
    BY <1>1, <1>2, <1>4, <1>7 DEF Rollback, Writing
<1>8. CASE BeginRaises(t) \/ ValueRaises(t)
    BY <1>1, <1>4, <1>8 DEF BeginRaises, ValueRaises
<1>9. CASE ReadLatest(t) \/ ReadHighest(t)
  <2>1. /\ pc[t] = "read" /\ pc'[t] = "begin"
        /\ file' = file /\ work' = work /\ inTx' = inTx /\ call' = call
      BY <1>3, <1>9 DEF ReadLatest, ReadHighest
  <2> QED
      BY <1>1, <1>9, <2>1
<1>10. CASE Begin(t)
    BY <1>1, <1>3, <1>10 DEF Begin
<1>11. CASE Write(t, After(t, View(ConnOf[t])))
  <2>1. pc[t] = "write" /\ pc'[t] = "commit" /\ file' = file /\ call' = call /\ seen' = seen
        /\ work' = After(t, View(ConnOf[t]))
      BY <1>3, <1>11 DEF Write
  <2>2. View(ConnOf[t]) = work
      BY <1>2, <2>1 DEF View, Writing
  <2>3. After(t, work).snaps = SnapsAfter(t, work.snaps)
      BY DEF After
  <2> QED
      BY <1>1, <2>1, <2>2, <2>3
<1>12. CASE WriteRaises(t)
  <2>1. /\ pc[t] \in {"write", "commit"} /\ pc'[t] = "rollback"
        /\ file' = file /\ work' = work /\ inTx' = inTx /\ call' = call
      BY <1>3, <1>12 DEF WriteRaises
  <2> QED
      BY <1>1, <2>1
<1> QED
    BY <1>5, <1>6, <1>7, <1>8, <1>9, <1>10, <1>11, <1>12 DEF Step, Fail, GoOn

(* Rows stay sound over every step of a method. *)
LEMMA StepTables ==
    ASSUME Control, Tables, Locks, NEW t \in Task, Step(t)
    PROVE  Tables'
<1>1. CASE ~Portfolio(t)
    BY <1>1, Bystander DEF Tables
<1>2. CASE Portfolio(t)
  <2>1. RowsOK(SnapsAfter(t, work.snaps))
      BY <1>2, SnapshotStep, AfterOK DEF Tables
  <2>2. RowsOK(file'.snaps) /\ RowsOK(work'.snaps)
      BY <1>2, <2>1, SnapshotStep DEF Tables
  <2>3. ASSUME "portfolio" \notin inTx'
        PROVE  work'.snaps = file'.snaps
    <3>1. pc'[t] \notin Writing
        BY <1>2, <2>3, StepLocks DEF Locks, Plain, Portfolio
    <3>2. pc'[t] \notin {"write", "commit", "rollback"}
        BY <3>1 DEF Writing
    <3> QED
        BY <1>2, <2>3, <3>2, SnapshotStep DEF Tables
  <2> QED
      BY <2>2, <2>3 DEF Tables
<1> QED
    BY <1>1, <1>2

(* Without overlap the call in hand after a step was the one in hand before. *)
LEMMA StepHands ==
    ASSUME Control, Tables, Alone, NEW t \in Task, Step(t)
    PROVE  /\ SnapshotsInHand' \subseteq SnapshotsInHand
           /\ ~overlap => ~overlap'
           /\ ~overlap' /\ SnapshotsInHand' # {} => ~overlap
<1>1. /\ Calls /\ Calls' /\ pc[t] # "idle"
      /\ \A u \in Task : u # t => pc'[u] = pc[u] /\ call'[u] = call[u]
    BY StepShape DEF Control
<1>2. \A u \in Task : IsSnapshot(u) <=> Portfolio(u) /\ pc[u] # "idle"
    BY <1>1, InHand
<1>3. \A u \in Task : IsSnapshot(u)' => IsSnapshot(u)
  <2> SUFFICES ASSUME NEW u \in Task, IsSnapshot(u)'
               PROVE  IsSnapshot(u)
      OBVIOUS
  <2>1. CASE u # t
      BY <1>1, <2>1 DEF IsSnapshot, Op
  <2>2. CASE u = t
    <3>1. Portfolio(t)
        BY <1>1, <2>2 DEF Calls, Portfolio
    <3> QED
        BY <1>1, <1>2, <2>2, <3>1
  <2> QED
      BY <2>1, <2>2
<1>4. SnapshotsInHand' \subseteq SnapshotsInHand
    BY <1>3 DEF SnapshotsInHand
<1>5. overlap' = (SnapshotsInHand' # {} /\ (overlap \/ \E u, v \in SnapshotsInHand' : u # v))
    BY DEF Step, Watch
<1>6. ~overlap => \A u, v \in SnapshotsInHand : u = v
    BY DEF Alone
<1> QED
    BY <1>4, <1>5, <1>6

(* What the one call in hand has read stays true until it has committed. *)
LEMMA StepAlone ==
    ASSUME DbInv, NEW x \in Task, Step(x)
    PROVE  Alone'
<1> USE DEF DbInv
<1> SUFFICES ASSUME ~overlap', NEW t \in SnapshotsInHand'
             PROVE  /\ \A u \in SnapshotsInHand' : u = t
                    /\ pc'[t] \in Reading => Exact(t)'
    BY Zenon DEF Alone
<1>1. ~overlap /\ SnapshotsInHand' \subseteq SnapshotsInHand
    BY StepHands
<1>2. /\ \A u \in SnapshotsInHand : u = t
      /\ pc[t] \in Reading => Exact(t)
    BY <1>1 DEF Alone
<1>3. \A u \in SnapshotsInHand' : u = t
    BY <1>1, <1>2
<1>4. t \in Task /\ IsSnapshot(t) /\ Portfolio(t)
    BY <1>1, InHand DEF SnapshotsInHand, Control
<1>5. ASSUME file'.snaps = file.snaps, call'[t] = call[t], seen'[t] = seen[t]
      PROVE  Exact(t) => Exact(t)'
  <2>1. SnapsAfter(t, file.snaps)' = SnapsAfter(t, file.snaps)
      BY <1>5, Zenon DEF SnapsAfter, Op, Updated, Valued
  <2> QED
      BY <1>5, <2>1 DEF Exact
<1>6. CASE x # t
  <2>1. ~Portfolio(x)
      BY <1>2, <1>6, StepShape, InHand DEF SnapshotsInHand, Control
  <2>2. file'.snaps = file.snaps
      BY <2>1, Bystander
  <2>3. pc'[t] = pc[t] /\ call'[t] = call[t] /\ seen'[t] = seen[t]
      BY <1>4, <1>6, StepShape
  <2> QED
      BY <1>2, <1>3, <1>5, <2>2, <2>3
<1>7. CASE x = t
  <2>1. pc'[t] # "idle"
      BY <1>4, StepShape, InHandNext DEF SnapshotsInHand
  <2>2. CASE pc'[t] = "begin"
    <3>1. ReadLatest(t) \/ ReadHighest(t)
        BY <1>4, <1>7, <2>2, SnapshotStep
    <3>2. Exact(t)'
        BY <1>1, <1>4, <3>1, ReadIsExact
    <3> QED
        BY <1>3, <3>2
  <2>3. CASE pc'[t] \in {"write", "commit"}
    <3>1. pc[t] \in {"begin", "write"} /\ file' = file /\ call' = call /\ seen' = seen
        BY <1>4, <1>7, <2>3, SnapshotStep
    <3> QED
        BY <1>2, <1>3, <1>5, <3>1 DEF Reading
  <2> QED
      BY <1>3, <2>1, <2>2, <2>3 DEF Reading
<1> QED
    BY <1>6, <1>7

(* what a call reads of a row is no lower than its peak before the overlap *)
LEMMA ReadIsNoted ==
    ASSUME Control, Tables, Overlaps, NEW t \in Task, ReadLatest(t) \/ ReadHighest(t), Base' = Base
    PROVE  Noted(t)'
<1> DEFINE rows == View(ConnOf[t]).snaps
<1>1. RowsOK(rows) /\ AtLeast(Base, rows)
    BY DEF Tables, Overlaps, View
<1>2. RowsOK(Base)
    BY DEF Overlaps, Tables, Base
<1>3. CASE ReadLatest(t)
  <2>1. seen'[t].id = Len(rows) /\ (rows # <<>> => seen'[t].high = rows[Len(rows)].peak)
      BY <1>3 DEF ReadLatest, Note, Control, Shapes
  <2> HIDE DEF rows
  <2>2. Len(rows) \in DOMAIN Base => rows # <<>> /\ Base[Len(rows)].peak <= rows[Len(rows)].peak
      BY <1>1, <1>2, RowFacts DEF AtLeast
  <2> QED
      BY <2>1, <2>2 DEF Noted
<1>4. CASE ReadHighest(t)
  <2>1. seen'[t].id = 0
      BY <1>4 DEF ReadHighest, Note, Control, Shapes
  <2>2. 0 \notin DOMAIN Base
      BY <1>2, RowFacts
  <2> QED
      BY <2>1, <2>2 DEF Noted
<1> QED
    BY <1>3, <1>4

(* with the last call gone there is no overlap, and no row to have lost a peak *)
LEMMA NoneInHand ==
    ASSUME Calls', Tables', SnapshotsInHand' = {}, ~overlap', before' = <<>>, work'.snaps = file'.snaps
    PROVE  Overlaps'
<1>1. RowsOK(<<>>)
    BY DEF RowsOK
<1>2. Base' = file'.snaps
    BY DEF Base
<1>3. AtLeast(Base, file.snaps)'
    BY <1>2, AtLeastItself DEF Tables
<1>4. AtLeast(Base, work.snaps)'
    BY <1>2, <1>3
<1> QED
    BY <1>1, <1>3, <1>4 DEF Overlaps

(* the calls in hand that stay leave the overlap as it is *)
LEMMA SameOverlap ==
    ASSUME Control, Alone, Overlaps, Watch, SnapshotsInHand' = SnapshotsInHand
    PROVE  UNCHANGED <<overlap, before>>
<1>1. overlap' = (SnapshotsInHand # {} /\ (overlap \/ \E t, u \in SnapshotsInHand : t # u))
      /\ before' = IF ~overlap' THEN <<>> ELSE IF overlap THEN before ELSE file.snaps
    BY DEF Watch
<1>2. (\E t, u \in SnapshotsInHand : t # u) => overlap
    BY DEF Alone
<1>3. /\ overlap \in BOOLEAN
      /\ overlap => SnapshotsInHand # {}
      /\ ~overlap => before = <<>>
    BY DEF Control, Shapes, Overlaps
<1>4. CASE overlap
  <2>1. overlap = TRUE /\ overlap' = TRUE
      BY <1>1, <1>3, <1>4
  <2> QED
      BY <1>1, <2>1
<1>5. CASE ~overlap
  <2>1. overlap = FALSE /\ overlap' = FALSE
      BY <1>1, <1>2, <1>3, <1>5
  <2> QED
      BY <1>1, <1>3, <2>1
<1> QED
    BY <1>4, <1>5

(* a step of another connection: nothing an overlap is about moves *)
LEMMA BystanderOverlaps ==
    ASSUME DbInv, NEW x \in Task, Step(x), ~Portfolio(x)
    PROVE  /\ UNCHANGED <<overlap, before>> /\ SnapshotsInHand' = SnapshotsInHand
           /\ \A t \in SnapshotsInHand : pc'[t] = pc[t] /\ call'[t] = call[t] /\ seen'[t] = seen[t]
           /\ Overlaps'
<1> USE DEF DbInv
<1>1. /\ Calls /\ Calls'
      /\ \A u \in Task : u # x => pc'[u] = pc[u] /\ call'[u] = call[u] /\ seen'[u] = seen[u]
    BY StepShape DEF Control
<1>2. \A u \in Task : /\ IsSnapshot(u) <=> Portfolio(u) /\ pc[u] # "idle"
                      /\ IsSnapshot(u)' <=> Portfolio(u) /\ pc'[u] # "idle"
    BY <1>1, InHand, InHandNext
<1>3. SnapshotsInHand' = SnapshotsInHand /\ x \notin SnapshotsInHand
    BY <1>1, <1>2 DEF SnapshotsInHand
<1>4. \A t \in SnapshotsInHand : pc'[t] = pc[t] /\ call'[t] = call[t] /\ seen'[t] = seen[t]
    BY <1>1, <1>3 DEF SnapshotsInHand
<1>5. UNCHANGED <<overlap, before>>
    BY <1>3, SameOverlap DEF Step
<1>6. file'.snaps = file.snaps /\ work'.snaps = work.snaps
    BY Bystander
<1>7. \A t \in SnapshotsInHand : SnapsAfter(t, file.snaps)' = SnapsAfter(t, file.snaps)
    BY <1>4, <1>6, Zenon DEF SnapsAfter, Op, Updated, Valued
<1>8. Base' = Base
    BY <1>5, <1>6 DEF Base
<1>9. Overlaps'
    BY <1>3, <1>4, <1>5, <1>6, <1>7, <1>8 DEF Overlaps, Noted
<1> QED
    BY <1>3, <1>4, <1>5, <1>9

(* The rows from before an overlap keep their peaks over every step. *)
LEMMA StepOverlaps ==
    ASSUME DbInv, NEW x \in Task, Step(x)
    PROVE  Overlaps'
<1> USE DEF DbInv
<1>1. CASE ~Portfolio(x)
    BY <1>1, BystanderOverlaps
<1>2. CASE Portfolio(x)
  <2>1. /\ Calls /\ Calls' /\ Tables' /\ Locks' /\ SnapshotsInHand' \subseteq SnapshotsInHand
        /\ \A u \in Task : u # x => pc'[u] = pc[u] /\ call'[u] = call[u] /\ seen'[u] = seen[u]
      BY StepShape, StepTables, StepLocks, StepHands DEF Control
  <2>2. /\ overlap' = (SnapshotsInHand' # {} /\ (overlap \/ \E t, u \in SnapshotsInHand' : t # u))
        /\ before' = IF ~overlap' THEN <<>> ELSE IF overlap THEN before ELSE file.snaps
      BY DEF Step, Watch
  <2>3. \A u \in Task : IsSnapshot(u)' <=> Portfolio(u) /\ pc'[u] # "idle"
      BY <2>1, InHandNext
  <2>4. CASE SnapshotsInHand' = {}
    <3>1. \A u \in Task : Portfolio(u) => pc'[u] = "idle"
        BY <2>3, <2>4 DEF SnapshotsInHand
    <3>2. "portfolio" \notin inTx'
        BY <2>1, <3>1 DEF Locks, LockIsHeld, Portfolio
    <3> QED
        BY <2>1, <2>2, <2>4, <3>2, NoneInHand DEF Tables
  <2>5. CASE SnapshotsInHand' # {}
    <3>1. x \in SnapshotsInHand /\ (pc'[x] = "idle" => x \notin SnapshotsInHand')
        BY <1>2, <2>3, SnapshotStep DEF SnapshotsInHand
    <3>2. ~overlap => ~overlap' /\ pc'[x] # "idle" /\ before' = <<>>
        BY <2>1, <2>2, <2>5, <3>1, StepHands DEF Alone
    <3>3. overlap => overlap' /\ before' = before
        BY <2>2, <2>5
    <3>4. RowsOK(before)' /\ (~overlap' => before' = <<>>)
      <4>1. RowsOK(<<>>)
          BY DEF RowsOK
      <4>2. RowsOK(before)
          BY DEF Overlaps
      <4> QED
          BY <3>2, <3>3, <4>1, <4>2
    <3>5. Base' = Base
      <4>1. ~overlap => file' = file
          BY <1>2, <3>2, SnapshotStep
      <4> QED
          BY <3>2, <3>3, <4>1 DEF Base
    <3>6. RowsOK(Base) /\ RowsOK(work.snaps) /\ AtLeast(Base, file.snaps) /\ AtLeast(Base, work.snaps)
        BY DEF Overlaps, Tables, Base
    <3>7. pc[x] = "write" => AtLeast(Base, SnapsAfter(x, work.snaps))
      <4>1. pc[x] = "write" => Noted(x)
          BY <3>1 DEF Overlaps, Reading
      <4> QED
          BY <1>2, <3>6, <4>1, SnapshotStep, AfterAtLeast DEF Noted
    <3>8. AtLeast(Base, file.snaps)' /\ AtLeast(Base, work.snaps)'
      <4>1. AtLeast(Base, file'.snaps) /\ AtLeast(Base, work'.snaps)
          BY <1>2, <3>6, <3>7, SnapshotStep
      <4> QED
          BY <3>5, <4>1
    <3>9. ASSUME NEW t \in SnapshotsInHand'
          PROVE  /\ pc'[t] \in Reading => Noted(t)'
                 /\ pc'[t] = "write" => work'.snaps = file'.snaps
                 /\ pc'[t] = "commit" => work'.snaps = SnapsAfter(t, file.snaps)'
      <4>1. t \in Task /\ t \in SnapshotsInHand /\ Portfolio(t)
          BY <2>1, <2>3 DEF SnapshotsInHand
      <4>2. /\ pc[t] \in Reading => Noted(t)
            /\ pc[t] = "write" => work.snaps = file.snaps
            /\ pc[t] = "commit" => work.snaps = SnapsAfter(t, file.snaps)
          BY <4>1 DEF Overlaps
      <4>3. ASSUME file'.snaps = file.snaps, call'[t] = call[t], seen'[t] = seen[t]
            PROVE  SnapsAfter(t, file.snaps)' = SnapsAfter(t, file.snaps)
          BY <4>3, Zenon DEF SnapsAfter, Op, Updated, Valued
      <4>4. CASE t # x
        <5>1. pc'[t] = pc[t] /\ call'[t] = call[t] /\ seen'[t] = seen[t]
            BY <2>1, <4>1, <4>4
        <5>2. Noted(t) => Noted(t)'
            BY <3>5, <5>1 DEF Noted
        <5>3. ASSUME pc[t] \in {"write", "commit"}
              PROVE  file' = file /\ work' = work
          <6>1. pc[x] \notin Writing /\ pc'[x] \notin Writing
              BY <1>2, <2>1, <4>1, <4>4, <5>1, <5>3 DEF Locks, Plain, Portfolio, Writing
          <6> QED
              BY <1>2, <6>1, SnapshotStep DEF Writing
        <5> QED
            BY <4>2, <4>3, <5>1, <5>2, <5>3
      <4>5. CASE t = x
        <5>1. pc'[t] # "idle"
            BY <2>3, <4>1 DEF SnapshotsInHand
        <5>2. CASE pc'[t] = "begin"
          <6>1. ReadLatest(t) \/ ReadHighest(t)
              BY <1>2, <4>5, <5>2, SnapshotStep
          <6> QED
              BY <3>5, <4>1, <5>2, <6>1, ReadIsNoted
        <5>3. CASE pc'[t] = "write"
          <6>1. pc[t] = "begin" /\ file' = file /\ work' = file /\ seen' = seen
              BY <1>2, <4>5, <5>3, SnapshotStep
          <6> QED
              BY <3>5, <4>2, <5>3, <6>1 DEF Noted, Reading
        <5>4. CASE pc'[t] = "commit"
          <6>1. /\ pc[t] = "write" /\ file' = file /\ call' = call /\ seen' = seen
                /\ work'.snaps = SnapsAfter(t, work.snaps)
              BY <1>2, <4>5, <5>4, SnapshotStep
          <6> QED
              BY <3>5, <4>2, <4>3, <5>4, <6>1 DEF Noted, Reading
        <5> QED
            BY <5>1, <5>2, <5>3, <5>4 DEF Reading
      <4> QED
          BY <4>4, <4>5
    <3> QED
        BY <2>2, <2>5, <3>4, <3>8, <3>9 DEF Overlaps
  <2> QED
      BY <2>4, <2>5
<1> QED
    BY <1>1, <1>2
(***************************************************************************)
(* The whole invariant is kept: by the calls, the start and the death of    *)
(* the process, the clock, and the steps of the methods.                    *)
(***************************************************************************)
LEMMA InitInv == Init => DbInv
<1> SUFFICES ASSUME Init
             PROVE  DbInv
    OBVIOUS
<1>1. /\ \A t \in Task : pc[t] = "idle" /\ call[t] = None /\ seen[t] = Note(0, 0, 0)
      /\ file.snaps = <<>> /\ work.snaps = <<>> /\ inTx = {} /\ stuck = {} /\ overlap = FALSE
      /\ before = <<>>
    BY DEF Init, NoTables, Blank
<1>2. Control
  <2>1. Shapes
    <3>1. DOMAIN file = TableNames /\ DOMAIN work = TableNames
        BY DEF Init, NoTables, TableNames
    <3> QED
        BY <3>1 DEF Init, Shapes, NoteType, Blank, Note
  <2>2. Calls
      BY <1>1 DEF Calls, IsSnapshot, Op, CachePlaces
  <2>3. Down
      BY <1>1 DEF Down
  <2> QED
      BY <2>1, <2>2, <2>3 DEF Control
<1>3. Tables
  <2>1. RowsOK(<<>>)
      BY DEF RowsOK
  <2> QED
      BY <1>1, <2>1 DEF Tables
<1>4. Locks
    BY <1>1 DEF Locks, LockIsHeld, Writing
<1>5. SnapshotsInHand = {}
    BY <1>1 DEF SnapshotsInHand, IsSnapshot, Op
<1>6. RowsOK(<<>>) /\ Base = <<>>
    BY <1>1 DEF RowsOK, Base
<1>7. AtLeast(<<>>, <<>>)
    BY <1>6, AtLeastItself
<1>8. Overlaps
    BY <1>1, <1>5, <1>6, <1>7 DEF Overlaps
<1> QED
    BY <1>2, <1>3, <1>4, <1>5, <1>8 DEF DbInv, Alone

(* Calls begin to overlap when one comes while another is in hand; the rows *)
(* of before are then those of the file.                                    *)
LEMMA AskOverlaps ==
    ASSUME DbInv, NEW t \in Task, NEW r, AskSnapshot(t, r) \/ AskJournal(t, r) \/ AskCache(t, r),
           UNCHANGED <<file, work>>, Calls', pc[t] = "idle",
           pc'[t] \in {"read", "begin", "connect"}, Portfolio(t) => pc'[t] = "read",
           \A u \in Task : u # t => pc'[u] = pc[u] /\ call'[u] = call[u] /\ seen'[u] = seen[u]
    PROVE  Overlaps'
<1> USE DEF DbInv
<1>1. \A u \in Task : /\ IsSnapshot(u) <=> Portfolio(u) /\ pc[u] # "idle"
                      /\ IsSnapshot(u)' <=> Portfolio(u) /\ pc'[u] # "idle"
    BY InHand, InHandNext DEF Control
<1>2. SnapshotsInHand \subseteq SnapshotsInHand' /\ SnapshotsInHand' \subseteq SnapshotsInHand \cup {t}
    BY <1>1 DEF SnapshotsInHand
<1>3. /\ RowsOK(before') /\ Base' = Base
      /\ ~overlap' => before' = <<>>
      /\ overlap' => SnapshotsInHand' # {}
  <2>1. /\ RowsOK(before) /\ (~overlap => before = <<>>) /\ (overlap => SnapshotsInHand # {})
        /\ RowsOK(file.snaps)
      BY DEF Overlaps, Tables
  <2>2. CASE AskSnapshot(t, r)
    <3>1. /\ overlap' = (SnapshotsInHand' # {} /\ (overlap \/ \E v, u \in SnapshotsInHand' : v # u))
          /\ before' = IF ~overlap' THEN <<>> ELSE IF overlap THEN before ELSE file.snaps
        BY <2>2 DEF AskSnapshot, Watch
    <3>2. overlap => overlap'
        BY <1>2, <2>1, <3>1
    <3>3. RowsOK(<<>>)
        BY DEF RowsOK
    <3>4. RowsOK(before')
        BY <2>1, <3>1, <3>3
    <3>5. Base' = Base
        BY <3>1, <3>2 DEF Base
    <3> QED
        BY <3>1, <3>4, <3>5
  <2>3. CASE AskJournal(t, r) \/ AskCache(t, r)
    <3>1. UNCHANGED <<overlap, before>>
        BY <2>3 DEF AskJournal, AskCache
    <3> QED
        BY <1>2, <2>1, <3>1 DEF Base
  <2> QED
      BY <2>2, <2>3
<1>4. ASSUME NEW u \in SnapshotsInHand'
      PROVE  /\ pc'[u] \in Reading => Noted(u)'
             /\ pc'[u] = "write" => work'.snaps = file'.snaps
             /\ pc'[u] = "commit" => work'.snaps = SnapsAfter(u, file.snaps)'
  <2>1. CASE u = t
    <3>1. pc'[u] = "read"
        BY <1>1, <2>1 DEF SnapshotsInHand
    <3> QED
        BY <3>1 DEF Reading
  <2>2. CASE u # t
    <3>1. u \in SnapshotsInHand /\ pc'[u] = pc[u] /\ call'[u] = call[u] /\ seen'[u] = seen[u]
        BY <1>2, <2>2 DEF SnapshotsInHand
    <3>2. SnapsAfter(u, file.snaps)' = SnapsAfter(u, file.snaps)
        BY <3>1, Zenon DEF SnapsAfter, Op, Updated, Valued
    <3>3. Noted(u) => Noted(u)'
        BY <1>3, <3>1 DEF Noted
    <3> QED
        BY <3>1, <3>2, <3>3 DEF Overlaps
  <2> QED
      BY <2>1, <2>2
<1>5. AtLeast(Base, file.snaps)' /\ AtLeast(Base, work.snaps)'
    BY <1>3 DEF Overlaps
<1> QED
    BY <1>3, <1>4, <1>5 DEF Overlaps

(* a call comes: nothing moves but its own task *)
LEMMA AskInv ==
    ASSUME DbInv, NEW t \in Task, NEW r, AskSnapshot(t, r) \/ AskJournal(t, r) \/ AskCache(t, r)
    PROVE  DbInv' /\ UNCHANGED <<up, file, work, inTx, stuck, now>>
<1> USE DEF DbInv
<1>1. UNCHANGED <<up, file, work, inTx, stuck, now>> /\ up
    BY DEF AskSnapshot, AskJournal, AskCache, Enter
<1>2. PICK place \in {"read", "begin", "connect"}, note \in NoteType :
          /\ Enter(t, r, place, note)
          /\ \/ Portfolio(t) /\ r \in SnapshotRequest /\ place = "read"
             \/ /\ ~Portfolio(t) /\ r.op \notin {"update_cash", "compute_value"}
                /\ place = "begin" \/ (place = "connect" /\ ConnOf[t] = "cache")
  <2>0. Blank \in NoteType /\ Note(now, 0, 0) \in NoteType
      BY DEF Control, Shapes, Blank, Note, NoteType
  <2>1. CASE AskSnapshot(t, r)
      BY <2>0, <2>1 DEF AskSnapshot, Portfolio
  <2>2. CASE AskJournal(t, r)
    <3>1. r.op \notin {"update_cash", "compute_value"}
        BY <2>2 DEF AskJournal, JournalRequest
    <3> QED
        BY <2>0, <2>2, <3>1 DEF AskJournal, Portfolio
  <2>3. CASE AskCache(t, r)
    <3>1. r.op \notin {"update_cash", "compute_value"}
        BY <2>3 DEF AskCache, CacheRequest
    <3> QED
        BY <2>0, <2>3, <3>1 DEF AskCache, Portfolio
  <2> QED
      BY <2>1, <2>2, <2>3
<1>3. /\ Calls' /\ seen' \in [Task -> NoteType] /\ DOMAIN call' = Task /\ DOMAIN pc' = Task
      /\ pc[t] = "idle" /\ pc'[t] = place
      /\ \A u \in Task : u # t => pc'[u] = pc[u] /\ call'[u] = call[u] /\ seen'[u] = seen[u]
    BY <1>2, EnterKeeps DEF Control
<1>4. overlap' \in BOOLEAN
    BY DEF Control, Shapes, AskSnapshot, AskJournal, AskCache, Watch
<1>5. Control'
    BY <1>1, <1>3, <1>4 DEF Control, Shapes, Down
<1>6. Tables'
    BY <1>1 DEF Tables
<1>7. Locks'
    BY <1>1, <1>3, LockUntouched DEF Writing
<1>8. Alone'
  <2> SUFFICES ASSUME ~overlap', NEW u \in SnapshotsInHand'
               PROVE  /\ \A v \in SnapshotsInHand' : v = u
                      /\ pc'[u] \in Reading => Exact(u)'
      BY Zenon DEF Alone
  <2>1. ASSUME NEW v \in Task, v # t
        PROVE  /\ pc'[v] = pc[v] /\ (IsSnapshot(v)' <=> IsSnapshot(v))
               /\ Exact(v)' <=> Exact(v)
    <3>1. pc'[v] = pc[v] /\ call'[v] = call[v] /\ seen'[v] = seen[v] /\ file' = file
        BY <1>1, <1>3, <2>1
    <3>2. SnapsAfter(v, file.snaps)' = SnapsAfter(v, file.snaps)
        BY <3>1, Zenon DEF SnapsAfter, Op, Updated, Valued
    <3> QED
        BY <3>1, <3>2 DEF Exact, IsSnapshot, Op
  <2>2. CASE AskSnapshot(t, r)
    <3>1. \A v, w \in SnapshotsInHand' : v = w
        BY <2>2 DEF AskSnapshot, Watch
    <3>2. t \in SnapshotsInHand' /\ pc'[t] = "read"
      <4>1. Portfolio(t)
          BY <2>2 DEF AskSnapshot, Portfolio
      <4>2. pc'[t] = "read"
          BY <1>2, <1>3, <4>1
      <4> QED
          BY <1>3, <4>1, <4>2, InHandNext DEF SnapshotsInHand
    <3> QED
        BY <3>1, <3>2 DEF Reading
  <2>3. CASE AskJournal(t, r) \/ AskCache(t, r)
    <3>1. overlap' = overlap /\ ~Portfolio(t)
        BY <2>3 DEF AskJournal, AskCache, Portfolio
    <3>2. ~IsSnapshot(t)' /\ ~IsSnapshot(t)
        BY <1>3, <3>1 DEF Calls, Portfolio, Control
    <3>3. SnapshotsInHand' = SnapshotsInHand /\ t \notin SnapshotsInHand
        BY <2>1, <3>2 DEF SnapshotsInHand
    <3>4. u \in Task /\ u # t /\ u \in SnapshotsInHand
        BY <3>3 DEF SnapshotsInHand
    <3> QED
        BY <1>1, <2>1, <3>1, <3>3, <3>4 DEF Alone
  <2> QED
      BY <2>2, <2>3
<1>9. Overlaps'
  <2>1. pc'[t] \in {"read", "begin", "connect"} /\ (Portfolio(t) => pc'[t] = "read")
      BY <1>2, <1>3
  <2> QED
      BY <1>1, <1>3, <2>1, AskOverlaps
<1> QED
    BY <1>1, <1>5, <1>6, <1>7, <1>8, <1>9

(* initialize_cash adds a sound row while no call is in hand *)
LEMMA StartInv ==
    ASSUME DbInv, Start
    PROVE  DbInv'
<1> USE DEF DbInv
<1> DEFINE rows == Append(file.snaps, Row(InitialCash, InitialCash))
<1>1. /\ UNCHANGED <<inTx, stuck, call, seen, pc, now, overlap, before>>
      /\ ~up /\ up' /\ work' = file' /\ file' = [file EXCEPT !.snaps = rows]
    BY DEF Start, InitializeCash
<1>2. file'.snaps = rows /\ (DOMAIN file)' = TableNames
  <2> HIDE DEF rows
  <2> QED
      BY <1>1 DEF Control, Shapes, TableNames
<1>3. RowsOK(rows)
  <2>1. InitialCash \in Nat /\ InitialCash <= InitialCash
      BY AmountAssumption
  <2> QED
      BY <2>1, AppendOK DEF Tables
<1> HIDE DEF rows
<1>4. Control'
    BY <1>1, <1>2 DEF Control, Shapes, Calls, Down, IsSnapshot, Op, Portfolio
<1>5. Tables'
    BY <1>1, <1>2, <1>3 DEF Tables
<1>6. Locks'
    BY <1>1 DEF Locks, LockIsHeld
<1>7. SnapshotsInHand' = {}
  <2>1. \A t \in Task : ~IsSnapshot(t)
      BY <1>1, InHand DEF Control, Down
  <2> QED
      BY <1>1, <2>1 DEF SnapshotsInHand, IsSnapshot, Op
<1>8. Overlaps'
  <2>1. ~overlap' /\ before' = <<>>
      BY <1>1 DEF Control, Down, Overlaps
  <2> QED
      BY <1>1, <1>4, <1>5, <1>7, <2>1, NoneInHand DEF Control
<1> QED
    BY <1>4, <1>5, <1>6, <1>7, <1>8 DEF Alone

(* a dead process has no lock and no call *)
LEMMA CrashInv ==
    ASSUME DbInv, Crash
    PROVE  DbInv'
<1> USE DEF DbInv
<1>1. /\ file' = file /\ work' = file /\ inTx' = {} /\ stuck' = {} /\ now' = now
      /\ overlap' = FALSE /\ before' = <<>> /\ ~up'
      /\ call' = [t \in Task |-> None] /\ pc' = [t \in Task |-> "idle"]
      /\ seen' = [t \in Task |-> Note(0, 0, 0)]
    BY DEF Crash, Kill, Blank
<1>2. \A t \in Task : pc'[t] = "idle" /\ call'[t] = None
    BY <1>1
<1>3. Control'
  <2>1. Calls'
      BY <1>2 DEF Calls, CachePlaces, IsSnapshot, Op, Portfolio
  <2>2. Down'
      BY <1>1, <1>2 DEF Down
  <2>3. Shapes'
      BY <1>1 DEF Control, Shapes, Note, NoteType
  <2> QED
      BY <2>1, <2>2, <2>3 DEF Control
<1>4. Tables'
    BY <1>1 DEF Tables
<1>5. Locks'
    BY <1>1, <1>2 DEF Locks, LockIsHeld, Writing
<1>6. SnapshotsInHand' = {}
    BY <1>2 DEF SnapshotsInHand, IsSnapshot, Op
<1>7. Overlaps'
    BY <1>1, <1>3, <1>4, <1>6, NoneInHand DEF Control
<1> QED
    BY <1>3, <1>4, <1>5, <1>6, <1>7 DEF Alone

(* a step of a method keeps every part *)
LEMMA StepInv ==
    ASSUME DbInv, NEW t \in Task, Step(t)
    PROVE  DbInv'
<1>1. Control'
    BY StepShape DEF DbInv, Control, Down
<1> QED
    BY <1>1, StepTables, StepLocks, StepAlone, StepOverlaps DEF DbInv

(* the clock and stuttering leave alone what the invariant is about *)
LEMMA QuietInv ==
    ASSUME DbInv, UNCHANGED <<sqliteVars, overlap, before>>, now' \in Nat
    PROVE  DbInv'
<1>1. UNCHANGED <<up, file, work, inTx, stuck, call, seen, pc, overlap, before>>
    BY DEF sqliteVars
<1>2. Control'
    BY <1>1 DEF DbInv, Control, Shapes, Calls, Down, IsSnapshot, Op, Portfolio
<1>3. Tables' /\ Locks'
    BY <1>1 DEF DbInv, Tables, Locks, LockIsHeld
<1>4. /\ SnapshotsInHand' = SnapshotsInHand
      /\ \A t \in Task : /\ SnapsAfter(t, file.snaps)' = SnapsAfter(t, file.snaps)
                         /\ Exact(t)' <=> Exact(t)
  <2>1. \A t \in Task : SnapsAfter(t, file.snaps)' = SnapsAfter(t, file.snaps)
      BY <1>1, Zenon DEF SnapsAfter, Op, Updated, Valued
  <2> QED
      BY <1>1, <2>1 DEF SnapshotsInHand, IsSnapshot, Op, Exact
<1>5. Alone'
    BY <1>1, <1>4 DEF DbInv, Alone, SnapshotsInHand
<1>6. Overlaps'
  <2>1. Base' = Base /\ \A t \in Task : Noted(t) => Noted(t)'
      BY <1>1 DEF Base, Noted
  <2>2. SnapshotsInHand \subseteq Task
      BY DEF SnapshotsInHand
  <2> QED
      BY <1>1, <1>4, <2>1, <2>2 DEF DbInv, Overlaps
<1> QED
    BY <1>2, <1>3, <1>5, <1>6 DEF DbInv

(* The invariant is inductive. *)
LEMMA NextInv == DbInv /\ [Next]_vars => DbInv'
<1> SUFFICES ASSUME DbInv, [Next]_vars
             PROVE  DbInv'
    OBVIOUS
<1>1. now \in Nat
    BY DEF DbInv, Control, Shapes
<1>2. CASE Start
    BY <1>2, StartInv
<1>3. CASE Crash
    BY <1>3, CrashInv
<1>4. CASE Tick
    BY <1>1, <1>4, QuietInv DEF Tick
<1>5. ASSUME NEW t \in Task, Ask(t)
      PROVE  DbInv'
    BY <1>5, AskInv DEF Ask
<1>6. ASSUME NEW t \in Task, Step(t)
      PROVE  DbInv'
    BY <1>6, StepInv
<1>7. CASE UNCHANGED vars
    BY <1>1, <1>7, QuietInv DEF vars
<1> QED
    BY <1>2, <1>3, <1>4, <1>5, <1>6, <1>7 DEF Next

(***************************************************************************)
(* Whatever tasks interleave, fail and die: a connection that has the write *)
(* lock has a call under way that commits or rolls back, and none but the   *)
(* cache's is left in a transaction.                                        *)
(***************************************************************************)
THEOREM LocksAreReleased == Spec => []LockIsHeld
<1>1. DbInv => LockIsHeld
    BY DEF DbInv, Locks
<1> QED
    BY <1>1, InitInv, NextInv, PTL DEF Spec
(***************************************************************************)
(* The journal and the cache.  A task of their connections is idle or has a *)
(* request of its connection in hand, one of no connection is idle.         *)
(***************************************************************************)
Journaling(t) == ConnOf[t] = "journal"
Caching(t) == ConnOf[t] = "cache"

Requests ==
    \A t \in Task :
        \/ pc[t] = "idle" /\ call[t] = None
        \/ Portfolio(t)
        \/ /\ Journaling(t) /\ pc[t] \in {"begin"} \cup Writing
           /\ call[t] \in JournalRequest
        \/ /\ Caching(t) /\ pc[t] \in {"begin"} \cup Writing \cup CachePlaces
           /\ call[t] \in CacheRequest

(* A transaction differs from the file only in the tables of its connection. *)
Separate ==
    /\ "journal" \notin inTx => work.trades = file.trades
    /\ "cache" \notin inTx => work.cache = file.cache

ReceiptsKnown == \A r \in receipts : r.id \in Nat /\ r.ts \in Nat

EntryType == [tx : Trade \cup {None}, ts : Nat, status : {"pending", "logged", "confirmed"}]

TradesTyped == file.trades \in Seq(EntryType) /\ work.trades \in Seq(EntryType)

BaseInv == DbInv /\ Requests /\ Separate /\ ReceiptsKnown /\ TradesTyped

(* what a request is, and what it is not *)
LEMMA JournalRequestFacts ==
    ASSUME ReceiptsKnown, NEW t \in Task, call[t] \in JournalRequest
    PROVE  /\ call[t] # None /\ Op(t) = call[t].op
           /\ \/ Op(t) = "log_trade" /\ call[t].tx \in Trade
              \/ Op(t) = "log_decision"
              \/ Op(t) = "update_trade_status" /\ \E r \in receipts : r.id = call[t].id
<1>1. CASE call[t] \in [op : {"log_trade"}, tx : Trade]
    BY <1>1, RequestAssumption DEF Op
<1>2. CASE call[t] \in [op : {"log_decision"}]
    BY <1>2, RequestAssumption DEF Op
<1>3. CASE call[t] \in [op : {"update_trade_status"}, id : {r.id : r \in receipts}]
  <2>1. call[t] \in [op : {"update_trade_status"}, id : Nat]
      BY <1>3 DEF ReceiptsKnown
  <2>2. call[t] # None
      BY <2>1, RequestAssumption
  <2> QED
      BY <1>3, <2>2 DEF Op
<1> QED
    BY <1>1, <1>2, <1>3 DEF JournalRequest

LEMMA CacheRequestFacts ==
    ASSUME NEW t \in Task, call[t] \in CacheRequest
    PROVE  call[t] # None /\ Op(t) = "set" /\ call[t].key \in Key
BY RequestAssumption DEF CacheRequest, Op

(* The operation a task has in hand belongs to its connection. *)
LEMMA OpsApart ==
    ASSUME Requests, Control, ReceiptsKnown, NEW t \in Task
    PROVE  /\ Op(t) = "set" => Caching(t)
           /\ Op(t) \in {"log_trade", "log_decision", "update_trade_status"} => Journaling(t)
           /\ pc[t] # "idle" => Portfolio(t) \/ Journaling(t) \/ Caching(t)
<1>1. CASE pc[t] = "idle" /\ call[t] = None
    BY <1>1 DEF Op
<1>2. CASE Portfolio(t)
  <2>1. call[t] # None => Op(t) \in {"update_cash", "compute_value"}
      BY <1>2 DEF Control, Calls, SnapshotRequest, Op
  <2>2. call[t] = None => Op(t) = "none"
      BY DEF Op
  <2> QED
      BY <1>2, <2>1, <2>2
<1>3. CASE Journaling(t) /\ call[t] \in JournalRequest
    BY <1>3, JournalRequestFacts
<1>4. CASE Caching(t) /\ call[t] \in CacheRequest
    BY <1>4, CacheRequestFacts
<1> QED
    BY <1>1, <1>2, <1>3, <1>4 DEF Requests

(* The steps of a journal call, and what they do to the tables. *)
LEMMA JournalStep ==
    ASSUME BaseInv, NEW t \in Task, Step(t), Journaling(t)
    PROVE  /\ call[t] \in JournalRequest
           /\ \/ /\ pc[t] = "begin" /\ pc'[t] = "idle"
                 /\ file' = file /\ work' = work /\ inTx' = inTx /\ receipts' = receipts
              \/ /\ pc[t] = "begin" /\ pc'[t] = "write" /\ InTurn(t)
                 /\ file' = file /\ work' = file /\ receipts' = receipts
                 /\ call' = call /\ seen' = seen
              \/ /\ pc[t] = "write" /\ pc'[t] = "commit"
                 /\ file' = file /\ work'.trades = TradesAfter(t, work.trades)
                 /\ receipts' = receipts /\ call' = call /\ seen' = seen
              \/ /\ pc[t] \in {"write", "commit"} /\ pc'[t] = "rollback"
                 /\ file' = file /\ work' = work /\ receipts' = receipts
                 /\ call' = call /\ seen' = seen
              \/ /\ pc[t] = "commit" /\ pc'[t] = "idle" /\ file' = work /\ work' = work
                 /\ receipts' = receipts \cup Receipts(t) /\ "journal" \in inTx
              \/ /\ pc[t] = "rollback" /\ pc'[t] = "idle" /\ file' = file /\ work' = file
                 /\ receipts' = receipts
<1>0. Control /\ Tables /\ Locks /\ Requests
    BY DEF BaseInv, DbInv
<1>1. pc[t] \in {"begin"} \cup Writing /\ call[t] \in JournalRequest
  <2>1. pc[t] # "idle" /\ ~Portfolio(t) /\ ~Caching(t)
      BY <1>0, StepShape DEF Portfolio, Journaling, Caching
  <2> QED
      BY <1>0, <2>1 DEF Requests
<1>2. pc[t] \in Writing => "journal" \in inTx
    BY <1>0 DEF Locks, Plain, Journaling
<1>3. ASSUME NEW place, Goto(t, place)
      PROVE  pc'[t] = place
    BY <1>0, <1>3 DEF Control, Shapes, Goto
<1>4. ASSUME Leave(t)
      PROVE  pc'[t] = "idle"
    BY <1>3, <1>4 DEF Leave
<1>5. /\ ~Schema(t) /\ ~Checkpoint(t) /\ ~CheckpointRaises(t) /\ ~Sweep(t, now)
      /\ ~SweepEnds(t, now) /\ ~SweepRaises(t) /\ ~ReadLatest(t) /\ ~ReadHighest(t)
      /\ ~ValueRaises(t)
    BY <1>1 DEF Writing, Schema, Checkpoint, CheckpointRaises, Sweep, SweepEnds, SweepRaises,
                ReadLatest, ReadHighest, ValueRaises
<1>6. CASE Return(t)
    BY <1>1, <1>2, <1>4, <1>6 DEF Return, Commit, EndTransaction, View, Writing, Journaling
<1>7. CASE Rollback(t) /\ UNCHANGED receipts
    BY <1>1, <1>2, <1>4, <1>7 DEF Rollback, Writing, Journaling
<1>8. CASE BeginRaises(t) /\ UNCHANGED receipts
    BY <1>1, <1>4, <1>8 DEF BeginRaises
<1>9. CASE Begin(t) /\ UNCHANGED receipts
    BY <1>1, <1>3, <1>9 DEF Begin
<1>10. CASE Write(t, After(t, View(ConnOf[t]))) /\ UNCHANGED receipts
  <2>1. pc[t] = "write" /\ pc'[t] = "commit" /\ file' = file /\ call' = call /\ seen' = seen
        /\ work' = After(t, View(ConnOf[t]))
      BY <1>3, <1>10 DEF Write
  <2>2. View(ConnOf[t]) = work
      BY <1>2, <2>1 DEF View, Writing, Journaling
  <2>3. After(t, work).trades = TradesAfter(t, work.trades)
      BY DEF After
  <2> QED
      BY <1>1, <1>10, <2>1, <2>2, <2>3
<1>11. CASE WriteRaises(t) /\ UNCHANGED receipts
    BY <1>1, <1>3, <1>11 DEF WriteRaises
<1> QED
    BY <1>5, <1>6, <1>7, <1>8, <1>9, <1>10, <1>11 DEF Step, Fail, GoOn

(* A step of another connection leaves the journal and its receipts alone, *)
(* and one of another than the cache's leaves that.                         *)
LEMMA Strangers ==
    ASSUME BaseInv, NEW t \in Task, Step(t)
    PROVE  /\ ~Journaling(t) => /\ file'.trades = file.trades /\ work'.trades = work.trades
                                /\ receipts' = receipts
                                /\ "journal" \in inTx <=> "journal" \in inTx'
           /\ ~Caching(t) => /\ file'.cache = file.cache /\ work'.cache = work.cache
                             /\ stored' = stored
                             /\ "cache" \in inTx <=> "cache" \in inTx'
                             /\ "cache" \in raised <=> "cache" \in raised'
<1> DEFINE OwnTrades == ~Journaling(t) => /\ file'.trades = file.trades /\ work'.trades = work.trades
                                          /\ "journal" \in inTx <=> "journal" \in inTx'
           OwnCache == ~Caching(t) => /\ file'.cache = file.cache /\ work'.cache = work.cache
                                      /\ "cache" \in inTx <=> "cache" \in inTx'
                                      /\ "cache" \in raised <=> "cache" \in raised'
<1>0. Control /\ Tables /\ Locks /\ Requests /\ Separate /\ ReceiptsKnown
    BY DEF BaseInv, DbInv
<1>1. receipts' = receipts \/ (Journaling(t) /\ Return(t))
  <2>1. CASE Return(t)
    <3>1. ~Journaling(t) => Receipts(t) = {}
        BY <1>0, OpsApart DEF Receipts
    <3> QED
        BY <2>1, <3>1 DEF Return
  <2> QED
      BY <2>1 DEF Step, Fail, GoOn
<1>2. ~Caching(t) => stored' = stored
  <2>1. CASE Return(t)
      BY <1>0, <2>1, OpsApart DEF Return
  <2> QED
      BY <2>1 DEF Step, Fail, GoOn
<1>3. ConnOf[t] \in inTx \/ inTx = {} =>
          /\ ~Journaling(t) => work.trades = file.trades
          /\ ~Caching(t) => work.cache = file.cache
    BY <1>0 DEF Separate, Locks, Journaling, Caching
<1>4. ASSUME EndTransaction(t)
      PROVE  OwnTrades /\ OwnCache
    BY <1>3, <1>4 DEF EndTransaction, View, Journaling, Caching
<1>5. CASE Return(t) \/ Schema(t) \/ SweepEnds(t, now)
    BY <1>1, <1>2, <1>4, <1>5 DEF Return, Commit, Schema, SweepEnds
<1>6. CASE Rollback(t)
    BY <1>1, <1>2, <1>3, <1>6 DEF Rollback, Journaling, Caching
<1>7. CASE \/ BeginRaises(t) \/ ValueRaises(t) \/ CheckpointRaises(t)
           \/ ReadLatest(t) \/ ReadHighest(t) \/ Checkpoint(t) \/ WriteRaises(t)
           \/ SweepRaises(t)
    BY <1>1, <1>2, <1>7
       DEF BeginRaises, ValueRaises, CheckpointRaises, SweepRaises, ReadLatest, ReadHighest,
           Checkpoint, WriteRaises, Caching, Return, Commit, Leave
<1>8. CASE Begin(t)
    BY <1>1, <1>2, <1>3, <1>8 DEF Begin, Journaling, Caching
<1>9. CASE Write(t, After(t, View(ConnOf[t])))
  <2>1. /\ ~Journaling(t) =>
               After(t, View(ConnOf[t])).trades = View(ConnOf[t]).trades
        /\ ~Caching(t) => After(t, View(ConnOf[t])).cache = View(ConnOf[t]).cache
    <3>1. ~Journaling(t) => Op(t) \notin {"log_trade", "log_decision", "update_trade_status"}
        BY <1>0, OpsApart
    <3>2. ~Caching(t) => Op(t) # "set"
        BY <1>0, OpsApart
    <3> QED
        BY <3>1, <3>2 DEF After, TradesAfter, CacheAfter
  <2>2. /\ file' = file /\ inTx \in {{}, {ConnOf[t]}} /\ inTx' = {ConnOf[t]}
        /\ work' = After(t, View(ConnOf[t])) /\ raised' = raised
      BY <1>9 DEF Write
  <2>3. /\ ~Journaling(t) => View(ConnOf[t]).trades = work.trades
        /\ ~Caching(t) => View(ConnOf[t]).cache = work.cache
      BY <1>3, <2>2 DEF View
  <2> QED
      BY <1>1, <1>2, <1>9, <2>1, <2>2, <2>3 DEF Caching, Journaling
<1>10. CASE Sweep(t, now)
  <2>1. Caching(t) /\ ~Journaling(t)
      BY <1>0, <1>10 DEF Sweep, Control, Calls, CachePlaces, Caching, Journaling
  <2> DEFINE tables == View(ConnOf[t])
             after == [tables EXCEPT !.cache = Swept(@, now)]
  <2>2. after.trades = tables.trades
      BY <1>0 DEF Control, Shapes, TableNames, View
  <2>3. work' = after /\ file' = file /\ inTx \in {{}, {ConnOf[t]}} /\ inTx' = {ConnOf[t]}
      BY <1>10 DEF Sweep
  <2>4. tables.trades = work.trades
      BY <1>3, <2>1, <2>3 DEF View
  <2> HIDE DEF after, tables
  <2> QED
      BY <1>1, <2>1, <2>2, <2>3, <2>4 DEF Journaling
<1> QED
    BY <1>5, <1>6, <1>7, <1>8, <1>9, <1>10 DEF Step, Fail, GoOn

(* A step of a method goes on with its request or leaves it. *)
LEMMA LeavesOrStays ==
    ASSUME Control, NEW t \in Task, Step(t)
    PROVE  \/ pc'[t] = "idle" /\ call'[t] = None
           \/ pc'[t] # "idle" /\ call' = call
<1>1. ASSUME NEW place, Goto(t, place)
      PROVE  pc'[t] = place
    BY <1>1 DEF Control, Shapes, Goto
<1>2. ASSUME Leave(t)
      PROVE  pc'[t] = "idle" /\ call'[t] = None
    BY <1>2, LeaveKeeps DEF Control
<1>3. CASE Return(t) \/ Fail(t)
    BY <1>2, <1>3 DEF Return, Commit, Fail, BeginRaises, ValueRaises, Rollback, CheckpointRaises,
                      SweepRaises
<1>4. CASE ReadLatest(t) \/ ReadHighest(t) \/ Begin(t) \/ WriteRaises(t)
    BY <1>1, <1>4 DEF ReadLatest, ReadHighest, Begin, WriteRaises
<1>5. CASE Write(t, After(t, View(ConnOf[t])))
    BY <1>1, <1>5 DEF Write
<1>6. CASE Schema(t) \/ Checkpoint(t) \/ Sweep(t, now) \/ SweepEnds(t, now)
    BY <1>1, <1>6 DEF Schema, Checkpoint, Sweep, SweepEnds
<1> QED
    BY <1>3, <1>4, <1>5, <1>6 DEF Step, GoOn

(* What a statement of the journal does to its rows: it adds one, or marks  *)
(* one as confirmed; no row goes or changes its trade or its time stamp.    *)
LEMMA TradesAfterFacts ==
    ASSUME ReceiptsKnown, Shapes, NEW t \in Task, call[t] \in JournalRequest,
           NEW rows \in Seq(EntryType)
    PROVE  LET after == TradesAfter(t, rows)
           IN  /\ after \in Seq(EntryType) /\ Len(rows) <= Len(after)
               /\ \A i \in 1 .. Len(rows) :
                      /\ after[i].tx = rows[i].tx /\ after[i].ts = rows[i].ts
                      /\ after[i].status = "confirmed" =>
                             \/ rows[i].status = "confirmed"
                             \/ Op(t) = "update_trade_status" /\ i = call[t].id
               /\ Len(after) # Len(rows) =>
                      /\ Len(after) = Len(rows) + 1 /\ after[Len(after)].ts = seen[t].ts
                      /\ after[Len(after)].status # "confirmed"
               /\ Op(t) = "log_trade" =>
                      Len(after) = Len(rows) + 1 /\ after[Len(after)].tx = call[t].tx
<1> DEFINE n == Len(rows)
<1>1. seen[t].ts \in Nat
    BY DEF Shapes, NoteType
<1>2. n \in Nat /\ DOMAIN rows = 1 .. n /\ \A i \in 1 .. n : rows[i] \in EntryType
    OBVIOUS
<1>3. ASSUME NEW e \in EntryType
      PROVE  /\ Append(rows, e) \in Seq(EntryType) /\ Len(Append(rows, e)) = n + 1
             /\ Append(rows, e)[n + 1] = e
             /\ \A i \in 1 .. n : Append(rows, e)[i] = rows[i]
    BY AppendProperties
<1>4. CASE Op(t) = "log_trade"
  <2> DEFINE e == Entry(call[t].tx, seen[t].ts, "pending")
  <2>1. call[t].tx \in Trade
      BY <1>4, JournalRequestFacts
  <2>2. e \in EntryType /\ e.ts = seen[t].ts /\ e.status = "pending" /\ e.tx = call[t].tx
      BY <1>1, <2>1 DEF Entry, EntryType
  <2>3. TradesAfter(t, rows) = Append(rows, e)
      BY <1>4 DEF TradesAfter
  <2> HIDE DEF e
  <2> DEFINE after == TradesAfter(t, rows)
  <2>4. /\ after \in Seq(EntryType) /\ Len(after) = n + 1 /\ after[n + 1] = e
        /\ \A i \in 1 .. n : after[i] = rows[i]
      BY <1>3, <2>2, <2>3
  <2> HIDE DEF after, n
  <2>5. /\ n <= Len(after)
        /\ \A i \in 1 .. n : /\ after[i].tx = rows[i].tx /\ after[i].ts = rows[i].ts
                             /\ after[i].status = "confirmed" => rows[i].status = "confirmed"
        /\ after[Len(after)].ts = seen[t].ts /\ after[Len(after)].status # "confirmed"
      BY <1>2, <2>2, <2>4
  <2> QED
      BY <1>4, <2>2, <2>4, <2>5 DEF n, after
<1>5. CASE Op(t) = "log_decision"
  <2> DEFINE e == Entry(None, seen[t].ts, "logged")
  <2>1. e \in EntryType /\ e.ts = seen[t].ts /\ e.status = "logged"
      BY <1>1 DEF Entry, EntryType
  <2>2. TradesAfter(t, rows) = Append(rows, e)
      BY <1>5 DEF TradesAfter
  <2> HIDE DEF e
  <2> DEFINE after == TradesAfter(t, rows)
  <2>3. /\ after \in Seq(EntryType) /\ Len(after) = n + 1 /\ after[n + 1] = e
        /\ \A i \in 1 .. n : after[i] = rows[i]
      BY <1>3, <2>1, <2>2
  <2> HIDE DEF after, n
  <2>4. /\ n <= Len(after)
        /\ \A i \in 1 .. n : /\ after[i].tx = rows[i].tx /\ after[i].ts = rows[i].ts
                             /\ after[i].status = "confirmed" => rows[i].status = "confirmed"
        /\ after[Len(after)].ts = seen[t].ts /\ after[Len(after)].status # "confirmed"
      BY <1>2, <2>1, <2>3
  <2> QED
      BY <1>5, <2>1, <2>3, <2>4 DEF n, after
<1>6. CASE Op(t) = "update_trade_status"
  <2> DEFINE row(i) == IF i = call[t].id THEN [rows[i] EXCEPT !.status = "confirmed"] ELSE rows[i]
             after == [i \in DOMAIN rows |-> row(i)]
  <2>1. \A i \in 1 .. n : /\ row(i) \in EntryType /\ row(i).tx = rows[i].tx
                          /\ row(i).ts = rows[i].ts
                          /\ row(i).status = "confirmed" =>
                                 rows[i].status = "confirmed" \/ i = call[t].id
      BY <1>2 DEF EntryType
  <2>2. TradesAfter(t, rows) = after
      BY <1>6 DEF TradesAfter
  <2>3. DOMAIN after = 1 .. n /\ \A i \in 1 .. n : after[i] = row(i)
      BY <1>2
  <2> HIDE DEF row
  <2>4. after \in Seq(EntryType)
      BY <1>2, <2>1
  <2> HIDE DEF after
  <2>5. Len(after) = n
      BY <1>2, <2>3, <2>4
  <2> QED
      BY <1>2, <1>6, <2>1, <2>2, <2>3, <2>4, <2>5
<1> QED
    BY <1>4, <1>5, <1>6, JournalRequestFacts

(* The rows a SELECT of the cache finds. *)
Cached == View("cache").cache

(* The steps of a set, and what they do to the file and to what is cached.  *)
(* The commits of the schema and of the sweep commit what other sets have   *)
(* written, and so may the commit of any of them.                           *)
LEMMA CacheStep ==
    ASSUME BaseInv, NEW t \in Task, Step(t), Caching(t)
    PROVE  /\ call[t] \in CacheRequest
           /\ "cache" \notin inTx' => work'.cache = file'.cache
           /\ \/ /\ pc'[t] \in {"idle", "sweep", "write", "rollback"}
                 /\ file'.cache = file.cache /\ Cached' = Cached
                 /\ pc'[t] # "idle" => seen' = seen
                 /\ pc'[t] = "rollback" => "cache" \in raised'
                 /\ stored' = stored /\ raised \subseteq raised'
              \/ /\ pc[t] = "write" /\ pc'[t] = "commit"
                 /\ file'.cache = file.cache /\ Cached' = CacheAfter(t, Cached)
                 /\ seen' = seen /\ stored' = stored /\ raised' = raised
              \/ /\ pc[t] = "commit" /\ pc'[t] = "idle"
                 /\ file'.cache = Cached /\ Cached' = Cached
                 /\ stored' = [stored EXCEPT ![call[t].key] = seen[t].ts] /\ raised' = raised
              \/ /\ pc[t] = "rollback" /\ pc'[t] = "idle"
                 /\ file'.cache = file.cache /\ Cached' = file.cache
                 /\ stored' = stored /\ raised' = raised
              \/ /\ pc'[t] \in {"checkpoint", "begin"}
                 /\ file'.cache = Cached /\ Cached' = Cached
                 /\ seen' = seen \/ seen' = [seen EXCEPT ![t] = Note(now, 0, 0)]
                 /\ stored' = stored /\ raised' = raised
              \/ /\ pc[t] = "sweep" /\ pc'[t] = "swept"
                 /\ file'.cache = file.cache /\ Cached' = Swept(Cached, now)
                 /\ seen' = seen /\ stored' = stored /\ raised' = raised
<1>0. Control /\ Tables /\ Locks /\ Requests /\ Separate /\ ConnOf[t] = "cache"
    BY DEF BaseInv, DbInv, Caching
<1>1. pc[t] \in {"begin"} \cup Writing \cup CachePlaces /\ call[t] \in CacheRequest
  <2>1. pc[t] # "idle" /\ ~Portfolio(t) /\ ~Journaling(t)
      BY <1>0, StepShape DEF Portfolio, Journaling
  <2> QED
      BY <1>0, <2>1 DEF Requests
<1>2. "cache" \notin inTx => work.cache = file.cache
    BY <1>0 DEF Separate
<1>3. ASSUME NEW place, Goto(t, place)
      PROVE  pc'[t] = place
    BY <1>0, <1>3 DEF Control, Shapes, Goto
<1>4. ASSUME Leave(t)
      PROVE  pc'[t] = "idle"
    BY <1>3, <1>4 DEF Leave
<1>5. Op(t) = "set" /\ ~ReadLatest(t) /\ ~ReadHighest(t) /\ ~ValueRaises(t)
    BY <1>1, CacheRequestFacts DEF ReadLatest, ReadHighest, ValueRaises
<1>6. ASSUME EndTransaction(t)
      PROVE  /\ file'.cache = Cached /\ Cached' = Cached
             /\ "cache" \notin inTx' /\ work'.cache = file'.cache /\ raised' = raised
    BY <1>0, <1>2, <1>6 DEF EndTransaction, View, Cached
<1>7. CASE Return(t)
    BY <1>1, <1>4, <1>5, <1>6, <1>7 DEF Return, Commit
<1>8. CASE (Schema(t) \/ SweepEnds(t, now)) /\ UNCHANGED stored
  <2>1. pc'[t] \in {"checkpoint", "begin"} /\ EndTransaction(t)
        /\ (seen' = seen \/ seen' = [seen EXCEPT ![t] = Note(now, 0, 0)])
      BY <1>3, <1>8 DEF Schema, SweepEnds
  <2> QED
      BY <1>1, <1>6, <1>8, <2>1
<1>9. CASE Rollback(t) /\ UNCHANGED stored
  <2>1. /\ pc[t] = "rollback" /\ pc'[t] = "idle" /\ file' = file /\ raised' = raised
        /\ "cache" \notin inTx' /\ work' = IF "cache" \in inTx THEN file ELSE work
      BY <1>0, <1>4, <1>9 DEF Rollback
  <2> QED
      BY <1>1, <1>2, <1>9, <2>1 DEF Cached, View
<1>10. CASE (BeginRaises(t) \/ CheckpointRaises(t) \/ SweepRaises(t)) /\ UNCHANGED stored
  <2>1. pc'[t] = "idle" /\ UNCHANGED <<file, work, inTx, raised>>
      BY <1>4, <1>10 DEF BeginRaises, CheckpointRaises, SweepRaises
  <2> QED
      BY <1>1, <1>2, <1>10, <2>1 DEF Cached, View
<1>11. CASE Checkpoint(t) /\ UNCHANGED stored
  <2>1. pc'[t] = "sweep" /\ UNCHANGED <<file, work, inTx, raised, seen>>
      BY <1>3, <1>11 DEF Checkpoint
  <2> QED
      BY <1>1, <1>2, <1>11, <2>1 DEF Cached, View
<1>12. CASE WriteRaises(t) /\ UNCHANGED stored
  <2>1. /\ pc'[t] = "rollback" /\ UNCHANGED <<file, work, inTx, seen>>
        /\ raised' = raised \cup {"cache"}
      BY <1>0, <1>3, <1>12 DEF WriteRaises
  <2> QED
      BY <1>1, <1>2, <1>12, <2>1 DEF Cached, View
<1>13. CASE Begin(t) /\ UNCHANGED stored
  <2>1. /\ pc'[t] = "write" /\ UNCHANGED <<file, raised, seen>>
        /\ inTx = {} /\ inTx' = {"cache"} /\ work' = file
      BY <1>0, <1>3, <1>13 DEF Begin
  <2> QED
      BY <1>1, <1>13, <2>1 DEF Cached, View
<1>14. CASE Write(t, After(t, View(ConnOf[t]))) /\ UNCHANGED stored
  <2>1. /\ pc[t] = "write" /\ pc'[t] = "commit" /\ UNCHANGED <<file, raised, seen>>
        /\ inTx' = {"cache"} /\ work' = After(t, View("cache"))
      BY <1>0, <1>3, <1>14 DEF Write
  <2>2. work'.cache = CacheAfter(t, Cached)
      BY <2>1 DEF After, Cached
  <2>3. Cached' = work'.cache
      BY <2>1 DEF Cached, View
  <2> QED
      BY <1>1, <1>14, <2>1, <2>2, <2>3
<1>15. CASE Sweep(t, now) /\ UNCHANGED stored
  <2> DEFINE tables == View("cache")
             after == [tables EXCEPT !.cache = Swept(@, now)]
  <2>1. /\ pc[t] = "sweep" /\ pc'[t] = "swept" /\ UNCHANGED <<file, raised, seen>>
        /\ inTx' = {"cache"} /\ work' = after
      BY <1>0, <1>3, <1>15 DEF Sweep
  <2>2. after.cache = Swept(Cached, now)
      BY <1>0 DEF Control, Shapes, TableNames, View, Cached
  <2>3. Cached' = work'.cache
      BY <2>1 DEF Cached, View
  <2> HIDE DEF after
  <2> QED
      BY <1>1, <1>15, <2>1, <2>2, <2>3
<1> QED
    BY <1>5, <1>7, <1>8, <1>9, <1>10, <1>11, <1>12, <1>13, <1>14, <1>15 DEF Step, Fail, GoOn

(* What every step does to the requests, the tables and the receipts. *)
LEMMA BaseStep ==
    ASSUME BaseInv, NEW t \in Task, Step(t)
    PROVE  BaseInv'
<1>0. /\ Control /\ Tables /\ Locks /\ Requests /\ Separate /\ ReceiptsKnown /\ TradesTyped
      /\ Shapes /\ DbInv
    BY DEF BaseInv, DbInv, Control
<1>1. DbInv'
    BY <1>0, StepInv
<1>2. Requests'
  <2> SUFFICES ASSUME NEW u \in Task
               PROVE  \/ pc'[u] = "idle" /\ call'[u] = None
                      \/ Portfolio(u)
                      \/ /\ Journaling(u) /\ pc'[u] \in {"begin"} \cup Writing
                         /\ call'[u] \in JournalRequest'
                      \/ /\ Caching(u) /\ pc'[u] \in {"begin"} \cup Writing \cup CachePlaces
                         /\ call'[u] \in CacheRequest
      BY DEF Requests, Portfolio, Journaling, Caching, CacheRequest, Key
  <2>1. receipts \subseteq receipts'
      BY <1>0, JournalStep, Strangers
  <2>2. JournalRequest \subseteq JournalRequest'
      BY <2>1 DEF JournalRequest
  <2>3. CASE u # t
      BY <1>0, <2>2, <2>3, StepShape DEF Requests
  <2>4. CASE u = t /\ Journaling(t)
      BY <1>0, <2>2, <2>4, JournalStep, LeavesOrStays DEF Writing
  <2>5. CASE u = t /\ Caching(t)
      BY <1>0, <2>5, CacheStep, LeavesOrStays DEF Writing, CachePlaces
  <2>6. CASE u = t /\ ~Journaling(t) /\ ~Caching(t)
    <3>1. pc[t] # "idle"
        BY <1>0, StepShape
    <3> QED
        BY <1>0, <2>6, <3>1 DEF Requests
  <2> QED
      BY <2>3, <2>4, <2>5, <2>6
<1>3. Separate'
  <2>1. "journal" \notin inTx' => work'.trades = file'.trades
    <3>1. CASE ~Journaling(t)
        BY <1>0, <3>1, Strangers DEF Separate
    <3>2. CASE Journaling(t)
      <4>1. pc'[t] \in Writing => "journal" \in inTx'
          BY <1>0, <3>2, StepLocks DEF Locks, Plain, Journaling
      <4> QED
          BY <1>0, <3>2, <4>1, JournalStep DEF Separate, Writing
    <3> QED
        BY <3>1, <3>2
  <2>2. "cache" \notin inTx' => work'.cache = file'.cache
      BY <1>0, CacheStep, Strangers DEF Separate
  <2> QED
      BY <2>1, <2>2 DEF Separate
<1>4. TradesTyped'
  <2>1. CASE ~Journaling(t)
      BY <1>0, <2>1, Strangers DEF TradesTyped
  <2>2. CASE Journaling(t)
    <3>1. TradesAfter(t, work.trades) \in Seq(EntryType)
        BY <1>0, <2>2, JournalStep, TradesAfterFacts DEF TradesTyped
    <3> QED
        BY <1>0, <2>2, <3>1, JournalStep DEF TradesTyped
  <2> QED
      BY <2>1, <2>2
<1>5. ReceiptsKnown'
  <2>1. receipts' \subseteq receipts \cup Receipts(t)
      BY JournalStep, Strangers
  <2>2. \A r \in Receipts(t) : r.id \in Nat /\ r.ts \in Nat
    <3>1. View(ConnOf[t]).trades \in Seq(EntryType)
        BY <1>0 DEF TradesTyped, View
    <3>2. Len(View(ConnOf[t]).trades) \in Nat /\ seen[t].ts \in Nat
        BY <1>0, <3>1 DEF Shapes, NoteType
    <3> QED
        BY <3>2 DEF Receipts
  <2> QED
      BY <1>0, <2>1, <2>2 DEF ReceiptsKnown
<1> QED
    BY <1>1, <1>2, <1>3, <1>4, <1>5 DEF BaseInv

(* A call that comes notes the time and is in hand from then on. *)
LEMMA Comes ==
    ASSUME BaseInv, NEW t \in Task, NEW r, AskSnapshot(t, r) \/ AskJournal(t, r) \/ AskCache(t, r)
    PROVE  /\ BaseInv'
           /\ UNCHANGED <<file, work, inTx, raised, receipts, stored, now>>
           /\ pc[t] = "idle" /\ call'[t] = r
           /\ \A u \in Task : u # t => pc'[u] = pc[u] /\ call'[u] = call[u] /\ seen'[u] = seen[u]
           /\ Journaling(t) \/ Caching(t) =>
                  pc'[t] \in {"begin", "connect"} /\ seen'[t] = Note(now, 0, 0)
<1>0. DbInv /\ Shapes /\ Control /\ Requests
    BY DEF BaseInv, DbInv, Control
<1>1. UNCHANGED <<file, work, inTx, raised, receipts, stored, now>>
    BY DEF AskSnapshot, AskJournal, AskCache, Enter
<1>2. /\ pc[t] = "idle" /\ call' = [call EXCEPT ![t] = r]
      /\ \E place \in {"read", "begin", "connect"} :
             /\ pc' = [pc EXCEPT ![t] = place]
             /\ Portfolio(t) <=> place = "read"
             /\ place = "connect" => Caching(t)
      /\ \/ Portfolio(t) /\ r \in SnapshotRequest
         \/ Journaling(t) /\ r \in JournalRequest
         \/ Caching(t) /\ r \in CacheRequest
      /\ seen' = [seen EXCEPT ![t] = IF Portfolio(t) THEN Blank ELSE Note(now, 0, 0)]
    BY DEF AskSnapshot, AskJournal, AskCache, Enter, Goto, Portfolio, Journaling, Caching
<1>3. /\ call'[t] = r /\ pc'[t] \in {"read", "begin", "connect"}
      /\ Portfolio(t) <=> pc'[t] = "read"
      /\ pc'[t] = "connect" => Caching(t)
      /\ \A u \in Task : u # t => pc'[u] = pc[u] /\ call'[u] = call[u] /\ seen'[u] = seen[u]
      /\ Journaling(t) \/ Caching(t) => seen'[t] = Note(now, 0, 0)
    BY <1>0, <1>2 DEF Shapes, Portfolio, Journaling, Caching
<1>4. Requests'
  <2>1. JournalRequest' = JournalRequest
      BY <1>1 DEF JournalRequest
  <2> SUFFICES ASSUME NEW u \in Task
               PROVE  \/ pc'[u] = "idle" /\ call'[u] = None
                      \/ Portfolio(u)
                      \/ /\ Journaling(u) /\ pc'[u] \in {"begin"} \cup Writing
                         /\ call'[u] \in JournalRequest
                      \/ /\ Caching(u) /\ pc'[u] \in {"begin"} \cup Writing \cup CachePlaces
                         /\ call'[u] \in CacheRequest
      BY <2>1 DEF Requests, Portfolio, Journaling, Caching, CacheRequest, Key
  <2>2. CASE u # t
      BY <1>0, <1>3, <2>2 DEF Requests
  <2>3. CASE u = t
      BY <1>2, <1>3, <2>3 DEF CachePlaces, Journaling, Caching
  <2> QED
      BY <2>2, <2>3
<1>5. DbInv'
    BY <1>0, AskInv
<1>6. Separate' /\ ReceiptsKnown' /\ TradesTyped'
    BY <1>1 DEF BaseInv, Separate, ReceiptsKnown, TradesTyped
<1> QED
    BY <1>1, <1>2, <1>3, <1>4, <1>5, <1>6 DEF BaseInv, Portfolio, Journaling, Caching

(* The start and the death of the process leave the journal and the cache   *)
(* of the file; no call is in hand then.                                    *)
LEMMA StartsAndEnds ==
    ASSUME BaseInv, Start \/ Crash
    PROVE  /\ BaseInv'
           /\ file'.trades = file.trades /\ file'.cache = file.cache /\ work' = file'
           /\ UNCHANGED <<receipts, stored, raised, now>>
           /\ \A t \in Task : pc'[t] = "idle"
           /\ Cached' = file.cache
<1>0. DbInv /\ Control /\ Requests /\ TradesTyped
    BY DEF BaseInv, DbInv
<1>1. DbInv'
    BY <1>0, StartInv, CrashInv
<1>2. /\ file'.trades = file.trades /\ file'.cache = file.cache /\ work' = file'
      /\ UNCHANGED <<receipts, stored, raised, now>>
  <2>1. CASE Start
    <3>1. file' = [file EXCEPT !.snaps = Append(@, Row(InitialCash, InitialCash))]
        BY <2>1 DEF Start, InitializeCash
    <3>2. file'.trades = file.trades /\ file'.cache = file.cache
        BY <1>0, <3>1 DEF Control, Shapes, TableNames
    <3> QED
        BY <2>1, <3>2 DEF Start, InitializeCash
  <2>2. CASE Crash
      BY <2>2 DEF Crash, Kill
  <2> QED
      BY <2>1, <2>2
<1>3. \A t \in Task : pc'[t] = "idle" /\ call'[t] = None
  <2>1. CASE Start
    <3>1. ~up /\ pc' = pc /\ call' = call
        BY <2>1 DEF Start, InitializeCash
    <3>2. \A t \in Task : pc[t] = "idle"
        BY <1>0, <3>1 DEF Control, Down
    <3>3. \A t \in Task : call[t] = None
        BY <1>0, <3>2 DEF Requests, Control, Calls, SnapPlaces, Writing, CachePlaces
    <3> QED
        BY <3>1, <3>2, <3>3
  <2>2. CASE Crash
      BY <2>2 DEF Crash, Kill
  <2> QED
      BY <2>1, <2>2
<1>4. Requests'
    BY <1>3 DEF Requests
<1>5. Separate' /\ ReceiptsKnown' /\ TradesTyped'
    BY <1>2 DEF BaseInv, Separate, ReceiptsKnown, TradesTyped
<1>6. Cached' = file'.cache
    BY <1>2 DEF Cached, View
<1> QED
    BY <1>1, <1>2, <1>3, <1>4, <1>5, <1>6 DEF BaseInv

(* The clock and stuttering leave all of it. *)
LEMMA Rests ==
    ASSUME BaseInv, Tick \/ UNCHANGED vars
    PROVE  /\ BaseInv'
           /\ UNCHANGED <<file, work, inTx, raised, call, seen, pc, receipts, stored>>
           /\ now' \in Nat /\ now' >= now
<1>1. now \in Nat
    BY DEF BaseInv, DbInv, Control, Shapes
<1>2. /\ UNCHANGED <<file, work, inTx, raised, call, seen, pc, receipts, stored>>
      /\ now' \in {now, now + 1} /\ UNCHANGED <<sqliteVars, overlap, before>>
    BY DEF Tick, vars, sqliteVars
<1>3. DbInv'
    BY <1>1, <1>2, QuietInv DEF BaseInv
<1>4. Requests'
  <2>1. JournalRequest' = JournalRequest
      BY <1>2 DEF JournalRequest
  <2> QED
      BY <1>2, <2>1 DEF BaseInv, Requests
<1>5. Separate' /\ ReceiptsKnown' /\ TradesTyped'
    BY <1>2 DEF BaseInv, Separate, ReceiptsKnown, TradesTyped
<1> QED
    BY <1>1, <1>2, <1>3, <1>4, <1>5 DEF BaseInv

(***************************************************************************)
(* The journal: its rows stand in the order of their time stamps, and no    *)
(* call in hand has noted an earlier one; the calls of its connection get   *)
(* their turns in that order.                                               *)
(***************************************************************************)
Logging == {t \in Task : Journaling(t) /\ pc[t] # "idle"}

InOrder ==
    \A i \in DOMAIN file.trades :
        /\ file.trades[i].ts <= now
        /\ \A j \in DOMAIN file.trades : i <= j => file.trades[i].ts <= file.trades[j].ts

Waiting ==
    /\ \A t \in Logging :
           /\ seen[t].ts <= now
           /\ \A i \in DOMAIN file.trades : file.trades[i].ts <= seen[t].ts
    /\ \A t, u \in Logging : pc[t] \in Writing /\ pc[u] = "begin" => seen[t].ts <= seen[u].ts

(* The open transaction holds what its one statement has made of the file. *)
Statements ==
    \A t \in Logging :
        /\ pc[t] = "write" => work.trades = file.trades
        /\ pc[t] = "commit" => work.trades = TradesAfter(t, file.trades)

JournalInv == InOrder /\ Waiting /\ Statements /\ JournalIds

(* the rows of the journal *)
LEMMA EntryFacts ==
    ASSUME NEW rows \in Seq(EntryType)
    PROVE  /\ Len(rows) \in Nat /\ DOMAIN rows = 1 .. Len(rows)
           /\ (rows = <<>>) <=> (Len(rows) = 0)
           /\ \A i \in DOMAIN rows : rows[i] \in EntryType /\ rows[i].ts \in Nat
<1>1. Len(rows) \in Nat /\ DOMAIN rows = 1 .. Len(rows) /\ \A i \in DOMAIN rows : rows[i] \in EntryType
    OBVIOUS
<1>2. (rows = <<>>) <=> (Len(rows) = 0)
    OBVIOUS
<1> QED
    BY <1>1, <1>2 DEF EntryType

(* A statement is that of the same call as long as the call is in hand. *)
LEMMA StatementStays ==
    ASSUME NEW t \in Task, call'[t] = call[t], seen'[t] = seen[t], file'.trades = file.trades
    PROVE  TradesAfter(t, file.trades)' = TradesAfter(t, file.trades)
<1>1. Op(t)' = Op(t)
    BY DEF Op
<1> QED
    BY <1>1, Zenon DEF TradesAfter

(* What leaves the rows, the receipts and the calls in hand alone leaves the *)
(* invariant alone.                                                         *)
LEMMA JournalQuiet ==
    ASSUME BaseInv, JournalInv, file'.trades = file.trades, work'.trades = work.trades,
           receipts' = receipts, now' \in Nat, now' >= now,
           \A u \in Logging' : u \in Logging /\ pc'[u] = pc[u] /\ call'[u] = call[u] /\ seen'[u] = seen[u]
    PROVE  JournalInv'
<1>1. now \in Nat /\ \A t \in Task : seen[t].ts \in Nat
    BY DEF BaseInv, DbInv, Control, Shapes, NoteType
<1>2. \A i \in DOMAIN file.trades : file.trades[i].ts \in Nat
    BY EntryFacts DEF BaseInv, TradesTyped
<1>3. InOrder'
    BY <1>1, <1>2 DEF JournalInv, InOrder
<1>4. Waiting'
    BY <1>1, <1>2 DEF JournalInv, Waiting, Logging
<1>5. Statements'
  <2> SUFFICES ASSUME NEW u \in Logging'
               PROVE  /\ pc'[u] = "write" => work'.trades = file'.trades
                      /\ pc'[u] = "commit" => work'.trades = TradesAfter(u, file.trades)'
      BY Zenon DEF Statements
  <2>1. u \in Logging /\ u \in Task
      BY DEF Logging
  <2>2. TradesAfter(u, file.trades)' = TradesAfter(u, file.trades)
      BY <2>1, StatementStays
  <2> QED
      BY <2>1, <2>2 DEF JournalInv, Statements
<1>6. JournalIds'
    BY DEF JournalInv, JournalIds
<1> QED
    BY <1>3, <1>4, <1>5, <1>6 DEF JournalInv

(* The commit of a journal call makes its one row the newest, or marks a    *)
(* row that has been acknowledged.                                          *)
LEMMA JournalCommit ==
    ASSUME BaseInv, JournalInv, NEW t \in Task, Step(t), Journaling(t),
           pc[t] = "commit", pc'[t] = "idle", file' = work,
           receipts' = receipts \cup Receipts(t), "journal" \in inTx
    PROVE  JournalInv'
<1> DEFINE rows == file.trades
           after == TradesAfter(t, rows)
           n == Len(rows)
<1>0. /\ Control /\ Tables /\ Locks /\ Shapes /\ ReceiptsKnown /\ rows \in Seq(EntryType)
      /\ InOrder /\ Waiting /\ Statements /\ JournalIds
    BY DEF BaseInv, DbInv, Control, TradesTyped, JournalInv
<1>1. call[t] \in JournalRequest /\ t \in Logging /\ now' = now /\ now \in Nat
    BY <1>0, JournalStep DEF Logging, Step, Shapes
<1>2. work.trades = after
    BY <1>0, <1>1 DEF Statements
<1>3. file'.trades = after
    BY <1>2
<1>4. /\ n \in Nat /\ DOMAIN rows = 1 .. n
      /\ \A i \in 1 .. n : rows[i] \in EntryType /\ rows[i].ts \in Nat
    BY <1>0, EntryFacts
<1>5. /\ after \in Seq(EntryType) /\ n <= Len(after)
      /\ \A i \in 1 .. n :
             /\ after[i].tx = rows[i].tx /\ after[i].ts = rows[i].ts
             /\ after[i].status = "confirmed" =>
                    \/ rows[i].status = "confirmed"
                    \/ Op(t) = "update_trade_status" /\ i = call[t].id
      /\ Len(after) # n => /\ Len(after) = n + 1 /\ after[Len(after)].ts = seen[t].ts
                           /\ after[Len(after)].status # "confirmed"
      /\ Op(t) = "log_trade" => Len(after) = n + 1 /\ after[Len(after)].tx = call[t].tx
    BY <1>0, <1>1, TradesAfterFacts
<1> DEFINE m == Len(after)
<1>6. m \in Nat /\ DOMAIN after = 1 .. m
    BY <1>5, EntryFacts
<1>7. /\ seen[t].ts \in Nat /\ seen[t].ts <= now
      /\ \A i \in 1 .. n : rows[i].ts <= seen[t].ts
    BY <1>0, <1>1, <1>4 DEF Waiting, Shapes, NoteType
<1>8. \A u \in Logging' : /\ u \in Logging /\ u # t /\ pc[u] = "begin" /\ pc'[u] = "begin"
                          /\ seen'[u] = seen[u] /\ seen[u].ts \in Nat
  <2> SUFFICES ASSUME NEW u \in Logging'
               PROVE  /\ u \in Logging /\ u # t /\ pc[u] = "begin" /\ pc'[u] = "begin"
                      /\ seen'[u] = seen[u] /\ seen[u].ts \in Nat
      OBVIOUS
  <2>1. u \in Task /\ u # t /\ pc'[u] = pc[u] /\ seen'[u] = seen[u] /\ pc[u] # "idle" /\ Journaling(u)
      BY <1>0, StepShape DEF Logging, Journaling
  <2>2. pc[u] \notin Writing
      BY <1>0, <2>1 DEF Locks, Plain, Journaling, Writing
  <2>3. pc[u] = "begin"
      BY <2>1, <2>2 DEF BaseInv, Requests, Portfolio, Journaling, Caching
  <2> QED
      BY <1>0, <2>1, <2>3 DEF Logging, Shapes, NoteType
<1>9. /\ \A i \in 1 .. n :
             /\ after[i].tx = rows[i].tx /\ after[i].ts = rows[i].ts
             /\ after[i].status = "confirmed" =>
                    \/ rows[i].status = "confirmed"
                    \/ Op(t) = "update_trade_status" /\ i = call[t].id
      /\ n <= m
      /\ m # n => m = n + 1 /\ after[m].ts = seen[t].ts /\ after[m].status # "confirmed"
      /\ Op(t) = "log_trade" => m = n + 1 /\ after[m].tx = call[t].tx
    BY <1>5
<1> HIDE DEF rows, after, n, m
<1>10. \A i \in 1 .. m : i \in 1 .. n \/ (i = m /\ m # n)
    BY <1>4, <1>6, <1>9
<1>11. 1 .. n \subseteq 1 .. m
    BY <1>4, <1>6, <1>9
<1>12. \A i \in 1 .. m : after[i].ts \in Nat /\ after[i].ts <= seen[t].ts
  <2> SUFFICES ASSUME NEW i \in 1 .. m
               PROVE  after[i].ts \in Nat /\ after[i].ts <= seen[t].ts
      OBVIOUS
  <2>1. CASE i \in 1 .. n
    <3>1. after[i].ts = rows[i].ts
        BY <1>9, <2>1
    <3> QED
        BY <1>4, <1>7, <2>1, <3>1
  <2>2. CASE i = m /\ m # n
    <3>1. after[i].ts = seen[t].ts
        BY <1>9, <2>2
    <3> QED
        BY <1>7, <3>1
  <2> QED
      BY <1>10, <2>1, <2>2
<1>13. InOrder'
  <2>1. \A i, j \in 1 .. n : i <= j => rows[i].ts <= rows[j].ts
      BY <1>0, <1>4 DEF InOrder, rows
  <2>2. ASSUME NEW i \in 1 .. m, NEW j \in 1 .. m, i <= j
        PROVE  after[i].ts <= after[j].ts
    <3>1. CASE j \in 1 .. n
      <4>1. i \in 1 .. n
          BY <1>4, <1>6, <2>2, <3>1
      <4>2. after[i].ts = rows[i].ts /\ after[j].ts = rows[j].ts
          BY <1>9, <3>1, <4>1
      <4>3. rows[i].ts <= rows[j].ts
          BY <2>1, <2>2, <3>1, <4>1
      <4> QED
          BY <4>2, <4>3
    <3>2. CASE j = m /\ m # n
      <4>1. after[j].ts = seen[t].ts
          BY <1>9, <3>2
      <4> QED
          BY <1>12, <4>1
    <3> QED
        BY <1>10, <3>1, <3>2
  <2>3. \A i \in 1 .. m : after[i].ts <= now
      BY <1>1, <1>7, <1>12
  <2> QED
      BY <1>1, <1>3, <1>6, <2>2, <2>3 DEF InOrder
<1>14. Waiting'
  <2>1. \A u \in Logging' : /\ seen'[u].ts <= now
                            /\ seen[t].ts <= seen'[u].ts
      BY <1>0, <1>1, <1>8 DEF Waiting, Writing
  <2>2. \A u \in Logging' : seen'[u].ts \in Nat /\ pc'[u] \notin Writing
      BY <1>8 DEF Writing
  <2>3. \A u \in Logging' : \A i \in 1 .. m : after[i].ts <= seen'[u].ts
      BY <1>7, <1>12, <2>1, <2>2
  <2> QED
      BY <1>1, <1>3, <1>6, <2>1, <2>2, <2>3 DEF Waiting
<1>15. Statements'
    BY <1>8 DEF Statements
<1>16. JournalIds'
  <2>1. ASSUME NEW r \in receipts
        PROVE  r.id \in 1 .. m /\ after[r.id].tx = r.tx /\ after[r.id].ts = r.ts
    <3>1. r.id \in 1 .. n /\ rows[r.id].tx = r.tx /\ rows[r.id].ts = r.ts
        BY <1>0, <1>4 DEF JournalIds, rows
    <3> QED
        BY <1>9, <1>11, <3>1
  <2>2. ASSUME NEW r \in Receipts(t)
        PROVE  r.id \in 1 .. m /\ after[r.id].tx = r.tx /\ after[r.id].ts = r.ts
    <3>1. /\ Op(t) = "log_trade" /\ r.id = Len(View(ConnOf[t]).trades)
          /\ r.tx = call[t].tx /\ r.ts = seen[t].ts
        BY DEF Receipts
    <3>2. r.id = m
        BY <1>2, <3>1 DEF View, Journaling, m
    <3>3. m = n + 1 /\ after[m].tx = call[t].tx
        BY <1>9, <3>1
    <3>4. m # n /\ m \in 1 .. m
        BY <1>4, <1>6, <3>3
    <3> QED
        BY <1>9, <3>1, <3>2, <3>3, <3>4
  <2>3. ASSUME NEW i \in 1 .. m, after[i].status = "confirmed"
        PROVE  \E r \in receipts : r.id = i
    <3>1. i \in 1 .. n
        BY <1>9, <1>10, <2>3
    <3>2. CASE rows[i].status = "confirmed"
        BY <1>0, <1>4, <3>1, <3>2 DEF JournalIds, rows
    <3>3. CASE Op(t) = "update_trade_status" /\ i = call[t].id
        BY <1>0, <1>1, <3>3, JournalRequestFacts
    <3> QED
        BY <1>9, <2>3, <3>1, <3>2, <3>3
  <2> QED
      BY <1>3, <1>6, <2>1, <2>2, <2>3 DEF JournalIds
<1> QED
    BY <1>13, <1>14, <1>15, <1>16 DEF JournalInv

(* A step of a task. *)
LEMMA JournalWork ==
    ASSUME BaseInv, JournalInv, NEW t \in Task, Step(t)
    PROVE  JournalInv'
<1>0. /\ Control /\ Tables /\ Locks /\ Shapes /\ Requests /\ BaseInv' /\ Locks'
      /\ InOrder /\ Waiting /\ Statements /\ JournalIds
    BY BaseStep DEF BaseInv, DbInv, Control, JournalInv
<1>1. \A u \in Task : u # t => pc'[u] = pc[u] /\ call'[u] = call[u] /\ seen'[u] = seen[u]
    BY <1>0, StepShape
<1>2. now' = now /\ now \in Nat
    BY <1>0 DEF Step, Shapes
<1>3. CASE ~Journaling(t)
  <2>1. \A u \in Logging' : u \in Logging /\ pc'[u] = pc[u] /\ call'[u] = call[u] /\ seen'[u] = seen[u]
      BY <1>1, <1>3 DEF Logging, Journaling
  <2> QED
      BY <1>2, <1>3, <2>1, Strangers, JournalQuiet
<1>4. CASE Journaling(t)
  <2>0. \A u \in Task : Journaling(u)' = Journaling(u)
      BY DEF Journaling
  <2>1. CASE pc'[t] = "idle" /\ work' = work /\ file' = file /\ receipts' = receipts
    <3>1. \A u \in Logging' : u \in Logging /\ pc'[u] = pc[u] /\ call'[u] = call[u] /\ seen'[u] = seen[u]
        BY <1>1, <2>1 DEF Logging, Journaling
    <3> QED
        BY <1>2, <2>1, <3>1, JournalQuiet
  <2>2. CASE pc[t] = "commit" /\ pc'[t] = "idle" /\ file' = work /\ "journal" \in inTx
             /\ receipts' = receipts \cup Receipts(t)
      BY <1>4, <2>2, JournalCommit
  <2>3. CASE pc[t] = "rollback" /\ pc'[t] = "idle" /\ work' = file /\ file' = file
             /\ receipts' = receipts
    <3>1. \A u \in Logging' : /\ u \in Logging /\ u # t /\ pc'[u] = pc[u] /\ seen'[u] = seen[u]
                              /\ pc[u] \notin Writing
        BY <1>0, <1>1, <1>4, <2>3 DEF Logging, Journaling, Locks, Plain, Writing
    <3>2. InOrder' /\ JournalIds'
        BY <1>0, <1>2, <2>3 DEF InOrder, JournalIds
    <3>3. Waiting'
        BY <1>0, <1>2, <2>3, <3>1 DEF Waiting
    <3>4. Statements'
        BY <3>1 DEF Statements, Writing
    <3> QED
        BY <3>2, <3>3, <3>4 DEF JournalInv
  <2>4. CASE /\ pc'[t] \in Writing /\ file' = file /\ receipts' = receipts
             /\ call' = call /\ seen' = seen
             /\ \/ pc[t] = "begin" /\ pc'[t] = "write" /\ InTurn(t) /\ work' = file
                \/ pc[t] = "write" /\ pc'[t] = "commit" /\ work'.trades = TradesAfter(t, work.trades)
                \/ pc[t] \in {"write", "commit"} /\ pc'[t] = "rollback"
    <3>1. /\ t \in Logging
          /\ \A u \in Logging' : /\ u \in Logging /\ u \in Task /\ Journaling(u)
                                 /\ u # t => pc'[u] = pc[u] /\ pc'[u] \notin Writing
      <4>1. t \in Logging
          BY <1>4, <2>4 DEF Logging
      <4> SUFFICES ASSUME NEW u \in Logging'
                   PROVE  /\ u \in Logging /\ u \in Task /\ Journaling(u)
                          /\ u # t => pc'[u] = pc[u] /\ pc'[u] \notin Writing
          BY <4>1
      <4>2. u \in Task /\ Journaling(u) /\ pc'[u] # "idle"
          BY <2>0 DEF Logging
      <4>3. u # t => pc'[u] \notin Writing
          BY <1>0, <1>4, <2>4, <4>2 DEF Locks, Plain, Journaling
      <4> QED
          BY <1>1, <4>1, <4>2, <4>3 DEF Logging
    <3>2. InOrder' /\ JournalIds'
        BY <1>0, <1>2, <2>4 DEF InOrder, JournalIds
    <3>3. Waiting'
      <4>1. \A u \in Logging' : /\ seen'[u].ts <= now'
                                /\ \A i \in DOMAIN file'.trades : file'.trades[i].ts <= seen'[u].ts
          BY <1>0, <1>2, <2>4, <3>1 DEF Waiting
      <4>2. ASSUME NEW u \in Logging', NEW v \in Logging', pc'[u] \in Writing, pc'[v] = "begin"
            PROVE  seen'[u].ts <= seen'[v].ts
        <5>1. u = t /\ v # t /\ v \in Logging /\ pc[v] = "begin" /\ Journaling(v) /\ v \in Task
            BY <2>4, <3>1, <4>2 DEF Writing
        <5>2. CASE InTurn(t)
            BY <1>4, <2>4, <5>1, <5>2 DEF InTurn, Journaling
        <5>3. CASE pc[t] \in Writing
            BY <1>0, <2>4, <3>1, <5>1, <5>3 DEF Waiting
        <5> QED
            BY <2>4, <5>2, <5>3 DEF Writing
      <4> QED
          BY <4>1, <4>2 DEF Waiting
    <3>4. Statements'
      <4> SUFFICES ASSUME NEW u \in Logging'
                   PROVE  /\ pc'[u] = "write" => work'.trades = file'.trades
                          /\ pc'[u] = "commit" => work'.trades = TradesAfter(u, file.trades)'
          BY Zenon DEF Statements
      <4>1. TradesAfter(t, file.trades)' = TradesAfter(t, file.trades)
          BY <2>4, StatementStays
      <4>2. pc[t] = "write" => work.trades = file.trades
          BY <1>0, <3>1 DEF Statements
      <4>3. u # t => pc'[u] # "write" /\ pc'[u] # "commit"
          BY <3>1 DEF Writing
      <4>4. CASE u = t
          BY <2>4, <4>1, <4>2, <4>4
      <4> QED
          BY <4>3, <4>4
    <3> QED
        BY <3>2, <3>3, <3>4 DEF JournalInv
  <2> QED
      BY <1>4, <2>1, <2>2, <2>3, <2>4, JournalStep DEF Writing
<1> QED
    BY <1>3, <1>4

(* A call that comes is the latest. *)
LEMMA JournalComes ==
    ASSUME BaseInv, JournalInv, NEW t \in Task, Ask(t)
    PROVE  JournalInv'
<1>1. PICK r : AskSnapshot(t, r) \/ AskJournal(t, r) \/ AskCache(t, r)
    BY DEF Ask
<1>2. /\ UNCHANGED <<file, work, receipts, now>> /\ now \in Nat
      /\ \A u \in Task : u # t => pc'[u] = pc[u] /\ call'[u] = call[u] /\ seen'[u] = seen[u]
      /\ Journaling(t) \/ Caching(t) =>
             pc'[t] \in {"begin", "connect"} /\ seen'[t] = Note(now, 0, 0)
    BY <1>1, Comes DEF BaseInv, DbInv, Control, Shapes
<1>3. CASE ~Journaling(t)
  <2>1. \A u \in Logging' : u \in Logging /\ pc'[u] = pc[u] /\ call'[u] = call[u] /\ seen'[u] = seen[u]
      BY <1>2, <1>3 DEF Logging, Journaling
  <2> QED
      BY <1>2, <2>1, JournalQuiet
<1>4. CASE Journaling(t)
  <2>1. seen'[t].ts = now /\ pc'[t] \notin Writing
      BY <1>2, <1>4 DEF Note, Writing
  <2>2. \A u \in Logging' : u # t => /\ u \in Logging /\ pc'[u] = pc[u] /\ call'[u] = call[u]
                                     /\ seen'[u] = seen[u]
      BY <1>2 DEF Logging, Journaling
  <2>3. InOrder' /\ JournalIds'
      BY <1>2 DEF JournalInv, InOrder, JournalIds
  <2>4. Waiting'
      BY <1>2, <2>1, <2>2 DEF JournalInv, Waiting, InOrder
  <2>5. Statements'
    <3> SUFFICES ASSUME NEW u \in Logging'
                 PROVE  /\ pc'[u] = "write" => work'.trades = file'.trades
                        /\ pc'[u] = "commit" => work'.trades = TradesAfter(u, file.trades)'
        BY Zenon DEF Statements
    <3>1. CASE u = t
        BY <2>1, <3>1 DEF Writing
    <3>2. CASE u # t
      <4>1. u \in Task
          BY DEF Logging
      <4>2. TradesAfter(u, file.trades)' = TradesAfter(u, file.trades)
          BY <1>2, <2>2, <3>2, <4>1, StatementStays
      <4> QED
          BY <1>2, <2>2, <3>2, <4>2 DEF JournalInv, Statements
    <3> QED
        BY <3>1, <3>2
  <2> QED
      BY <2>3, <2>4, <2>5 DEF JournalInv
<1> QED
    BY <1>3, <1>4

LEMMA JournalNext == BaseInv /\ JournalInv /\ [Next]_vars => JournalInv'
<1> SUFFICES ASSUME BaseInv, JournalInv, [Next]_vars
             PROVE  JournalInv'
    OBVIOUS
<1>1. CASE Start \/ Crash
  <2>1. /\ file'.trades = file.trades /\ receipts' = receipts /\ now' = now /\ Logging' = {}
      BY <1>1, StartsAndEnds DEF Logging
  <2>2. InOrder' /\ Waiting' /\ Statements' /\ JournalIds'
      BY <2>1 DEF JournalInv, InOrder, Waiting, Statements, JournalIds
  <2> QED
      BY <2>2 DEF JournalInv
<1>2. CASE Tick \/ UNCHANGED vars
  <2>1. \A u \in Logging' : u \in Logging /\ pc'[u] = pc[u] /\ call'[u] = call[u] /\ seen'[u] = seen[u]
      BY <1>2, Rests DEF Logging, Journaling
  <2> QED
      BY <1>2, <2>1, Rests, JournalQuiet
<1>3. CASE \E t \in Task : Ask(t) \/ Step(t)
    BY <1>3, JournalWork, JournalComes
<1> QED
    BY <1>1, <1>2, <1>3 DEF Next

LEMMA InitJournal == Init => BaseInv /\ JournalInv
<1> SUFFICES ASSUME Init
             PROVE  BaseInv /\ JournalInv
    OBVIOUS
<1>1. DbInv
    BY InitInv
<1>2. /\ file.trades = <<>> /\ work.trades = <<>> /\ file = work
      /\ receipts = {} /\ \A t \in Task : pc[t] = "idle" /\ call[t] = None
    BY DEF Init, NoTables
<1>3. Requests /\ Separate /\ ReceiptsKnown
    BY <1>2 DEF Requests, Separate, ReceiptsKnown
<1>4. TradesTyped
    BY <1>2 DEF TradesTyped
<1>5. DOMAIN file.trades = {} /\ Logging = {}
    BY <1>2 DEF Logging
<1>6. JournalInv
    BY <1>2, <1>5 DEF JournalInv, InOrder, Waiting, Statements, JournalIds
<1> QED
    BY <1>1, <1>3, <1>4, <1>6 DEF BaseInv

LEMMA BaseNext == BaseInv /\ [Next]_vars => BaseInv'
<1>1. ASSUME BaseInv, NEW t \in Task, Ask(t)
      PROVE  BaseInv'
    BY <1>1, Comes DEF Ask
<1> QED
    BY <1>1, BaseStep, StartsAndEnds, Rests DEF Next

(* An id log_trade has returned is that trade's for good, and a row is      *)
(* marked as confirmed only after its id was returned: over any             *)
(* interleaving of the calls, statements that raise, rollbacks and crashes. *)
THEOREM IdsAreKept == Spec => []JournalIds
<1>1. BaseInv /\ JournalInv /\ [Next]_vars => (BaseInv /\ JournalInv)'
    BY BaseNext, JournalNext
<1>2. JournalInv => JournalIds
    BY DEF JournalInv
<1> QED
    BY <1>1, <1>2, InitJournal, PTL DEF Spec

(* The newest row is not older than any trade that was acknowledged, though *)
(* the heartbeat reads the row with the highest id and not the newest one.  *)
LEMMA NewestIsHeard ==
    ASSUME BaseInv, JournalInv
    PROVE  HeartbeatHeard
<1> DEFINE rows == file.trades
<1>1. /\ Len(rows) \in Nat /\ DOMAIN rows = 1 .. Len(rows) /\ now \in Nat
      /\ rows = <<>> <=> Len(rows) = 0
      /\ \A i \in DOMAIN rows : rows[i].ts \in Nat
    BY EntryFacts DEF BaseInv, TradesTyped, DbInv, Control, Shapes
<1>2. ASSUME NEW r \in receipts, now - r.ts < HeartbeatWindow
      PROVE  ~CheckHeartbeat(rows, now).needed
  <2>1. r.id \in 1 .. Len(rows) /\ rows[r.id].ts = r.ts
      BY <1>1 DEF JournalInv, JournalIds
  <2>2. rows # <<>> /\ Len(rows) \in 1 .. Len(rows) /\ r.id <= Len(rows)
      BY <1>1, <2>1
  <2>3. rows[r.id].ts <= rows[Len(rows)].ts
      BY <1>1, <2>1, <2>2 DEF JournalInv, InOrder
  <2>4. LastTradeTs(rows) = rows[Len(rows)].ts
      BY <2>2 DEF LastTradeTs
  <2>5. LastTradeTs(rows) \in Nat /\ r.ts \in Nat /\ r.ts <= LastTradeTs(rows)
      BY <1>1, <2>1, <2>2, <2>3, <2>4
  <2>6. LastTradeTs(rows) # None
      BY <2>5, TaskAssumption
  <2>7. now - LastTradeTs(rows) < HeartbeatWindow
      BY <1>1, <1>2, <2>5, JournalAssumption
  <2> QED
      BY <2>6, <2>7 DEF CheckHeartbeat
<1> QED
    BY <1>2 DEF HeartbeatHeard

(* No trade is asked for while one of the last 22 hours was acknowledged.   *)
THEOREM RecentTradesAreHeard == Spec => []HeartbeatHeard
<1>1. BaseInv /\ JournalInv /\ [Next]_vars => (BaseInv /\ JournalInv)'
    BY BaseNext, JournalNext
<1> QED
    BY <1>1, NewestIsHeard, InitJournal, PTL DEF Spec

(***************************************************************************)
(* The cache: the rows of a key stand in the order of their time stamps     *)
(* too, as a row gets the highest id and the sets of a key do not overlap.  *)
(***************************************************************************)
CacheRow == [id : Nat, ts : Nat]

Orderly(rows, time) ==
    /\ rows \subseteq CacheRow
    /\ \E b \in Nat : \A e \in rows : e.id <= b
    /\ \A e \in rows : e.ts <= time
    /\ \A e, f \in rows : e.id <= f.id => e.ts <= f.ts

AllOrderly(cache, time) ==
    cache \in [Key -> SUBSET CacheRow] /\ \A k \in Key : Orderly(cache[k], time)

(* Of what was stored at ts, something as new is there until it expires. *)
Covered(rows, ts, time) == time - ts < TTL => \E e \in rows : e.ts >= ts

Setting == {t \in Task : Caching(t) /\ pc[t] # "idle"}

Apart == \A t, u \in Setting : t # u => call[t].key # call[u].key

(* what is there of the key of a set in hand is not newer than it *)
Fresh ==
    \A t \in Setting :
        /\ seen[t].ts <= now
        /\ \A e \in file.cache[call[t].key] \cup Cached[call[t].key] : e.ts <= seen[t].ts
        /\ stored[call[t].key] # None => stored[call[t].key] <= seen[t].ts

StoredKnown == stored \in [Key -> {ts \in Nat : ts <= now} \cup {None}]

Kept ==
    "cache" \notin raised =>
        /\ \A k \in Key : stored[k] # None =>
               Covered(file.cache[k], stored[k], now) /\ Covered(Cached[k], stored[k], now)
        /\ \A t \in Setting : pc[t] # "rollback"
        /\ \A t \in Setting : pc[t] = "commit" => Covered(Cached[call[t].key], seen[t].ts, now)

CacheInv ==
    /\ AllOrderly(file.cache, now) /\ AllOrderly(Cached, now)
    /\ Apart /\ Fresh /\ StoredKnown /\ Kept

(* As time goes on, the rows stay in order and expire. *)
LEMMA TimePasses ==
    ASSUME NEW now1 \in Nat, NEW now2 \in Nat, now1 <= now2
    PROVE  /\ \A cache : AllOrderly(cache, now1) => AllOrderly(cache, now2)
           /\ \A rows : \A ts \in Nat : Covered(rows, ts, now1) => Covered(rows, ts, now2)
<1>1. ASSUME NEW rows, Orderly(rows, now1)
      PROVE  Orderly(rows, now2)
  <2>1. \A e \in rows : e.ts \in Nat
      BY <1>1 DEF Orderly, CacheRow
  <2>2. \A e \in rows : e.ts <= now2
      BY <1>1, <2>1 DEF Orderly
  <2> QED
      BY <1>1, <2>2 DEF Orderly
<1>2. \A cache : AllOrderly(cache, now1) => AllOrderly(cache, now2)
    BY <1>1 DEF AllOrderly
<1>3. ASSUME NEW rows, NEW ts \in Nat, Covered(rows, ts, now1)
      PROVE  Covered(rows, ts, now2)
    BY <1>3, CacheAssumption DEF Covered
<1> QED
    BY <1>2, <1>3

(* the row with the highest id *)
LEMMA NewestFacts ==
    ASSUME NEW rows \in SUBSET CacheRow, rows # {}, NEW b \in Nat, \A e \in rows : e.id <= b
    PROVE  Newest(rows) \in rows /\ \A e \in rows : e.id <= Newest(rows).id
<1> DEFINE ids == {e.id : e \in rows}
<1>1. ids \in SUBSET Nat /\ ids # {} /\ \A x \in ids : x <= b
    BY DEF CacheRow
<1>2. PICK x \in ids : \A y \in ids : y <= x
    BY <1>1, MaxExists
<1>3. PICK e \in rows : e.id = x
    BY <1>2
<1>4. \A f \in rows : f.id <= e.id
    BY <1>2, <1>3
<1> QED
    BY <1>4 DEF Newest

(* A sweep keeps what has not expired. *)
LEMMA SweptFacts ==
    ASSUME NEW cache, now \in Nat, AllOrderly(cache, now)
    PROVE  /\ AllOrderly(Swept(cache, now), now)
           /\ \A k \in Key : /\ Swept(cache, now)[k] \subseteq cache[k]
                             /\ \A ts \in Nat : Covered(cache[k], ts, now) =>
                                                    Covered(Swept(cache, now)[k], ts, now)
<1>1. ASSUME NEW k \in Key
      PROVE  Swept(cache, now)[k] = {e \in cache[k] : e.ts >= now - TTL}
    BY DEF Swept
<1>2. ASSUME NEW k \in Key
      PROVE  Swept(cache, now)[k] \subseteq cache[k]
    BY <1>1
<1>3. ASSUME NEW k \in Key
      PROVE  Orderly(Swept(cache, now)[k], now)
    BY <1>2 DEF AllOrderly, Orderly
<1>4. Swept(cache, now) \in [Key -> SUBSET CacheRow]
    BY DEF Swept, AllOrderly
<1>5. ASSUME NEW k \in Key, NEW ts \in Nat, Covered(cache[k], ts, now)
      PROVE  Covered(Swept(cache, now)[k], ts, now)
  <2> SUFFICES ASSUME now - ts < TTL
               PROVE  \E e \in Swept(cache, now)[k] : e.ts >= ts
      BY DEF Covered
  <2>1. PICK e \in cache[k] : e.ts >= ts
      BY <1>5 DEF Covered
  <2>2. e.ts \in Nat
      BY DEF AllOrderly, CacheRow
  <2>3. e.ts >= now - TTL
      BY <2>1, <2>2, CacheAssumption
  <2> QED
      BY <1>1, <2>1, <2>3
<1> QED
    BY <1>2, <1>3, <1>4, <1>5 DEF AllOrderly

(* What a set writes is the newest of its key. *)
LEMMA CacheAfterFacts ==
    ASSUME NEW t \in Task, call[t] \in CacheRequest, NEW cache, now \in Nat,
           AllOrderly(cache, now), seen[t].ts \in Nat, seen[t].ts <= now,
           \A e \in cache[call[t].key] : e.ts <= seen[t].ts
    PROVE  LET after == CacheAfter(t, cache)
           IN  /\ AllOrderly(after, now)
               /\ \A k \in Key : k # call[t].key => after[k] = cache[k]
               /\ \A e \in after[call[t].key] : e.ts <= seen[t].ts
               /\ \A ts \in Nat : ts <= seen[t].ts => Covered(after[call[t].key], ts, now)
<1> DEFINE key == call[t].key
           rows == cache[key]
           ts == seen[t].ts
           new == IF key \in List THEN rows \cup {[id |-> NextId(rows), ts |-> ts]}
                                  ELSE {[id |-> 1, ts |-> ts]}
           after == CacheAfter(t, cache)
<1>1. key \in Key /\ Op(t) = "set"
    BY CacheRequestFacts
<1>2. cache \in [Key -> SUBSET CacheRow] /\ Orderly(rows, now)
    BY <1>1 DEF AllOrderly
<1>3. after = [cache EXCEPT ![key] = new]
    BY <1>1 DEF CacheAfter
<1>4. PICK b \in Nat : \A e \in rows : e.id <= b
    BY <1>2 DEF Orderly
<1>5. NextId(rows) \in Nat /\ \A e \in rows : e.id < NextId(rows)
  <2>1. CASE rows = {}
      BY <2>1 DEF NextId
  <2>2. CASE rows # {}
    <3>1. Newest(rows) \in rows /\ \A e \in rows : e.id <= Newest(rows).id
        BY <1>2, <1>4, <2>2, NewestFacts DEF Orderly
    <3>2. \A e \in rows : e.id \in Nat
        BY <1>2 DEF Orderly, CacheRow
    <3> QED
        BY <2>2, <3>1, <3>2 DEF NextId
  <2> QED
      BY <2>1, <2>2
<1>6. \A e \in rows : e.id \in Nat /\ e.ts \in Nat /\ e.ts <= ts
    BY <1>2 DEF Orderly, CacheRow
<1>7. PICK id \in Nat : /\ \A e \in rows : e.id < id \/ key \notin List
                        /\ new = {[id |-> id, ts |-> ts]} \/ new = rows \cup {[id |-> id, ts |-> ts]}
                        /\ key \notin List => new = {[id |-> id, ts |-> ts]}
    BY <1>5
<1> DEFINE row == [id |-> id, ts |-> ts]
<1>8. row \in CacheRow /\ row.id = id /\ row.ts = ts
    BY DEF CacheRow
<1>9. new = {row} \/ (new = rows \cup {row} /\ \A e \in rows : e.id < id)
    BY <1>7
<1> HIDE DEF row, new
<1>10. Orderly(new, now)
  <2>1. new \subseteq CacheRow /\ \A e \in new : e.ts <= now
      BY <1>2, <1>8, <1>9 DEF Orderly
  <2>2. \A e \in new : e.id <= id
      BY <1>6, <1>8, <1>9
  <2>3. \A e, f \in new : e.id <= f.id => e.ts <= f.ts
      BY <1>2, <1>6, <1>8, <1>9 DEF Orderly
  <2> QED
      BY <2>1, <2>2, <2>3 DEF Orderly
<1>11. AllOrderly(after, now) /\ after[key] = new /\ \A k \in Key : k # key => after[k] = cache[k]
  <2>1. new \in SUBSET CacheRow
      BY <1>10 DEF Orderly
  <2>2. /\ after \in [Key -> SUBSET CacheRow] /\ after[key] = new
        /\ \A k \in Key : k # key => after[k] = cache[k]
      BY <1>1, <1>2, <1>3, <2>1
  <2> QED
      BY <1>10, <2>2 DEF AllOrderly
<1>12. \A e \in new : e.ts <= ts
    BY <1>6, <1>8, <1>9
<1>13. row \in new
    BY <1>9
<1>14. \A s \in Nat : s <= ts => Covered(new, s, now)
    BY <1>8, <1>13 DEF Covered
<1> QED
    BY <1>11, <1>12, <1>14

(* What leaves what is cached and the sets in hand alone, save that some of *)
(* them may end, leaves the invariant alone.                                *)
LEMMA CacheQuiet ==
    ASSUME BaseInv, CacheInv, file'.cache = file.cache, Cached' \in {Cached, file.cache},
           stored' = stored, "cache" \in raised <=> "cache" \in raised', now' \in Nat, now' >= now,
           \A u \in Setting' : u \in Setting /\ pc'[u] = pc[u] /\ call'[u] = call[u] /\ seen'[u] = seen[u],
           Cached' = Cached \/ Setting' = {}
    PROVE  CacheInv'
<1>0. /\ AllOrderly(file.cache, now) /\ AllOrderly(Cached, now)
      /\ Apart /\ Fresh /\ StoredKnown /\ Kept
    BY DEF CacheInv
<1>1. now \in Nat /\ now <= now' /\ \A t \in Task : seen[t].ts \in Nat
    BY DEF BaseInv, DbInv, Control, Shapes, NoteType
<1>2. AllOrderly(file'.cache, now') /\ AllOrderly(Cached', now')
    BY <1>0, <1>1, TimePasses
<1>3. Apart'
    BY <1>0 DEF Apart
<1>4. Fresh'
    BY <1>0, <1>1 DEF Fresh, Setting
<1>5. StoredKnown'
    BY <1>0, <1>1 DEF StoredKnown
<1>6. Kept'
  <2> SUFFICES ASSUME "cache" \notin raised'
               PROVE  /\ \A k \in Key : stored'[k] # None =>
                             Covered(file'.cache[k], stored'[k], now') /\ Covered(Cached'[k], stored'[k], now')
                      /\ \A t \in Setting' : pc'[t] # "rollback"
                      /\ \A t \in Setting' : pc'[t] = "commit" =>
                             Covered(Cached'[call'[t].key], seen'[t].ts, now')
      BY Zenon DEF Kept, Covered, Key
  <2>1. ASSUME NEW k \in Key, stored[k] # None
        PROVE  Covered(file'.cache[k], stored[k], now') /\ Covered(Cached'[k], stored[k], now')
    <3>1. stored[k] \in Nat
        BY <1>0, <2>1 DEF StoredKnown
    <3>2. Covered(file.cache[k], stored[k], now) /\ Covered(Cached[k], stored[k], now)
        BY <1>0, <2>1 DEF Kept
    <3>3. Covered(file.cache[k], stored[k], now') /\ Covered(Cached[k], stored[k], now')
        BY <1>1, <3>1, <3>2, TimePasses
    <3> QED
        BY <3>3
  <2>2. ASSUME NEW t \in Setting'
        PROVE  /\ pc'[t] # "rollback"
               /\ pc'[t] = "commit" => Covered(Cached'[call'[t].key], seen'[t].ts, now')
    <3>1. t \in Setting /\ t \in Task /\ Cached' = Cached
        BY DEF Setting
    <3>2. pc[t] # "rollback" /\ (pc[t] = "commit" => Covered(Cached[call[t].key], seen[t].ts, now))
        BY <1>0, <3>1 DEF Kept
    <3>3. pc[t] = "commit" => Covered(Cached[call[t].key], seen[t].ts, now')
        BY <1>1, <3>1, <3>2, TimePasses
    <3> QED
        BY <3>1, <3>2, <3>3
  <2> QED
      BY <2>1, <2>2
<1> QED
    BY <1>2, <1>3, <1>4, <1>5, <1>6 DEF CacheInv

(* The steps of a set, by what they leave in the file and in the cache. *)
LEMMA SetStep ==
    ASSUME BaseInv, CacheInv, NEW t \in Task, Step(t), Caching(t)
    PROVE  LET key == call[t].key
               ts == seen[t].ts
           IN  /\ t \in Setting /\ key \in Key /\ now \in Nat /\ ts \in Nat /\ ts <= now
               /\ AllOrderly(file'.cache, now) /\ AllOrderly(Cached', now)
               /\ \A k \in Key : k # key =>
                      file'.cache[k] \cup Cached'[k] \subseteq file.cache[k] \cup Cached[k]
               /\ \A e \in file'.cache[key] \cup Cached'[key] : e.ts <= ts
               /\ pc'[t] # "idle" => call' = call /\ seen'[t].ts \in {ts, now}
               /\ \/ stored' = stored
                  \/ /\ pc'[t] = "idle" /\ stored' = [stored EXCEPT ![key] = ts]
                     /\ "cache" \notin raised =>
                            Covered(file'.cache[key], ts, now) /\ Covered(Cached'[key], ts, now)
               /\ "cache" \notin raised' =>
                      /\ "cache" \notin raised /\ pc'[t] # "rollback"
                      /\ \A k \in Key, s \in Nat :
                             /\ Covered(file.cache[k], s, now) /\ Covered(Cached[k], s, now)
                             /\ k = key => s <= ts
                             => Covered(file'.cache[k], s, now) /\ Covered(Cached'[k], s, now)
                      /\ \A k \in Key, s \in Nat :
                             k # key /\ Covered(Cached[k], s, now) => Covered(Cached'[k], s, now)
                      /\ pc'[t] = "commit" => seen'[t].ts = ts /\ Covered(Cached'[key], ts, now)
<1> DEFINE key == call[t].key
           ts == seen[t].ts
           after == CacheAfter(t, Cached)
           left == Swept(Cached, now)
<1>0. /\ AllOrderly(file.cache, now) /\ AllOrderly(Cached, now)
      /\ Apart /\ Fresh /\ StoredKnown /\ Kept /\ Control /\ Tables
    BY DEF CacheInv, BaseInv, DbInv
<1>1. /\ t \in Setting /\ call[t] \in CacheRequest /\ key \in Key /\ now \in Nat /\ ts \in Nat
      /\ pc'[t] # "idle" => call' = call
    BY <1>0, StepShape, CacheStep, CacheRequestFacts, LeavesOrStays
       DEF Setting, Control, Shapes, NoteType
<1>2. ts <= now /\ \A e \in file.cache[key] \cup Cached[key] : e.ts <= ts
    BY <1>0, <1>1 DEF Fresh
<1>3. /\ AllOrderly(after, now)
      /\ \A k \in Key : k # key => after[k] = Cached[k]
      /\ \A e \in after[key] : e.ts <= ts
      /\ \A s \in Nat : s <= ts => Covered(after[key], s, now)
    BY <1>0, <1>1, <1>2, CacheAfterFacts
<1>4. /\ AllOrderly(left, now)
      /\ \A k \in Key : /\ left[k] \subseteq Cached[k]
                        /\ \A s \in Nat : Covered(Cached[k], s, now) => Covered(left[k], s, now)
    BY <1>0, <1>1, SweptFacts
<1>5. "cache" \notin raised => pc[t] # "rollback" /\ (pc[t] = "commit" => Covered(Cached[key], ts, now))
    BY <1>0, <1>1 DEF Kept
<1>6. CASE /\ pc'[t] \in {"idle", "sweep", "write", "rollback"}
           /\ file'.cache = file.cache /\ Cached' = Cached
           /\ pc'[t] # "idle" => seen' = seen
           /\ pc'[t] = "rollback" => "cache" \in raised'
           /\ stored' = stored /\ raised \subseteq raised'
  <2> HIDE DEF key, ts
  <2>1. pc'[t] # "idle" => seen'[t].ts = ts
      BY <1>6 DEF ts
  <2> QED
      BY <1>0, <1>1, <1>2, <1>6, <2>1 DEF key, ts
<1>7. CASE /\ pc'[t] = "commit"
           /\ file'.cache = file.cache /\ Cached' = after
           /\ seen' = seen /\ stored' = stored /\ raised' = raised
  <2> HIDE DEF after
  <2>1. \A e \in file'.cache[key] \cup Cached'[key] : e.ts <= ts
      BY <1>2, <1>3, <1>7
  <2>2. \A k \in Key, s \in Nat :
            /\ k # key /\ Covered(Cached[k], s, now) => Covered(Cached'[k], s, now)
            /\ s <= ts => Covered(Cached'[key], s, now)
      BY <1>3, <1>7
  <2>3. \A k \in Key : k # key =>
            file'.cache[k] \cup Cached'[k] \subseteq file.cache[k] \cup Cached[k]
      BY <1>3, <1>7
  <2>4. Covered(Cached'[key], ts, now)
      BY <1>1, <2>2
  <2> HIDE DEF key, ts
  <2> QED
      BY <1>0, <1>1, <1>2, <1>3, <1>7, <2>1, <2>2, <2>3, <2>4 DEF key, ts
<1>8. CASE /\ pc[t] = "commit" /\ pc'[t] = "idle"
           /\ file'.cache = Cached /\ Cached' = Cached
           /\ stored' = [stored EXCEPT ![key] = ts] /\ raised' = raised
    BY <1>0, <1>1, <1>2, <1>5, <1>8
<1>9. CASE /\ pc[t] = "rollback" /\ pc'[t] = "idle"
           /\ file'.cache = file.cache /\ Cached' = file.cache
           /\ stored' = stored /\ raised' = raised
    BY <1>0, <1>1, <1>2, <1>5, <1>9
<1>10. CASE /\ pc'[t] \in {"checkpoint", "begin"}
            /\ file'.cache = Cached /\ Cached' = Cached
            /\ seen' = seen \/ seen' = [seen EXCEPT ![t] = Note(now, 0, 0)]
            /\ stored' = stored /\ raised' = raised
  <2>1. seen'[t].ts \in {ts, now}
      BY <1>0, <1>10 DEF Control, Shapes, Note
  <2> QED
      BY <1>0, <1>1, <1>2, <1>10, <2>1
<1>11. CASE /\ pc'[t] = "swept"
            /\ file'.cache = file.cache /\ Cached' = left
            /\ seen' = seen /\ stored' = stored /\ raised' = raised
  <2> HIDE DEF left
  <2>1. \A k \in Key : file'.cache[k] \cup Cached'[k] \subseteq file.cache[k] \cup Cached[k]
      BY <1>4, <1>11
  <2>2. \A k \in Key, s \in Nat : Covered(Cached[k], s, now) => Covered(Cached'[k], s, now)
      BY <1>4, <1>11
  <2>3. \A e \in file'.cache[key] \cup Cached'[key] : e.ts <= ts
      BY <1>1, <1>2, <2>1
  <2> QED
      BY <1>0, <1>1, <1>2, <1>4, <1>11, <2>1, <2>2, <2>3
<1> QED
    BY <1>6, <1>7, <1>8, <1>9, <1>10, <1>11, CacheStep

(* A step of a set. *)
LEMMA CacheWork ==
    ASSUME BaseInv, CacheInv, NEW t \in Task, Step(t)
    PROVE  CacheInv'
<1>0. /\ Control /\ Tables /\ Shapes /\ Apart /\ Fresh /\ StoredKnown /\ Kept
    BY DEF BaseInv, DbInv, Control, CacheInv
<1>1. \A u \in Task : u # t => pc'[u] = pc[u] /\ call'[u] = call[u] /\ seen'[u] = seen[u]
    BY <1>0, StepShape
<1>2. now' = now /\ now \in Nat
    BY <1>0 DEF Step, Shapes
<1>3. CASE ~Caching(t)
  <2>1. \A u \in Setting' : u \in Setting /\ pc'[u] = pc[u] /\ call'[u] = call[u] /\ seen'[u] = seen[u]
      BY <1>1, <1>3 DEF Setting, Caching
  <2>2. "cache" \in inTx <=> "cache" \in inTx'
      BY <1>3, Strangers
  <2>3. Cached' = Cached
      BY <1>3, <2>2, Strangers DEF Cached, View
  <2> QED
      BY <1>2, <1>3, <2>1, <2>3, Strangers, CacheQuiet
<1>4. CASE Caching(t)
  <2> DEFINE key == call[t].key
             ts == seen[t].ts
  <2>1. /\ t \in Setting /\ key \in Key /\ ts \in Nat /\ ts <= now
        /\ AllOrderly(file'.cache, now) /\ AllOrderly(Cached', now)
        /\ \A k \in Key : k # key =>
               file'.cache[k] \cup Cached'[k] \subseteq file.cache[k] \cup Cached[k]
        /\ \A e \in file'.cache[key] \cup Cached'[key] : e.ts <= ts
        /\ pc'[t] # "idle" => call' = call /\ seen'[t].ts \in {ts, now}
      BY <1>4, SetStep
  <2>2. \/ stored' = stored
        \/ /\ pc'[t] = "idle" /\ stored' = [stored EXCEPT ![key] = ts]
           /\ "cache" \notin raised =>
                  Covered(file'.cache[key], ts, now) /\ Covered(Cached'[key], ts, now)
      BY <1>4, SetStep
  <2>3. "cache" \notin raised' =>
            /\ "cache" \notin raised /\ pc'[t] # "rollback"
            /\ \A k \in Key, s \in Nat :
                   /\ Covered(file.cache[k], s, now) /\ Covered(Cached[k], s, now)
                   /\ k = key => s <= ts
                   => Covered(file'.cache[k], s, now) /\ Covered(Cached'[k], s, now)
            /\ \A k \in Key, s \in Nat :
                   k # key /\ Covered(Cached[k], s, now) => Covered(Cached'[k], s, now)
            /\ pc'[t] = "commit" => seen'[t].ts = ts /\ Covered(Cached'[key], ts, now)
      BY <1>4, SetStep
  <2>4. \A u \in Setting' : /\ u \in Setting /\ u \in Task /\ pc'[u] # "idle"
                            /\ call'[u].key = call[u].key /\ call[u].key \in Key
                            /\ u # t => pc'[u] = pc[u] /\ seen'[u] = seen[u] /\ call[u].key # key
    <3> SUFFICES ASSUME NEW u \in Setting'
                 PROVE  /\ u \in Setting /\ u \in Task /\ pc'[u] # "idle"
                        /\ call'[u].key = call[u].key /\ call[u].key \in Key
                        /\ u # t => pc'[u] = pc[u] /\ seen'[u] = seen[u] /\ call[u].key # key
        OBVIOUS
    <3>1. u \in Task /\ pc'[u] # "idle" /\ Caching(u)
        BY DEF Setting, Caching
    <3>2. u \in Setting
        BY <1>1, <2>1, <3>1 DEF Setting
    <3>3. call[u] \in CacheRequest
        BY <3>1, <3>2 DEF BaseInv, Requests, Setting, Portfolio, Journaling, Caching
    <3> QED
        BY <1>0, <1>1, <2>1, <3>1, <3>2, <3>3, CacheRequestFacts DEF Apart
  <2>5. \A k \in Key : stored'[k] = stored[k] \/ (k = key /\ stored'[k] = ts)
      BY <1>0, <2>2 DEF StoredKnown
  <2>6. StoredKnown'
      BY <1>0, <1>2, <2>1, <2>2 DEF StoredKnown
  <2>7. Apart'
      BY <1>0, <2>4 DEF Apart
  <2>8. Fresh'
    <3> SUFFICES ASSUME NEW u \in Setting'
                 PROVE  /\ seen'[u].ts <= now'
                        /\ \A e \in file'.cache[call'[u].key] \cup Cached'[call'[u].key] :
                               e.ts <= seen'[u].ts
                        /\ stored'[call'[u].key] # None => stored'[call'[u].key] <= seen'[u].ts
        BY Zenon DEF Fresh
    <3>1. CASE u = t
      <4>1. seen'[t].ts \in {ts, now} /\ call'[t].key = key
          BY <2>1, <2>4, <3>1
      <4>2. seen'[t].ts \in Nat /\ seen'[t].ts <= now /\ ts <= seen'[t].ts
          BY <1>2, <2>1, <4>1
      <4>3. \A e \in file'.cache[key] \cup Cached'[key] : e.ts \in Nat
          BY <2>1 DEF AllOrderly, CacheRow
      <4>4. stored'[key] # None => stored'[key] \in Nat /\ stored'[key] <= ts
          BY <1>0, <2>1, <2>5, <2>6 DEF Fresh, StoredKnown
      <4> QED
          BY <1>2, <2>1, <3>1, <4>1, <4>2, <4>3, <4>4
    <3>2. CASE u # t
      <4>1. /\ u \in Setting /\ seen'[u] = seen[u] /\ call'[u].key = call[u].key
            /\ call[u].key # key /\ call[u].key \in Key
          BY <2>4, <3>2
      <4> QED
          BY <1>0, <1>2, <2>1, <2>5, <4>1 DEF Fresh
    <3> QED
        BY <3>1, <3>2
  <2>9. Kept'
    <3> SUFFICES ASSUME "cache" \notin raised'
                 PROVE  /\ \A k \in Key : stored'[k] # None =>
                               /\ Covered(file'.cache[k], stored'[k], now)
                               /\ Covered(Cached'[k], stored'[k], now)
                        /\ \A u \in Setting' : pc'[u] # "rollback"
                        /\ \A u \in Setting' : pc'[u] = "commit" =>
                               Covered(Cached'[call'[u].key], seen'[u].ts, now)
        BY <1>2, Zenon DEF Kept, Covered, Key
    <3>0. "cache" \notin raised
        BY <2>3
    <3>1. ASSUME NEW k \in Key, stored'[k] # None
          PROVE  Covered(file'.cache[k], stored'[k], now) /\ Covered(Cached'[k], stored'[k], now)
      <4>1. CASE stored' = stored \/ k # key
        <5>1. stored'[k] = stored[k]
            BY <2>5, <4>1
        <5>2. stored[k] \in Nat
            BY <1>0, <3>1, <5>1 DEF StoredKnown
        <5>3. Covered(file.cache[k], stored[k], now) /\ Covered(Cached[k], stored[k], now)
            BY <1>0, <3>0, <3>1, <5>1 DEF Kept
        <5>4. k = key => stored[k] <= ts
            BY <1>0, <2>1, <3>1, <5>1 DEF Fresh
        <5> QED
            BY <2>3, <5>1, <5>2, <5>3, <5>4
      <4>2. CASE stored' # stored /\ k = key
        <5>1. stored'[key] = ts
            BY <1>0, <2>1, <2>2, <4>2 DEF StoredKnown
        <5> QED
            BY <2>2, <3>0, <4>2, <5>1
      <4> QED
          BY <4>1, <4>2
    <3>2. ASSUME NEW u \in Setting'
          PROVE  /\ pc'[u] # "rollback"
                 /\ pc'[u] = "commit" => Covered(Cached'[call'[u].key], seen'[u].ts, now)
      <4>1. CASE u = t
          BY <2>3, <2>4, <4>1
      <4>2. CASE u # t
        <5>1. /\ u \in Setting /\ u \in Task /\ pc'[u] = pc[u] /\ seen'[u] = seen[u]
              /\ call'[u].key = call[u].key /\ call[u].key # key /\ call[u].key \in Key
            BY <2>4, <4>2
        <5>2. seen[u].ts \in Nat
            BY <1>0, <5>1 DEF Shapes, NoteType
        <5>3. pc[u] # "rollback" /\ (pc[u] = "commit" => Covered(Cached[call[u].key], seen[u].ts, now))
            BY <1>0, <3>0, <5>1 DEF Kept
        <5> QED
            BY <2>3, <5>1, <5>2, <5>3
      <4> QED
          BY <4>1, <4>2
    <3> QED
        BY <3>1, <3>2
  <2> QED
      BY <1>2, <2>1, <2>6, <2>7, <2>8, <2>9 DEF CacheInv
<1> QED
    BY <1>3, <1>4

(* A set that comes is the latest and the only one of its key. *)
LEMMA CacheComes ==
    ASSUME BaseInv, CacheInv, NEW t \in Task, Ask(t)
    PROVE  CacheInv'
<1>1. PICK r : AskSnapshot(t, r) \/ AskJournal(t, r) \/ AskCache(t, r)
    BY DEF Ask
<1>2. /\ UNCHANGED <<file, work, inTx, raised, stored, now>> /\ now \in Nat /\ call'[t] = r
      /\ \A u \in Task : u # t => pc'[u] = pc[u] /\ call'[u] = call[u] /\ seen'[u] = seen[u]
      /\ Journaling(t) \/ Caching(t) =>
             pc'[t] \in {"begin", "connect"} /\ seen'[t] = Note(now, 0, 0)
    BY <1>1, Comes DEF BaseInv, DbInv, Control, Shapes
<1>3. Cached' = Cached
    BY <1>2 DEF Cached, View
<1>4. CASE ~Caching(t)
  <2>1. \A u \in Setting' : u \in Setting /\ pc'[u] = pc[u] /\ call'[u] = call[u] /\ seen'[u] = seen[u]
      BY <1>2, <1>4 DEF Setting, Caching
  <2> QED
      BY <1>2, <1>3, <2>1, CacheQuiet
<1>5. CASE Caching(t)
  <2>0. /\ AllOrderly(file.cache, now) /\ AllOrderly(Cached, now)
        /\ Apart /\ Fresh /\ StoredKnown /\ Kept
      BY DEF CacheInv
  <2>1. seen'[t].ts = now /\ pc'[t] \in {"begin", "connect"}
      BY <1>2, <1>5 DEF Note
  <2>2. r \in CacheRequest /\ \A u \in Task : Op(u) = "set" => call[u].key # r.key
      BY <1>1, <1>5 DEF AskCache, AskSnapshot, AskJournal, Caching
  <2>3. r.key \in Key
      BY <2>2 DEF CacheRequest
  <2>4. \A u \in Setting' : u # t =>
            /\ u \in Setting /\ u \in Task /\ pc'[u] = pc[u] /\ call'[u] = call[u]
            /\ seen'[u] = seen[u] /\ call[u].key # r.key
    <3> SUFFICES ASSUME NEW u \in Setting', u # t
                 PROVE  /\ u \in Setting /\ u \in Task /\ pc'[u] = pc[u] /\ call'[u] = call[u]
                        /\ seen'[u] = seen[u] /\ call[u].key # r.key
        OBVIOUS
    <3>1. /\ u \in Task /\ u \in Setting /\ Caching(u) /\ pc[u] # "idle"
          /\ pc'[u] = pc[u] /\ call'[u] = call[u] /\ seen'[u] = seen[u]
        BY <1>2 DEF Setting, Caching
    <3>2. call[u] \in CacheRequest
        BY <3>1 DEF BaseInv, Requests, Portfolio, Journaling, Caching
    <3> QED
        BY <2>2, <3>1, <3>2, CacheRequestFacts
  <2>5. AllOrderly(file'.cache, now') /\ AllOrderly(Cached', now') /\ StoredKnown'
      BY <1>2, <1>3, <2>0 DEF StoredKnown
  <2>6. Apart'
      BY <1>2, <2>0, <2>4 DEF Apart
  <2>7. Fresh'
    <3>1. \A e \in file.cache[r.key] \cup Cached[r.key] : e.ts <= now
        BY <2>0, <2>3 DEF AllOrderly, Orderly
    <3>2. stored[r.key] # None => stored[r.key] <= now
        BY <2>0, <2>3 DEF StoredKnown
    <3> QED
        BY <1>2, <1>3, <2>0, <2>1, <2>4, <3>1, <3>2 DEF Fresh
  <2>8. Kept'
    <3> SUFFICES ASSUME "cache" \notin raised'
                 PROVE  /\ \A k \in Key : stored'[k] # None =>
                               /\ Covered(file'.cache[k], stored'[k], now)
                               /\ Covered(Cached'[k], stored'[k], now)
                        /\ \A u \in Setting' : pc'[u] # "rollback"
                        /\ \A u \in Setting' : pc'[u] = "commit" =>
                               Covered(Cached'[call'[u].key], seen'[u].ts, now)
        BY <1>2, Zenon DEF Kept, Covered, Key
    <3> QED
        BY <1>2, <1>3, <2>0, <2>1, <2>4 DEF Kept
  <2> QED
      BY <2>5, <2>6, <2>7, <2>8 DEF CacheInv
<1> QED
    BY <1>4, <1>5

LEMMA CacheNext == BaseInv /\ CacheInv /\ [Next]_vars => CacheInv'
<1> SUFFICES ASSUME BaseInv, CacheInv, [Next]_vars
             PROVE  CacheInv'
    OBVIOUS
<1>1. now \in Nat
    BY DEF BaseInv, DbInv, Control, Shapes
<1>2. CASE Start \/ Crash
  <2>1. Setting' = {}
      BY <1>2, StartsAndEnds DEF Setting
  <2> QED
      BY <1>1, <1>2, <2>1, StartsAndEnds, CacheQuiet
<1>3. CASE Tick \/ UNCHANGED vars
  <2>1. \A u \in Setting' : u \in Setting /\ pc'[u] = pc[u] /\ call'[u] = call[u] /\ seen'[u] = seen[u]
      BY <1>3, Rests DEF Setting, Caching
  <2>2. Cached' = Cached
      BY <1>3, Rests DEF Cached, View
  <2> QED
      BY <1>3, <2>1, <2>2, Rests, CacheQuiet
<1>4. CASE \E t \in Task : Ask(t) \/ Step(t)
    BY <1>4, CacheWork, CacheComes
<1> QED
    BY <1>2, <1>3, <1>4 DEF Next

LEMMA InitCache == Init => CacheInv
<1> SUFFICES ASSUME Init
             PROVE  CacheInv
    OBVIOUS
<1>1. /\ file.cache = [k \in Key |-> {}] /\ Cached = [k \in Key |-> {}]
      /\ stored = [k \in Key |-> None] /\ Setting = {}
    BY DEF Init, NoTables, Cached, View, Setting
<1>2. Orderly({}, now)
    BY DEF Orderly
<1>3. AllOrderly(file.cache, now) /\ AllOrderly(Cached, now)
    BY <1>1, <1>2 DEF AllOrderly
<1>4. Apart /\ Fresh /\ StoredKnown /\ Kept
    BY <1>1 DEF Apart, Fresh, StoredKnown, Kept
<1> QED
    BY <1>3, <1>4 DEF CacheInv

(* Of what is alive, the row with the highest id is the newest. *)
LEMMA NewestIsServed ==
    ASSUME BaseInv, CacheInv
    PROVE  NewestServed
<1> SUFFICES ASSUME "cache" \notin raised, NEW k \in Key, stored[k] # None, now - stored[k] < TTL
             PROVE  Get(file.cache, k, now) # None /\ Get(file.cache, k, now).ts >= stored[k]
    BY DEF NewestServed
<1> DEFINE rows == file.cache[k]
           alive == {e \in rows : Alive(e, now)}
<1>1. /\ now \in Nat /\ stored[k] \in Nat /\ rows \subseteq CacheRow
      /\ \E b \in Nat : \A e \in rows : e.id <= b
      /\ \A e, f \in rows : e.id <= f.id => e.ts <= f.ts
    BY DEF BaseInv, DbInv, Control, Shapes, CacheInv, StoredKnown, AllOrderly, Orderly
<1>2. PICK e \in rows : e.ts >= stored[k]
    BY DEF CacheInv, Kept, Covered
<1>3. e.ts \in Nat
    BY <1>1 DEF CacheRow
<1>4. e \in alive
    BY <1>1, <1>2, <1>3, CacheAssumption DEF Alive
<1>5. alive \in SUBSET CacheRow /\ \E b \in Nat : \A f \in alive : f.id <= b
    BY <1>1
<1>6. Newest(alive) \in alive /\ e.id <= Newest(alive).id
    BY <1>4, <1>5, NewestFacts
<1>7. Newest(alive) \in CacheRow /\ e.ts <= Newest(alive).ts
    BY <1>1, <1>2, <1>6
<1>8. Get(file.cache, k, now) = Newest(alive)
    BY <1>4 DEF Get
<1> HIDE DEF alive
<1>9. Newest(alive).ts \in Nat /\ Newest(alive) # None
    BY <1>7, CacheAssumption DEF CacheRow
<1> QED
    BY <1>1, <1>2, <1>3, <1>7, <1>8, <1>9

(* What a set has stored, or something newer, is served until it expires, as *)
(* long as no statement of the cache raises: over sweeps, over other sets,  *)
(* over the commits one set makes of another's writes and over crashes.     *)
THEOREM StoredIsServed == Spec => []NewestServed
<1>1. BaseInv /\ CacheInv /\ [Next]_vars => (BaseInv /\ CacheInv)'
    BY BaseNext, CacheNext
<1> QED
    BY <1>1, NewestIsServed, InitJournal, InitCache, PTL DEF Spec

(***************************************************************************)
(* Types.  The figures of the snapshots are reports, or the 0 that stands   *)
(* for no report yet; the rest follows from what is known of the parts.     *)
(***************************************************************************)
SnapType == [cash : Amount, peak : Amount]

Figures ==
    /\ file.snaps \in Seq(SnapType) /\ work.snaps \in Seq(SnapType) /\ before \in Seq(SnapType)
    /\ \A t \in Task : seen[t].high \in Amount \cup {0}

Connected ==
    /\ up \in BOOLEAN /\ swept \in BOOLEAN /\ asked \in Nat
    /\ inTx \subseteq Conn /\ stuck \subseteq Conn /\ raised \subseteq Conn

(* A row a snapshot call adds or patches holds what was reported. *)
LEMMA SnapsAfterFacts ==
    ASSUME NEW t, NEW rows \in Seq(SnapType), seen[t].high \in Amount \cup {0},
           seen[t].id \in Nat, call[t].cash \in Amount
    PROVE  SnapsAfter(t, rows) \in Seq(SnapType)
<1> DEFINE cash == call[t].cash
           high == seen[t].high
           id == seen[t].id
           peak == Greater(high, cash)
<1>1. peak \in Amount
  <2>1. cash \in Nat /\ (high \in Amount \/ high = 0)
      BY AmountAssumption
  <2> HIDE DEF cash, high
  <2>2. CASE high = 0
    <3>1. peak = cash
        BY <2>1, <2>2 DEF Greater
    <3> QED
        BY <3>1 DEF cash
  <2>3. CASE high \in Amount
      BY <2>3 DEF Greater, cash
  <2> QED
      BY <2>1, <2>2, <2>3
<1>2. Row(cash, cash) \in SnapType /\ Row(cash, peak) \in SnapType
    BY <1>1 DEF Row, SnapType
<1>3. /\ Append(rows, Row(cash, cash)) \in Seq(SnapType)
      /\ Append(rows, Row(cash, peak)) \in Seq(SnapType)
    BY <1>2, AppendProperties
<1>4. id \in DOMAIN rows => [rows EXCEPT ![id] = Row(cash, peak)] \in Seq(SnapType)
    BY <1>2, ExceptSeq
<1>5. Updated(t, rows) \in {Append(rows, Row(cash, cash)), rows}
          \/ (id \in DOMAIN rows /\ Updated(t, rows) = [rows EXCEPT ![id] = Row(cash, peak)])
    BY DEF Updated
<1>6. Valued(t, rows) = Append(rows, Row(cash, peak))
    BY DEF Valued
<1> HIDE DEF cash, high, id, peak
<1>7. Updated(t, rows) \in Seq(SnapType) /\ Valued(t, rows) \in Seq(SnapType)
    BY <1>3, <1>4, <1>5, <1>6
<1>8. SnapsAfter(t, rows) \in {Updated(t, rows), Valued(t, rows), rows}
    BY Zenon DEF SnapsAfter
<1> QED
    BY <1>7, <1>8

LEMMA FiguresStep ==
    ASSUME BaseInv, Figures, NEW t \in Task, Step(t)
    PROVE  Figures'
<1>0. Control /\ Tables /\ Locks /\ Shapes
    BY DEF BaseInv, DbInv, Control
<1>1. file'.snaps \in Seq(SnapType) /\ work'.snaps \in Seq(SnapType)
  <2>1. CASE ~Portfolio(t)
      BY <1>0, <2>1, Bystander DEF Figures
  <2>2. CASE Portfolio(t)
    <3>1. call[t] \in SnapshotRequest
        BY <1>0, <2>2, SnapshotStep, InHand DEF Control
    <3>2. call[t].cash \in Amount /\ seen[t].id \in Nat
        BY <1>0, <3>1 DEF SnapshotRequest, Shapes, NoteType
    <3>3. SnapsAfter(t, work.snaps) \in Seq(SnapType)
        BY <3>2, SnapsAfterFacts DEF Figures
    <3> QED
        BY <1>0, <2>2, <3>3, SnapshotStep DEF Figures
  <2> QED
      BY <2>1, <2>2
<1>2. \A u \in Task : seen'[u].high \in Amount \cup {0}
  <2>1. \A u \in Task : u # t => seen'[u] = seen[u]
      BY <1>0, StepShape
  <2>2. CASE seen' = seen
      BY <2>2 DEF Figures
  <2>3. ASSUME NEW ts, NEW id, NEW high, seen' = [seen EXCEPT ![t] = Note(ts, id, high)],
               high \in Amount \cup {0}
        PROVE  \A u \in Task : seen'[u].high \in Amount \cup {0}
      BY <1>0, <2>1, <2>3 DEF Shapes, Note, Figures
  <2>4. CASE Leave(t)
      BY <2>3, <2>4 DEF Leave, Blank
  <2>5. CASE ReadLatest(t)
    <3> DEFINE rows == View(ConnOf[t]).snaps
               high == IF rows = <<>> THEN 0 ELSE rows[Len(rows)].peak
    <3>1. rows \in Seq(SnapType)
        BY DEF View, Figures
    <3>2. high \in Amount \cup {0}
      <4> HIDE DEF rows
      <4>1. CASE rows # <<>>
        <5>1. rows[Len(rows)] \in SnapType
            BY <3>1, <4>1
        <5> QED
            BY <4>1, <5>1 DEF SnapType
      <4> QED
          BY <4>1
    <3>3. seen' = [seen EXCEPT ![t] = Note(0, Len(rows), high)]
        BY <2>5 DEF ReadLatest
    <3> HIDE DEF rows, high
    <3> QED
        BY <2>3, <3>2, <3>3
  <2>6. CASE ReadHighest(t)
    <3> DEFINE rows == View(ConnOf[t]).snaps
    <3>1. RowsOK(rows) /\ rows \in Seq(SnapType)
        BY <1>0 DEF View, Tables, Figures
    <3>2. \A i \in DOMAIN rows : rows[i].cash \in Amount
      <4>1. \A i \in DOMAIN rows : rows[i] \in SnapType
          BY <3>1
      <4> QED
          BY <4>1 DEF SnapType
    <3>3. seen' = [seen EXCEPT ![t] = Note(0, 0, HighestTotal(rows))]
        BY <2>6 DEF ReadHighest
    <3> HIDE DEF rows
    <3>4. HighestTotal(rows) \in Amount \cup {0}
        BY <3>1, <3>2, TotalBelowPeak
    <3> QED
        BY <2>3, <3>3, <3>4
  <2>7. CASE SweepEnds(t, now)
      BY <2>3, <2>7 DEF SweepEnds
  <2>8. Leave(t) \/ ReadLatest(t) \/ ReadHighest(t) \/ SweepEnds(t, now) \/ seen' = seen
      BY DEF Step, Return, Commit, Fail, BeginRaises, ValueRaises, Rollback, CheckpointRaises,
             SweepRaises, GoOn, Begin, Write, WriteRaises, Schema, Checkpoint, Sweep
  <2> QED
      BY <2>2, <2>4, <2>5, <2>6, <2>7, <2>8
<1>3. before' \in Seq(SnapType)
    BY EmptySeq DEF Step, Watch, Figures
<1> QED
    BY <1>1, <1>2, <1>3 DEF Figures

LEMMA ConnectedStep ==
    ASSUME BaseInv, Connected, NEW t \in Task, Step(t)
    PROVE  Connected'
<1>1. ConnOf[t] \in Conn
    BY TaskAssumption
<1>2. up' /\ swept' = swept /\ asked' = asked
    BY StepShape DEF Step, BaseInv, DbInv
<1>3. inTx' \subseteq inTx \cup {ConnOf[t]} /\ stuck' \subseteq stuck \cup {ConnOf[t]}
      /\ raised' \subseteq raised \cup {ConnOf[t]}
  <2>1. CASE Return(t)
      BY <2>1 DEF Return, Commit, EndTransaction
  <2>2. CASE Fail(t)
      BY <2>2 DEF Fail, BeginRaises, ValueRaises, Rollback, CheckpointRaises, SweepRaises
  <2>3. CASE ReadLatest(t) \/ ReadHighest(t) \/ Begin(t) \/ WriteRaises(t) \/ Checkpoint(t)
      BY <2>3 DEF ReadLatest, ReadHighest, Begin, WriteRaises, Checkpoint
  <2>4. CASE Write(t, After(t, View(ConnOf[t]))) \/ Sweep(t, now)
      BY <2>4 DEF Write, Sweep
  <2>5. CASE Schema(t) \/ SweepEnds(t, now)
      BY <2>5 DEF Schema, SweepEnds, EndTransaction
  <2> QED
      BY <2>1, <2>2, <2>3, <2>4, <2>5 DEF Step, GoOn
<1> QED
    BY <1>1, <1>2, <1>3 DEF Connected

LEMMA TypesNext == BaseInv /\ Figures /\ Connected /\ [Next]_vars => (Figures /\ Connected)'
<1> SUFFICES ASSUME BaseInv, Figures, Connected, [Next]_vars
             PROVE  Figures' /\ Connected'
    OBVIOUS
<1>0. Shapes
    BY DEF BaseInv, DbInv, Control
<1>1. CASE Start
  <2>1. file' = [file EXCEPT !.snaps = Append(@, Row(InitialCash, InitialCash))] /\ work' = file'
      BY <1>1 DEF Start, InitializeCash
  <2>2. Row(InitialCash, InitialCash) \in SnapType
      BY AmountAssumption DEF Row, SnapType
  <2>3. Append(file.snaps, Row(InitialCash, InitialCash)) \in Seq(SnapType)
      BY <2>2, AppendProperties DEF Figures
  <2>4. file'.snaps \in Seq(SnapType)
      BY <1>0, <2>1, <2>3 DEF Shapes, TableNames
  <2> QED
      BY <1>1, <2>1, <2>4 DEF Start, InitializeCash, Count, Figures, Connected
<1>2. CASE Crash
    BY <1>2, EmptySeq DEF Crash, Kill, Figures, Connected, Blank, Note
<1>3. CASE Tick \/ UNCHANGED vars
    BY <1>3 DEF Tick, vars, sqliteVars, Figures, Connected
<1>4. ASSUME NEW t \in Task, Ask(t)
      PROVE  Figures' /\ Connected'
  <2>1. PICK r : AskSnapshot(t, r) \/ AskJournal(t, r) \/ AskCache(t, r)
      BY <1>4 DEF Ask
  <2>2. /\ \E ts : seen' = [seen EXCEPT ![t] = Note(ts, 0, 0)]
        /\ UNCHANGED <<up, file, work, inTx, stuck, raised>> /\ swept' \in {swept, TRUE}
        /\ asked' = asked + 1
      BY <2>1 DEF AskSnapshot, AskJournal, AskCache, Enter, Count, Blank
  <2>3. \A u \in Task : seen'[u].high \in Amount \cup {0}
      BY <1>0, <2>2 DEF Shapes, Note, Figures
  <2>4. swept' \in BOOLEAN
      BY <2>2, Zenon DEF Connected
  <2>5. asked' \in Nat
      BY <2>2 DEF Connected
  <2>6. up' \in BOOLEAN /\ inTx' \subseteq Conn /\ stuck' \subseteq Conn /\ raised' \subseteq Conn
      BY <2>2 DEF Connected
  <2>7. file'.snaps \in Seq(SnapType) /\ work'.snaps \in Seq(SnapType)
      BY <2>2 DEF Figures
  <2>9. before' \in Seq(SnapType)
      BY <2>1, EmptySeq DEF AskSnapshot, AskJournal, AskCache, Watch, Figures
  <2>8. Connected'
      BY <2>4, <2>5, <2>6, Zenon DEF Connected
  <2> QED
      BY <2>3, <2>7, <2>8, <2>9 DEF Figures
<1> QED
    BY <1>1, <1>2, <1>3, <1>4, FiguresStep, ConnectedStep DEF Next

LEMMA InitTypes == Init => Figures /\ Connected
<1> SUFFICES ASSUME Init
             PROVE  Figures /\ Connected
    OBVIOUS
<1>1. file.snaps = <<>> /\ work.snaps = <<>> /\ before = <<>>
    BY DEF Init, NoTables
<1>2. \A t \in Task : seen[t].high = 0
    BY DEF Init, Blank, Note
<1>3. Connected
    BY DEF Init, Connected
<1> QED
    BY <1>1, <1>2, <1>3 DEF Figures

(* Every variable stays of its type: the reports, the rows of the three     *)
(* tables in the file and in the open transaction, and the notes of a call. *)
THEOREM DatabaseTypes == Spec => []DatabaseTypeOK
<1>1. BaseInv /\ CacheInv /\ Figures /\ Connected /\ [Next]_vars
          => (BaseInv /\ CacheInv /\ Figures /\ Connected)'
    BY BaseNext, CacheNext, TypesNext
<1>2. BaseInv /\ CacheInv /\ Figures /\ Connected => DatabaseTypeOK
  <2> SUFFICES ASSUME BaseInv, CacheInv, Figures, Connected
               PROVE  DatabaseTypeOK
      OBVIOUS
  <2>1. Shapes /\ TradesTyped /\ Separate
      BY DEF BaseInv, DbInv, Control
  <2>2. file.cache \in [Key -> SUBSET CacheRow] /\ work.cache \in [Key -> SUBSET CacheRow]
      BY <2>1 DEF CacheInv, AllOrderly, Separate, Cached, View
  <2>3. seen \in [Task -> [ts : Nat, id : Nat, high : Amount \cup {0}]]
    <3> SUFFICES ASSUME NEW t \in Task
                 PROVE  seen[t] \in [ts : Nat, id : Nat, high : Amount \cup {0}]
        BY <2>1 DEF Shapes
    <3> QED
        BY <2>1 DEF Shapes, NoteType, Figures
  <2>4. stored \in [Key -> Nat \cup {None}]
      BY DEF CacheInv, StoredKnown
  <2> QED
      BY <2>1, <2>2, <2>3, <2>4
         DEF DatabaseTypeOK, Shapes, TradesTyped, EntryType, Figures, SnapType, Connected, CacheRow
<1> QED
    BY <1>1, <1>2, InitJournal, InitCache, InitTypes, PTL DEF Spec

(***************************************************************************)
(* The refinement.  What the account sees of a state: the rows of the file, *)
(* the cash in hand, the calls whose statement is done, the overlap.        *)
(***************************************************************************)
InHandCash == [t \in Writers |-> IF IsSnapshot(t) THEN call[t].cash ELSE None]
WrittenCalls == {t \in SnapshotsInHand : pc[t] = "commit"}

(* the calls in hand are the holders of the account *)
LEMMA HoldersInHand ==
    ASSUME Calls
    PROVE  /\ Account!Holders = SnapshotsInHand /\ SnapshotsInHand \subseteq Writers
           /\ \A t \in Writers : t \in SnapshotsInHand <=> InHandCash[t] # None
<1>1. \A t \in SnapshotsInHand : t \in Writers /\ call[t].cash \in Nat /\ IsSnapshot(t)
    BY InHand DEF SnapshotsInHand, Writers, Portfolio
<1>2. \A t \in Writers : IsSnapshot(t) => t \in SnapshotsInHand
    BY DEF SnapshotsInHand, Writers
<1>3. None \notin Nat
    BY TaskAssumption
<1>4. \A t \in Writers : t \in SnapshotsInHand <=> InHandCash[t] # None
    BY <1>1, <1>2, <1>3 DEF InHandCash
<1> QED
    BY <1>1, <1>4 DEF Account!Holders, InHandCash

(* who holds what the account sees, after a step as before it *)
LEMMA HoldersInHandNext ==
    ASSUME Calls'
    PROVE  (Account!Holders)' = SnapshotsInHand'
<1>1. \A t \in SnapshotsInHand' : t \in Writers /\ call'[t].cash \in Nat
  <2>1. \A t \in SnapshotsInHand' : t \in Writers /\ call'[t] \in SnapshotRequest
      BY InHandNext DEF SnapshotsInHand, Writers, Portfolio, Calls
  <2> QED
      BY <2>1, AmountAssumption DEF SnapshotRequest
<1>2. \A t \in Writers : IsSnapshot(t)' <=> t \in SnapshotsInHand'
    BY DEF SnapshotsInHand, Writers
<1>3. None \notin Nat
    BY TaskAssumption
<1> QED
    BY <1>1, <1>2, <1>3 DEF Account!Holders

(* the history of the overlap is the account's *)
LEMMA TogetherRefines ==
    ASSUME Calls, Calls', Watch
    PROVE  Account!Together
<1>1. (Account!Holders)' = SnapshotsInHand'
    BY HoldersInHandNext
<1>2. HighestPeak(before)' = IF ~overlap' THEN 0 ELSE IF overlap THEN HighestPeak(before)
                                                     ELSE HighestPeak(file.snaps)
  <2>1. HighestPeak(<<>>) = 0
      BY DEF HighestPeak
  <2> QED
      BY <2>1 DEF Watch
<1> QED
    BY <1>1, <1>2 DEF Watch, Account!Together

(* what the account sees that stays is a stutter of it *)
LEMMA Unmoved ==
    ASSUME file'.snaps = file.snaps, overlap' = overlap, before' = before,
           InHandCash' = InHandCash, WrittenCalls' = WrittenCalls
    PROVE  UNCHANGED Account!vars
<1>1. /\ Balance(file.snaps)' = Balance(file.snaps) /\ HighestPeak(file.snaps)' = HighestPeak(file.snaps)
      /\ HighestPeak(before)' = HighestPeak(before)
    OBVIOUS
<1> QED
    BY <1>1 DEF Account!vars, InHandCash, WrittenCalls

(* A step of a snapshot call that does not end it changes but its own place. *)
LEMMA GoesOn ==
    ASSUME DbInv, NEW x \in Task, Step(x), Portfolio(x), pc'[x] # "idle", call' = call
    PROVE  /\ overlap' = overlap /\ before' = before /\ InHandCash' = InHandCash
           /\ WrittenCalls' = (WrittenCalls \ {x}) \cup (IF pc'[x] = "commit" THEN {x} ELSE {})
<1> USE DEF DbInv
<1>1. /\ Calls /\ Calls' /\ IsSnapshot(x)
      /\ \A u \in Task : u # x => pc'[u] = pc[u] /\ call'[u] = call[u]
    BY StepShape, SnapshotStep DEF Control
<1>2. \A u \in Task : IsSnapshot(u)' <=> IsSnapshot(u)
    BY DEF IsSnapshot, Op
<1>3. SnapshotsInHand' = SnapshotsInHand /\ x \in SnapshotsInHand
    BY <1>1, <1>2 DEF SnapshotsInHand
<1>4. UNCHANGED <<overlap, before>>
    BY <1>3, SameOverlap DEF Step
<1>5. InHandCash' = InHandCash
  <2>1. \A u \in Writers : u \in Task
      BY DEF Writers
  <2> QED
      BY <1>2, <2>1 DEF InHandCash
<1>6. WrittenCalls' = (WrittenCalls \ {x}) \cup (IF pc'[x] = "commit" THEN {x} ELSE {})
    BY <1>1, <1>3 DEF WrittenCalls, SnapshotsInHand
<1> QED
    BY <1>4, <1>5, <1>6

(* One that ends it lets go of its cash. *)
LEMMA Ends ==
    ASSUME DbInv, NEW x \in Task, Step(x), Portfolio(x), pc'[x] = "idle"
    PROVE  Account!Leave(x)
<1> USE DEF DbInv
<1>1. /\ Calls /\ Calls' /\ Watch
      /\ \A u \in Task : u # x => pc'[u] = pc[u] /\ call'[u] = call[u]
    BY StepShape DEF Control, Step
<1>2. x \in Writers /\ ~IsSnapshot(x)' /\ \A u \in Task : u # x => (IsSnapshot(u)' <=> IsSnapshot(u))
    BY <1>1, InHandNext DEF Writers, Portfolio, IsSnapshot, Op
<1>3. InHandCash' = [InHandCash EXCEPT ![x] = None]
  <2>1. \A u \in Writers : u \in Task
      BY DEF Writers
  <2>2. ASSUME NEW u \in Writers
        PROVE  InHandCash'[u] = [InHandCash EXCEPT ![x] = None][u]
      BY <1>1, <1>2, <2>1 DEF InHandCash
  <2> QED
      BY <2>2 DEF InHandCash
<1>4. WrittenCalls' = WrittenCalls \ {x}
    BY <1>1, <1>2 DEF WrittenCalls, SnapshotsInHand
<1>5. Account!Together
    BY <1>1, TogetherRefines
<1> QED
    BY <1>3, <1>4, <1>5 DEF Account!Leave, InHandCash, WrittenCalls

(* A commit of a call that is alone is a report. *)
LEMMA CommitReports ==
    ASSUME DbInv, ~overlap, NEW x \in Task, Step(x), Portfolio(x), pc[x] = "commit", file' = work,
           Account!Leave(x)
    PROVE  Account!Report(x)
<1> USE DEF DbInv
<1>1. x \in SnapshotsInHand /\ x \in Writers /\ call[x].cash \in Nat /\ IsSnapshot(x)
    BY SnapshotStep DEF SnapshotsInHand, Writers, Portfolio
<1>2. x \in WrittenCalls /\ InHandCash[x] = call[x].cash
    BY <1>1 DEF WrittenCalls, InHandCash
<1> DEFINE rows == SnapsAfter(x, file.snaps)
<1>3. file'.snaps = rows /\ Exact(x)
    BY <1>1 DEF Alone, Overlaps, Reading
<1>4. Balance(rows) = call[x].cash /\ HighestPeak(rows) = Greater(HighestPeak(file.snaps), call[x].cash)
    BY <1>3 DEF Exact
<1> HIDE DEF rows
<1>5. /\ Balance(file.snaps)' = InHandCash[x]
      /\ HighestPeak(file.snaps)' = Account!Greater(HighestPeak(file.snaps), InHandCash[x])
    BY <1>2, <1>3, <1>4 DEF Account!Greater, Greater
<1> QED
    BY <1>2, <1>5 DEF Account!Report, WrittenCalls, InHandCash

(* A commit of one that is not leaves an old or a new cash, and a mark that *)
(* is below neither the cash nor what it was before the overlap.            *)
LEMMA CommitMingles ==
    ASSUME DbInv, Figures, overlap, NEW x \in Task, Step(x), Portfolio(x), pc[x] = "commit", file' = work,
           Account!Leave(x)
    PROVE  Account!Mingle(x)
<1> USE DEF DbInv
<1>1. /\ x \in SnapshotsInHand /\ x \in Writers /\ IsSnapshot(x)
      /\ call[x].cash \in Nat /\ seen[x] \in NoteType
    BY SnapshotStep DEF SnapshotsInHand, Writers, Portfolio
<1>2. x \in WrittenCalls /\ InHandCash[x] = call[x].cash
    BY <1>1 DEF WrittenCalls, InHandCash
<1>3. /\ RowsOK(before) /\ RowsOK(file.snaps) /\ RowsOK(work.snaps)
      /\ AtLeast(before, file.snaps) /\ AtLeast(before, work.snaps)
      /\ seen[x].id \in DOMAIN before => before[seen[x].id].peak <= seen[x].high
      /\ work.snaps = SnapsAfter(x, file.snaps)
    BY <1>1 DEF Overlaps, Base, Noted, Tables, Reading
<1>4. Balance(work.snaps) \in {Balance(file.snaps), call[x].cash}
    BY <1>1, <1>3, AfterAtLeast
<1>5. /\ Balance(work.snaps) \in Nat /\ HighestPeak(work.snaps) \in Nat /\ HighestPeak(before) \in Nat
      /\ Balance(work.snaps) <= HighestPeak(work.snaps)
      /\ HighestPeak(before) <= HighestPeak(work.snaps)
    BY <1>3, BalanceBelowPeak, AtLeastMark
<1>6. HighestPeak(work.snaps) \in Amount \cup {0}
  <2>1. CASE work.snaps = <<>>
      BY <2>1 DEF HighestPeak
  <2>2. CASE work.snaps # <<>>
    <3>1. PICK i \in DOMAIN work.snaps : HighestPeak(work.snaps) = work.snaps[i].peak
        BY <1>3, <2>2, PeakIsHighest
    <3>2. work.snaps[i] \in SnapType
        BY DEF Figures
    <3> QED
        BY <3>1, <3>2 DEF SnapType
  <2> QED
      BY <2>1, <2>2
<1>7. /\ Balance(file.snaps)' \in {Balance(file.snaps), InHandCash[x]}
      /\ HighestPeak(file.snaps)' \in Amount \cup {0}
      /\ HighestPeak(file.snaps)' >= Account!Greater(HighestPeak(before), Balance(file.snaps)')
    BY <1>2, <1>4, <1>5, <1>6 DEF Account!Greater, Greater
<1> QED
    BY <1>2, <1>7 DEF Account!Mingle, WrittenCalls, InHandCash

(* every step of a method is a step of the account, or a stutter *)
LEMMA StepRefines ==
    ASSUME DbInv, DbInv', Figures, NEW x \in Task, Step(x)
    PROVE  [Account!Next]_(Account!vars)
<1> USE DEF DbInv
<1>1. CASE ~Portfolio(x)
  <2>1. /\ UNCHANGED <<overlap, before>> /\ SnapshotsInHand' = SnapshotsInHand
        /\ \A t \in SnapshotsInHand : pc'[t] = pc[t] /\ call'[t] = call[t]
        /\ file'.snaps = file.snaps
      BY <1>1, BystanderOverlaps, Bystander
  <2>2. WrittenCalls' = WrittenCalls
      BY <2>1 DEF WrittenCalls
  <2>3. InHandCash' = InHandCash
    <3>1. \A t \in Writers : /\ IsSnapshot(t) <=> t \in SnapshotsInHand
                             /\ IsSnapshot(t)' <=> t \in SnapshotsInHand'
        BY DEF Writers, SnapshotsInHand
    <3> QED
        BY <2>1, <3>1 DEF InHandCash
  <2> QED
      BY <2>1, <2>2, <2>3, Unmoved
<1>2. CASE Portfolio(x)
  <2>1. /\ x \in Writers /\ x \in SnapshotsInHand
        /\ InHandCash[x] # None /\ (x \in WrittenCalls <=> pc[x] = "commit")
    <3>1. x \in Writers /\ x \in SnapshotsInHand
        BY <1>2, SnapshotStep DEF SnapshotsInHand, Writers, Portfolio
    <3> QED
        BY <3>1, HoldersInHand DEF WrittenCalls, Control
  <2>2. CASE pc'[x] # "idle"
    <3>1. call' = call /\ file' = file
        BY <1>2, <2>2, SnapshotStep
    <3>2. /\ overlap' = overlap /\ before' = before /\ InHandCash' = InHandCash
          /\ WrittenCalls' = (WrittenCalls \ {x}) \cup (IF pc'[x] = "commit" THEN {x} ELSE {})
        BY <1>2, <2>2, <3>1, GoesOn
    <3>3. CASE WrittenCalls' = WrittenCalls
        BY <3>1, <3>2, <3>3, Unmoved
    <3>4. CASE WrittenCalls' # WrittenCalls /\ pc'[x] = "commit"
      <4>1. x \notin WrittenCalls /\ WrittenCalls' = WrittenCalls \cup {x}
          BY <3>2, <3>4
      <4>2. Account!Write(x)
          BY <2>1, <3>1, <3>2, <4>1 DEF Account!Write, WrittenCalls, InHandCash
      <4> QED
          BY <2>1, <4>2 DEF Account!Next
    <3>5. CASE WrittenCalls' # WrittenCalls /\ pc'[x] # "commit"
      <4>1. x \in WrittenCalls /\ WrittenCalls' = WrittenCalls \ {x}
          BY <3>2, <3>5
      <4>2. Account!GiveUp(x)
          BY <3>1, <3>2, <4>1 DEF Account!GiveUp, WrittenCalls, InHandCash
      <4> QED
          BY <2>1, <4>2 DEF Account!Next
    <3> QED
        BY <3>3, <3>4, <3>5
  <2>3. CASE pc'[x] = "idle"
    <3>1. Account!Leave(x)
        BY <1>2, <2>3, Ends
    <3>2. CASE pc[x] = "commit"
      <4>1. file' = work
          BY <1>2, <2>3, <3>2, SnapshotStep
      <4>2. Account!Report(x) \/ Account!Mingle(x)
          BY <1>2, <3>1, <3>2, <4>1, CommitReports, CommitMingles
      <4> QED
          BY <2>1, <4>2 DEF Account!Next
    <3>3. CASE pc[x] # "commit"
      <4>1. file' = file
          BY <1>2, <2>3, <3>3, SnapshotStep
      <4>2. Account!Fail(x)
          BY <2>1, <3>1, <3>3, <4>1 DEF Account!Fail, WrittenCalls, InHandCash
      <4> QED
          BY <2>1, <4>2 DEF Account!Next
    <3> QED
        BY <3>2, <3>3
  <2> QED
      BY <2>2, <2>3
<1> QED
    BY <1>1, <1>2

(* a snapshot call that comes takes its cash in hand; the others are not seen *)
LEMMA AskRefines ==
    ASSUME DbInv, DbInv', NEW t \in Task, NEW r, AskSnapshot(t, r) \/ AskJournal(t, r) \/ AskCache(t, r)
    PROVE  [Account!Next]_(Account!vars)
<1> USE DEF DbInv
<1>1. file' = file
    BY AskInv
<1>2. pc[t] = "idle" /\ \A u \in Task : u # t => pc'[u] = pc[u] /\ call'[u] = call[u]
    BY DEF AskSnapshot, AskJournal, AskCache, Enter, Goto, Control, Shapes
<1>3. /\ Calls /\ Calls' /\ ~IsSnapshot(t)
      /\ \A u \in Task : u # t => (IsSnapshot(u)' <=> IsSnapshot(u))
    BY <1>2, InHand DEF Control, IsSnapshot, Op
<1>4. CASE AskSnapshot(t, r)
  <2>1. r \in SnapshotRequest /\ call'[t] = r /\ pc'[t] = "read" /\ t \in Writers /\ Watch
      BY <1>4 DEF AskSnapshot, Enter, Goto, Control, Shapes, Writers
  <2>2. IsSnapshot(t)' /\ r.cash \in Amount
      BY <1>3, <2>1, InHandNext DEF Writers, Portfolio, SnapshotRequest
  <2>3. InHandCash' = [InHandCash EXCEPT ![t] = r.cash]
    <3>1. \A u \in Writers : u \in Task
        BY DEF Writers
    <3>2. ASSUME NEW u \in Writers
          PROVE  InHandCash'[u] = [InHandCash EXCEPT ![t] = r.cash][u]
        BY <1>2, <1>3, <2>1, <2>2, <3>1 DEF InHandCash
    <3> QED
        BY <3>2 DEF InHandCash
  <2>4. WrittenCalls' = WrittenCalls
    <3>1. t \notin WrittenCalls /\ t \notin WrittenCalls'
        BY <1>3, <2>1 DEF WrittenCalls, SnapshotsInHand
    <3> QED
        BY <1>2, <1>3, <3>1 DEF WrittenCalls, SnapshotsInHand
  <2>5. Account!Together
      BY <1>3, <2>1, TogetherRefines
  <2>6. InHandCash[t] = None
      BY <1>3, <2>1 DEF InHandCash
  <2>7. Account!Ask(t)
      BY <1>1, <2>2, <2>3, <2>4, <2>5, <2>6 DEF Account!Ask, InHandCash, WrittenCalls
  <2> QED
      BY <2>1, <2>7 DEF Account!Next
<1>5. CASE AskJournal(t, r) \/ AskCache(t, r)
  <2>1. overlap' = overlap /\ before' = before /\ t \notin Writers /\ ~IsSnapshot(t)'
      BY <1>3, <1>5, InHandNext DEF AskJournal, AskCache, Writers, Portfolio
  <2>2. InHandCash' = InHandCash
    <3>1. \A u \in Writers : u \in Task /\ u # t
        BY <2>1 DEF Writers
    <3> QED
        BY <1>2, <1>3, <3>1 DEF InHandCash
  <2>3. WrittenCalls' = WrittenCalls
      BY <1>2, <1>3, <2>1 DEF WrittenCalls, SnapshotsInHand
  <2> QED
      BY <1>1, <2>1, <2>2, <2>3, Unmoved
<1> QED
    BY <1>4, <1>5

(* the start of the process opens the account with its initial cash *)
LEMMA StartRefines ==
    ASSUME DbInv, Start
    PROVE  Account!Open
<1> USE DEF DbInv
<1> DEFINE rows == Append(file.snaps, Row(InitialCash, InitialCash))
<1>1. /\ UNCHANGED <<call, pc, overlap, before>> /\ ~up /\ file' = [file EXCEPT !.snaps = rows]
    BY DEF Start, InitializeCash
<1>2. file'.snaps = rows
  <2> HIDE DEF rows
  <2> QED
      BY <1>1 DEF Control, Shapes
<1>3. RowsOK(file.snaps) /\ InitialCash \in Nat
    BY AmountAssumption DEF Tables
<1>4. HighestPeak(file.snaps) \in Nat
    BY <1>3, BalanceBelowPeak
<1>5. InitialCash <= InitialCash /\ InitialCash <= Greater(HighestPeak(file.snaps), InitialCash)
    BY <1>3, <1>4 DEF Greater
<1>6. Balance(rows) = InitialCash
      /\ HighestPeak(rows) = Greater(HighestPeak(file.snaps), InitialCash)
    BY <1>3, <1>5, AppendReports
<1> HIDE DEF rows
<1>7. /\ Balance(file.snaps)' = InitialCash
      /\ HighestPeak(file.snaps)' = Account!Greater(HighestPeak(file.snaps), InitialCash)
    BY <1>2, <1>6 DEF Account!Greater, Greater
<1>8. SnapshotsInHand = {} /\ Account!Holders = {}
  <2>1. SnapshotsInHand = {}
      BY <1>1, InHand DEF Control, Down, SnapshotsInHand
  <2> QED
      BY <2>1, HoldersInHand DEF Control
<1>9. InHandCash' = InHandCash /\ WrittenCalls' = WrittenCalls /\ HighestPeak(before)' = HighestPeak(before)
    BY <1>1 DEF InHandCash, WrittenCalls, SnapshotsInHand, IsSnapshot, Op
<1> QED
    BY <1>1, <1>7, <1>8, <1>9 DEF Account!Open, InHandCash, WrittenCalls

(* its death drops what is in hand and keeps the rest *)
LEMMA CrashRefines ==
    ASSUME DbInv, Crash
    PROVE  Account!Crash
<1>1. /\ file' = file /\ overlap' = FALSE /\ before' = <<>>
      /\ \A t \in Task : pc'[t] = "idle" /\ call'[t] = None
    BY DEF Crash, Kill
<1>2. \A t \in Task : ~IsSnapshot(t)'
    BY <1>1 DEF IsSnapshot, Op
<1>3. InHandCash' = [t \in Writers |-> None] /\ WrittenCalls' = {}
    BY <1>2 DEF InHandCash, WrittenCalls, SnapshotsInHand, Writers
<1>4. HighestPeak(before)' = 0
    BY <1>1 DEF HighestPeak
<1>5. Balance(file.snaps)' = Balance(file.snaps) /\ HighestPeak(file.snaps)' = HighestPeak(file.snaps)
    BY <1>1
<1> QED
    BY <1>1, <1>3, <1>4, <1>5 DEF Account!Crash, InHandCash, WrittenCalls

(* the database is empty and so is the account *)
LEMMA InitRefines == Init => Account!Init
<1> SUFFICES ASSUME Init
             PROVE  Account!Init
    OBVIOUS
<1>1. /\ file.snaps = <<>> /\ before = <<>> /\ overlap = FALSE
      /\ \A t \in Task : ~IsSnapshot(t)
    BY DEF Init, NoTables, IsSnapshot, Op
<1>2. Balance(file.snaps) = 0 /\ HighestPeak(file.snaps) = 0 /\ HighestPeak(before) = 0
    BY <1>1 DEF Balance, HighestPeak
<1>3. InHandCash = [t \in Writers |-> None] /\ WrittenCalls = {}
    BY <1>1 DEF InHandCash, WrittenCalls, SnapshotsInHand, Writers
<1> QED
    BY <1>1, <1>2, <1>3 DEF Account!Init, InHandCash, WrittenCalls

(* Every step of the database is a step or a stutter of the account. *)
LEMMA NextRefines ==
    ASSUME DbInv, DbInv', Figures, [Next]_vars
    PROVE  [Account!Next]_(Account!vars)
<1>1. ASSUME NEW t \in Task, Step(t)
      PROVE  [Account!Next]_(Account!vars)
    BY <1>1, StepRefines
<1>2. ASSUME NEW t \in Task, Ask(t)
      PROVE  [Account!Next]_(Account!vars)
    BY <1>2, AskRefines DEF Ask
<1>3. CASE Start
    BY <1>3, StartRefines DEF Account!Next
<1>4. CASE Crash
    BY <1>4, CrashRefines DEF Account!Next
<1>5. CASE Tick \/ UNCHANGED vars
  <2>1. UNCHANGED <<file, overlap, before, call, pc>>
      BY <1>5 DEF Tick, vars, sqliteVars
  <2>2. InHandCash' = InHandCash /\ WrittenCalls' = WrittenCalls
      BY <2>1 DEF InHandCash, WrittenCalls, SnapshotsInHand, IsSnapshot, Op
  <2> QED
      BY <2>1, <2>2, Unmoved
<1> QED
    BY <1>1, <1>2, <1>3, <1>4, <1>5 DEF Next

(***************************************************************************)
(* The snapshots are the account: a call that returns has made its cash the *)
(* cash and raised the mark to it, one that raises has changed nothing,     *)
(* over failures, crashes and restarts.  Calls that overlap leave the cash  *)
(* or make it one of theirs, and the mark a report no lower than the cash,  *)
(* nor than the mark was before they did.                                   *)
(***************************************************************************)
THEOREM SnapshotsAreTheAccount == Spec => AccountIsKept
<1>1. Init => Account!Init
    BY InitRefines
<1>2. DbInv /\ DbInv' /\ Figures /\ [Next]_vars => [Account!Next]_(Account!vars)
    BY NextRefines
<1>3. BaseInv /\ Figures /\ Connected /\ [Next]_vars => (BaseInv /\ Figures /\ Connected)'
    BY BaseNext, TypesNext
<1>4. Init => BaseInv /\ Figures /\ Connected
    BY InitJournal, InitTypes
<1>5. BaseInv => DbInv
    BY DEF BaseInv
<1> QED
    BY <1>1, <1>2, <1>3, <1>4, <1>5, PTL DEF Spec, AccountIsKept, Account!Spec
=============================================================================
