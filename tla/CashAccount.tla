---------------------------- MODULE CashAccount ----------------------------
(***************************************************************************)
(* What the snapshots promise the circuit breaker and the sizing: a call    *)
(* that returns has made the cash it reports the cash and raised the mark   *)
(* to it, and one that raises has changed nothing, as long as the calls do  *)
(* not overlap.  While they do, the cash is one that was reported, but      *)
(* perhaps not by the last to return, and the mark may lose what they       *)
(* reported, though it is a cash that was, never below the present one, nor *)
(* below what it was when they began to overlap.                            *)
(***************************************************************************)
EXTENDS Naturals, Arith

CONSTANTS Caller, Amount,
          Opening,          \* what a start of the process reports
          None

VARIABLES cash, mark,
          inHand,           \* the cash every caller is about to report, or None
          written,          \* callers that can but commit it or give it up
          overlapped,       \* calls have been in hand together since one was
                            \* last in hand alone or none
          floor             \* the mark when they began to, or 0

vars == <<cash, mark, inHand, written, overlapped, floor>>

Init ==
    /\ cash = 0 /\ mark = 0
    /\ inHand = [c \in Caller |-> None] /\ written = {}
    /\ overlapped = FALSE /\ floor = 0

Holders == {c \in Caller : inHand[c] # None}

Together ==
    /\ overlapped' = /\ Holders' # {}
                     /\ overlapped \/ \E c, d \in Holders' : c # d
    /\ floor' = IF ~overlapped' THEN 0 ELSE IF overlapped THEN floor ELSE mark

Open ==
    /\ Holders = {}
    /\ cash' = Opening /\ mark' = Greater(mark, Opening)
    /\ UNCHANGED <<inHand, written, overlapped, floor>>

Ask(c) ==
    /\ inHand[c] = None
    /\ \E a \in Amount : inHand' = [inHand EXCEPT ![c] = a]
    /\ Together
    /\ UNCHANGED <<cash, mark, written>>

Write(c) ==
    /\ inHand[c] # None /\ c \notin written
    /\ written' = written \cup {c}
    /\ UNCHANGED <<cash, mark, inHand, overlapped, floor>>

GiveUp(c) ==
    /\ c \in written
    /\ written' = written \ {c}
    /\ UNCHANGED <<cash, mark, inHand, overlapped, floor>>

Leave(c) ==
    /\ inHand' = [inHand EXCEPT ![c] = None]
    /\ written' = written \ {c}
    /\ Together

Report(c) ==
    /\ c \in written /\ ~overlapped
    /\ cash' = inHand[c] /\ mark' = Greater(mark, inHand[c])
    /\ Leave(c)

Mingle(c) ==
    /\ c \in written /\ overlapped
    /\ cash' \in {cash, inHand[c]}
    /\ mark' \in Amount \cup {0} /\ mark' >= Greater(floor, cash')
    /\ Leave(c)

Fail(c) ==
    /\ inHand[c] # None /\ c \notin written
    /\ Leave(c)
    /\ UNCHANGED <<cash, mark>>

(* the process dies, and its calls with it *)
Crash ==
    /\ inHand' = [c \in Caller |-> None] /\ written' = {}
    /\ overlapped' = FALSE /\ floor' = 0
    /\ UNCHANGED <<cash, mark>>

Next ==
    \/ Open \/ Crash
    \/ \E c \in Caller : Ask(c) \/ Write(c) \/ GiveUp(c) \/ Report(c) \/ Mingle(c) \/ Fail(c)

Spec == Init /\ [][Next]_vars
=============================================================================
