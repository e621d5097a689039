----------------------------- MODULE DatabaseMC -----------------------------
(* A small instance: two tasks on every connection, two amounts of cash. *)
EXTENDS Database

MCConnOf == [t \in Task |->
                CASE t \in {1, 2} -> "portfolio"
                  [] t \in {3, 4} -> "journal"
                  [] OTHER -> "cache"]

=============================================================================
