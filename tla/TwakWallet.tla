----------------------------- MODULE TwakWallet -----------------------------
(***************************************************************************)
(* src/twak.py: swap() and _run().  An order is one swap the program asks   *)
(* the twak CLI for: the buy or the sell of the lot of a token opened in    *)
(* one cycle.  _run never raises: a swap comes back as filled, as rejected  *)
(* (non-zero exit, missing CLI) or, when its 300 s are over, as an error    *)
(* while the child process, which is not killed, may still execute it:      *)
(* "unknown".  Nothing ever asks again how such an order ended.  Outcome is  *)
(* what the swaps of a behaviour may come back as.                          *)
(***************************************************************************)
EXTENDS Naturals

CONSTANTS
    Token,          \* the tokens of the baskets
    Outcome,        \* the outcomes swaps have
    MaxCycles       \* bound: trading cycles of a behaviour

ASSUME WalletAssumption ==
    /\ MaxCycles \in Nat
    /\ Outcome \subseteq {"filled", "rejected", "unknown"}

Cycle == 1 .. MaxCycles
Side == {"buy", "sell"}
Order == Token \X Cycle \X Side
Status == {"none", "pending", "filled", "rejected", "unknown"}

VARIABLE chain      \* the status of every order

WalletTypeOK == chain \in [Order -> Status]

WalletInit == chain = [o \in Order |-> "none"]

(* swap: the child process is started with the order *)
Submit(o) == chain' = [chain EXCEPT ![o] = "pending"]

(* _run returns: every outcome is a value, an error dict included *)
SwapReturns(o) ==
    /\ chain[o] = "pending"
    /\ \E out \in Outcome : chain' = [chain EXCEPT ![o] = out]

(* the process dies while children are running *)
WalletCrash ==
    chain' = [o \in Order |-> IF chain[o] = "pending" THEN "unknown" ELSE chain[o]]
=============================================================================
