-------------------------- MODULE PositionStoreMC --------------------------
(***************************************************************************)
(* Two forced sells on Portfolio's connection and a third task on a         *)
(* connection of its own.                                                   *)
(***************************************************************************)
EXTENDS PositionStore

CONSTANTS sell1, sell2, other, portfolio, logger

MCTask == {sell1, sell2, other}
MCConn == {portfolio, logger}
MCConnOf == [t \in MCTask |-> IF t = other THEN logger ELSE portfolio]
=============================================================================
