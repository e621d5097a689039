------------------------------ MODULE SignalMC ------------------------------
(***************************************************************************)
(* Three narratives with the three fundamental scores live data can earn,   *)
(* in the order they have in config.py.                                     *)
(***************************************************************************)
EXTENDS SignalEngine

MCChanges == {-10, 10, 40}

MCBaskets == << [name |-> "AI Tokens", tokens |-> {"INJ"}],
                [name |-> "RWA", tokens |-> {"USDC"}],
                [name |-> "BNB Chain", tokens |-> {"TWT"}] >>
=============================================================================
