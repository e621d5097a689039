------------------------------ MODULE AgentMC ------------------------------
(***************************************************************************)
(* Two tokens and two narratives with the overlap of config.py: COMP is in  *)
(* both baskets, and the later one is the narrative it maps to.             *)
(***************************************************************************)
EXTENDS AgentProperties

MCToken == {"FIL", "COMP"}
MCNarratives == << [name |-> "AI Tokens", tokens |-> {"FIL", "COMP"}],
                   [name |-> "BNB Chain", tokens |-> {"COMP"}] >>

(* three narratives of one token each, for the run about exposure *)
MCToken3 == {"FIL", "COMP", "ETH"}
MCDisjoint == << [name |-> "DePIN", tokens |-> {"FIL"}],
                 [name |-> "BNB Chain", tokens |-> {"COMP"}],
                 [name |-> "L1/L2", tokens |-> {"ETH"}] >>

(* REGIME_SIZING and the conviction cap of TRANSITION *)
MCTransition == [mult |-> 6, cap |-> 75]
=============================================================================
