---------------------------- MODULE MCListRefresh ----------------------------
(* ListRefresh for TLC: a session of the first of two agents.  Sessions    *)
(* meet only in whether every agent's discovery fails.                     *)
EXTENDS ListRefresh

CONSTANT a

OfTheFirst == [s \in Sessions |-> 1]
=============================================================================
