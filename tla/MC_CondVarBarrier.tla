-------------------------- MODULE MC_CondVarBarrier --------------------------
(* Instance of CondVarBarrier for TLC: four workers. *)
EXTENDS CondVarBarrier
=============================================================================
