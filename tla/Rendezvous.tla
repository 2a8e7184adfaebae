----------------------------- MODULE Rendezvous -----------------------------
(***************************************************************************)
(* What a one-shot barrier promises: a worker that has arrived may go past *)
(* only once every worker has arrived, and then every worker does.  This   *)
(* is the contract the program of                                          *)
(* cpp/barrier_with_condition_variable.cpp prints as "reached barrier" and *)
(* "passed the barrier!"; CondVarBarrier implements it.                    *)
(***************************************************************************)
CONSTANT Workers

VARIABLES
  arrived,   \* workers that have reached the barrier
  passed     \* workers that have gone past it

vars == <<arrived, passed>>

Init ==
  /\ arrived = {}
  /\ passed = {}

Arrive(w) ==
  /\ w \notin arrived
  /\ arrived' = arrived \cup {w}
  /\ UNCHANGED passed

Pass(w) ==
  /\ arrived = Workers
  /\ w \notin passed
  /\ passed' = passed \cup {w}
  /\ UNCHANGED arrived

Next == \E w \in Workers : Arrive(w) \/ Pass(w)

SafetySpec == Init /\ [][Next]_vars

Spec == SafetySpec /\ \A w \in Workers : WF_vars(Arrive(w)) /\ WF_vars(Pass(w))
=============================================================================
