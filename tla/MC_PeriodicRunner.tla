-------------------------- MODULE MC_PeriodicRunner --------------------------
(* Instances of PeriodicRunner for TLC, and for proofs that meet other     *)
(* modules.                                                                *)
CONSTANTS Instance, None, MaxSignals

VARIABLES pid_file, at, arguments, signals, killed

R == INSTANCE PeriodicRunner

ASSUME RunnerInput == R!RunnerAssumption

RunnerSpec == R!FairSpec
-----------------------------------------------------------------------------
FileHasOwner == R!FileHasOwner
StaysAliveUnlessKilled == R!StaysAliveUnlessKilled
OnlyOneInstance == R!OnlyOneInstance
=============================================================================
