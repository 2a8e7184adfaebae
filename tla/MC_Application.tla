---------------------------- MODULE MC_Application ----------------------------
(* The executable on its own, for TLC. *)
EXTENDS Application
=============================================================================
