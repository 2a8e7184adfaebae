--------------------------- MODULE MC_ForkServer ---------------------------
(* Instances of ForkServer for TLC: two children, one or two clients. *)
EXTENDS ForkServer
=============================================================================
