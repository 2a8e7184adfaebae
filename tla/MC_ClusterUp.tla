----------------------------- MODULE MC_ClusterUp -----------------------------
(* Instances of ClusterUp for TLC.  Three settings tell the paths of the   *)
(* first control plane apart: everything installed, a dashboard that waits *)
(* for a worker, and no dashboard.                                         *)
EXTENDS ClusterUp

Setting(s, d, l) == [schedule |-> s, dashboard |-> d, longhorn |-> l]

ThreeSettings == {Setting(TRUE, TRUE, TRUE), Setting(FALSE, TRUE, FALSE),
                  Setting(FALSE, FALSE, TRUE)}
=============================================================================
