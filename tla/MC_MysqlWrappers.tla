--------------------------- MODULE MC_MysqlWrappers ---------------------------
(* Instances of MysqlWrappers for TLC.  Wrappers and addresses are         *)
(* interchangeable.                                                        *)
EXTENDS MysqlWrappers, TLC

Symmetry == Permutations(Rs) \cup Permutations(Result) \cup Permutations(Conn)
=============================================================================
