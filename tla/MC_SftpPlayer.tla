---------------------------- MODULE MC_SftpPlayer ----------------------------
(* Instances of SftpPlayer for TLC: the folder holds any of a few tracks,  *)
(* in the order sort gives them.                                           *)
EXTENDS SftpPlayer, SequencesExt

SortedListings == {SetToSortSeq(S, <) : S \in SUBSET Track}
=============================================================================
