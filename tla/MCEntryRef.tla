------------------------------ MODULE MCEntryRef ------------------------------
(***************************************************************************)
(* EntryRef for TLC: the users of one kind do the same, so permuting the   *)
(* getters changes nothing.                                                *)
(***************************************************************************)
EXTENDS EntryRef, TLC

GetterSymmetry == Permutations(Getters)
=============================================================================
