------------------------------ MODULE MCNotify ------------------------------
(***************************************************************************)
(* The instance of Notify for TLC: the values of each set are alike.       *)
(***************************************************************************)
EXTENDS Notify, TLC

Symmetry ==
  Permutations(From) \cup Permutations(Contact) \cup Permutations(To) \cup Permutations(CallId)
=============================================================================
