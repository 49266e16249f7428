------------------------------- MODULE MCKvLog -------------------------------
(***************************************************************************)
(* KvLog for TLC: symmetry.                                                *)
(***************************************************************************)
EXTENDS KvLogInv, TLC

Symmetry == Permutations(Keys) \cup Permutations(Vals)
=============================================================================
