------------------------------ MODULE MCKvStore ------------------------------
(* KvStore for TLC: keys, values and threads are interchangeable.          *)
EXTENDS KvStore, TLC

Symmetry == Permutations(Keys) \cup Permutations(Vals) \cup Permutations(Threads)
=============================================================================
