------------------------------ MODULE MCLruCache ------------------------------
(* LruCache with keys 0 to 2, capacities that callers may and may not pass.   *)
EXTENDS LruCache, TLC

Symmetry == Permutations(Nodes)
=============================================================================
