---------------------------- MODULE MCTakeoutOrders ----------------------------
(* Small instances of TakeoutOrders for TLC. *)
EXTENDS TakeoutOrders, TLC

CONSTANTS w1, w2, r1, r2

MCWorkers == {w1, w2}
MCRiders  == {r1, r2}

\* Workers and riders are interchangeable.
Symmetry == Permutations(MCWorkers) \cup Permutations(MCRiders)

=============================================================================
