---------------------------- MODULE MCProcessCache ----------------------------
(* Small instances of ProcessCache for TLC. *)
EXTENDS ProcessCache, TLC

CONSTANTS c1, c2, a, b

MCClients  == {c1, c2}
MCContents == {a, b}

\* Clients and contents are interchangeable.
Symmetry == Permutations(MCClients) \cup Permutations(MCContents)

=============================================================================
