------------------------------ MODULE MCRbTree ------------------------------
(* RbTree with nine nodes, two of which have the same key.                 *)
EXTENDS RbTree

MCNodes == 1 .. 9
MCKey == [n \in MCNodes |-> IF n = 9 THEN 4 ELSE n]
=============================================================================
