---------------------------- MODULE MCScheduler ----------------------------
(* TaskScheduler alone, with an int that no sum of lengths exceeds.        *)
EXTENDS TaskScheduler

MCIntRange == 64
=============================================================================
