---------------------------- MODULE OrderedStore ----------------------------
(***************************************************************************)
(* What rbtree.h promises the callers of a tree: a collection that is kept *)
(* in the order of the keys, equal keys in the order of their insertion,   *)
(* and whose first node is at hand.                                        *)
(***************************************************************************)
EXTENDS Integers, Sequences, SequencesExt

CONSTANTS
  Nodes,  (* the nodes of the callers *)
  Key     (* their keys               *)

VARIABLE contents   (* the nodes in order *)

Init == contents = <<>>

(* A node goes behind those with its key and before those with a greater.  *)
Insert(n) ==
  /\ n \notin Range(contents)
  /\ \E i \in 1 .. Len(contents) + 1 :
       /\ \A j \in 1 .. i - 1 : Key[contents[j]] =< Key[n]
       /\ \A j \in i .. Len(contents) : Key[contents[j]] > Key[n]
       /\ contents' = InsertAt(contents, i, n)

Erase(n) ==
  \E i \in DOMAIN contents : contents[i] = n /\ contents' = RemoveAt(contents, i)

(* A node is exchanged for another with the same key, in place. *)
Replace(victim, new) ==
  /\ new \notin Range(contents) /\ Key[victim] = Key[new]
  /\ \E i \in DOMAIN contents :
       contents[i] = victim /\ contents' = ReplaceAt(contents, i, new)

Next ==
  \E n \in Nodes : Insert(n) \/ Erase(n) \/ \E m \in Nodes : Replace(n, m)

Spec == Init /\ [][Next]_contents
=============================================================================
