------------------------------- MODULE RbTree -------------------------------
(***************************************************************************)
(* Callers at work on one tree of src/ELF/rbtree.c with a cached leftmost  *)
(* node (rbtree.h): they link, erase and replace nodes and walk the tree.  *)
(* An insertion links its node and then repairs the colours one iteration  *)
(* at a time, an erasure unlinks and repairs; between two iterations the   *)
(* tree has the one defect that the comments of the loops allow.           *)
(***************************************************************************)
EXTENDS RbOps, SequencesExt

CONSTANT Key   (* the key of each node, e.g. the start of its mapping *)

ASSUME KeyAssumption == Key \in [Nodes -> Int]

VARIABLES
  tree,       (* rb_root                                                 *)
  leftmost,   (* rb_leftmost                                             *)
  linked,     (* the nodes that the callers have put into the tree       *)
  op,         (* "idle", or the loop that is under way                   *)
  node,       (* its node                                                *)
  parent      (* and its parent                                          *)

vars == <<tree, leftmost, linked, op, node, parent>>

Init ==
  /\ tree = EmptyTree
  /\ leftmost = NULL
  /\ linked = {}
  /\ op = "idle" /\ node = NULL /\ parent = NULL

-----------------------------------------------------------------------------
(* The caller never went right on its way down. *)
IsLeftmost(t, n) == \A m \in linked : Key[n] < Key[m]

(* The loop goes on at n under p, or the call is over. *)
Continue(what, t, n, p, more) ==
  /\ tree' = t
  /\ op' = IF more THEN what ELSE "idle"
  /\ node' = IF more THEN n ELSE NULL
  /\ parent' = IF more THEN p ELSE NULL

(* rb_link_node and the entry of rb_insert_color_cached. *)
Insert(n) ==
  /\ op = "idle" /\ n \notin linked
  /\ LET at == Place(tree, Key, n)
     IN Continue("insert", rb_link_node(tree, n, at[1], at[2]), n, at[1], TRUE)
  /\ leftmost' = IF IsLeftmost(tree, n) THEN n ELSE leftmost
  /\ linked' = linked \cup {n}

(* One iteration of the loop of __rb_insert. *)
InsertStep ==
  /\ op = "insert"
  /\ LET l == InsertIteration(Loop(tree, node, parent, TRUE))
     IN Continue("insert", l.t, l.node, l.parent, l.more)
  /\ UNCHANGED <<leftmost, linked>>

(* rb_erase_cached up to the loop. *)
Erase(n) ==
  /\ op = "idle" /\ n \in linked
  /\ leftmost' = IF leftmost = n THEN rb_next(tree, n) ELSE leftmost
  /\ LET e == rb_erase_augmented(tree, n)
     IN Continue("erase", e.t, NULL, e.rebalance, e.rebalance # NULL)
  /\ linked' = linked \ {n}

(* One iteration of the loop of ____rb_erase_color. *)
EraseStep ==
  /\ op = "erase"
  /\ LET l == EraseIteration(Loop(tree, node, parent, TRUE))
     IN Continue("erase", l.t, l.node, l.parent, l.more)
  /\ UNCHANGED <<leftmost, linked>>

(* rb_replace_node_cached: the key of both is the same. *)
Replace(victim, new) ==
  /\ op = "idle" /\ victim \in linked /\ new \notin linked
  /\ Key[victim] = Key[new]
  /\ leftmost' = IF leftmost = victim THEN new ELSE leftmost
  /\ tree' = rb_replace_node(tree, victim, new)
  /\ linked' = (linked \ {victim}) \cup {new}
  /\ UNCHANGED <<op, node, parent>>

Next ==
  \/ \E n \in Nodes : Insert(n) \/ Erase(n)
  \/ \E n, m \in Nodes : Replace(n, m)
  \/ InsertStep \/ EraseStep

Spec == Init /\ [][Next]_vars

-----------------------------------------------------------------------------
NoGap == <<NULL, "left">>

(* Between two calls the tree is a red-black tree: parents and children    *)
(* agree, the root is black, no red node has a red parent and every path   *)
(* holds the same number of black nodes, whatever was inserted, erased and *)
(* replaced before, and in whatever order.                                 *)
RedBlack ==
  op = "idle" =>
    /\ LinksAgree(tree)
    /\ ~IsRed(tree, tree.root)
    /\ RedPairs(tree) = {}
    /\ BlackHeight(tree, NoGap) # -1

(* "Loop invariant: node is red" (rbtree.c:181-183): while an insertion is *)
(* being repaired the node and its parent are the only pair of red nodes,  *)
(* and the black heights are right already.                                *)
InsertLoop ==
  op = "insert" =>
    /\ LinksAgree(tree)
    /\ tree.red[node] /\ parent = tree.up[node]
    /\ RedPairs(tree) \subseteq {node}
    /\ tree.root # node => ~IsRed(tree, tree.root)
    /\ BlackHeight(tree, NoGap) # -1

(* "Loop invariants: node is black (or NULL on first iteration), node is   *)
(* not the root (parent is not NULL), all leaf paths going through parent  *)
(* and node have a black node count that is 1 lower" (rbtree.c:322-328).   *)
EraseLoop ==
  op = "erase" =>
    /\ parent # NULL /\ ~IsRed(tree, node)
    /\ LinksAgree(tree) /\ RedPairs(tree) = {} /\ ~IsRed(tree, tree.root)
    /\ \E s \in Sides : /\ tree.kid[parent][s] = node
                        /\ BlackHeight(tree, <<parent, s>>) # -1

(* Between two calls rb_next and rb_prev visit every node once and in      *)
(* order from either end, the cached leftmost node is the first, and the   *)
(* postorder walk visits every node once, after its children: what its     *)
(* user frees is not needed to go on.                                      *)
WalksVisitAll ==
  op = "idle" =>
    LET order == InOrder(tree)
        post  == Walk([n \in Nodes |-> rb_next_postorder(tree, n)],
                      rb_first_postorder(tree))
        at(n) == CHOOSE i \in DOMAIN post : post[i] = n
    IN /\ leftmost = rb_first(tree)
       /\ Walk([n \in Nodes |-> rb_next(tree, n)], rb_first(tree)) = order
       /\ Walk([n \in Nodes |-> rb_prev(tree, n)], rb_last(tree)) = Reverse(order)
       /\ Range(post) = linked /\ Len(post) = Cardinality(linked)
       /\ \A n \in linked : tree.up[n] # NULL => at(n) < at(tree.up[n])

(* Read from left to right the tree is the ordered collection that the     *)
(* callers expect: rotations do not move a node past another, and equal    *)
(* keys stay in the order of their insertion.                              *)
Store == INSTANCE OrderedStore WITH contents <- InOrder(tree)
KeepsOrder == Store!Spec
=============================================================================
