------------------------------- MODULE RbOps -------------------------------
(***************************************************************************)
(* The red-black tree of src/ELF/rbtree.c and rbtree.h as operators on a   *)
(* tree value.  A tree keeps, like the C structures, the root and for each *)
(* node its parent and colour (one word in C) and two children; what the C *)
(* code does to memory, an operator does to the value, in the same order.  *)
(*                                                                         *)
(* rbtree.c writes the two halves of each fix-up out, left and right; here *)
(* a half is a parameter d, the side the parent (or the node) hangs on.    *)
(* A loop is an operator for one iteration on [t, node, parent, more].     *)
(*                                                                         *)
(* The links of a node outside the tree are not kept: rb_link_node and the *)
(* copy of rb_replace_node overwrite all three before any of them is read. *)
(***************************************************************************)
EXTENDS Integers, Sequences, FiniteSets

CONSTANTS
  Nodes,  (* the struct rb_nodes there are *)
  NULL    (* the null pointer              *)

ASSUME NullAssumption == NULL \notin Nodes

Sides == {"left", "right"}
Other(d) == IF d = "left" THEN "right" ELSE "left"

NoKids == [s \in Sides |-> NULL]

(* RB_ROOT *)
EmptyTree ==
  [root |-> NULL,
   up   |-> [n \in Nodes |-> NULL],
   red  |-> [n \in Nodes |-> FALSE],
   kid  |-> [n \in Nodes |-> NoKids]]

IsRed(t, n) == n # NULL /\ t.red[n]

rb_set_parent_color(t, n, p, isRed) ==
  [t EXCEPT !.up[n] = p, !.red[n] = isRed]

rb_set_parent(t, n, p) == [t EXCEPT !.up[n] = p]

rb_set_black(t, n) == [t EXCEPT !.red[n] = FALSE]

SetKid(t, n, s, c) == [t EXCEPT !.kid[n][s] = c]

(* "if (tmp) rb_set_parent_color(tmp, p, color)" *)
PaintIfThere(t, n, p, isRed) ==
  IF n = NULL THEN t ELSE rb_set_parent_color(t, n, p, isRed)

change_child(t, old, new, p) ==
  IF p = NULL THEN [t EXCEPT !.root = new]
  ELSE SetKid(t, p, IF t.kid[p]["left"] = old THEN "left" ELSE "right", new)

rotate_set_parents(t, old, new, isRed) ==
  LET p  == t.up[old]
      t1 == rb_set_parent_color(t, new, p, t.red[old])
      t2 == rb_set_parent_color(t1, old, new, isRed)
  IN change_child(t2, old, new, p)

(* Links n under p on side s; a null p makes it the root. *)
rb_link_node(t, n, p, s) ==
  LET t1 == [t EXCEPT !.up[n] = p, !.red[n] = TRUE, !.kid[n] = NoKids]
  IN IF p = NULL THEN [t1 EXCEPT !.root = n] ELSE SetKid(t1, p, s, n)

(* The search of a caller for the place of n in the order of the keys;     *)
(* equal keys go to the right.  Answers the parent and the side.           *)
PlaceBy(t, Side(_, _), n) ==
  LET place[m \in Nodes] ==
        LET k == t.kid[m][Side(n, m)]
        IN IF k = NULL THEN <<m, Side(n, m)>> ELSE place[k]
  IN IF t.root = NULL THEN <<NULL, "left">> ELSE place[t.root]

PlaceEqualLeft(t, key, n) ==
  PlaceBy(t, LAMBDA a, b : IF key[a] =< key[b] THEN "left" ELSE "right", n)

Place(t, key, n) ==
  PlaceBy(t, LAMBDA a, b : IF key[a] < key[b] THEN "left" ELSE "right", n)

(***************************************************************************)
(* __rb_insert.                                                            *)
(***************************************************************************)
Loop(t, n, p, more) == [t |-> t, node |-> n, parent |-> p, more |-> more]

(* Forgets to turn the uncle black. *)
InsertFlipKeepingUncle(t, p, g, uncle) ==
  LET t2 == rb_set_parent_color(t, p, g, FALSE)
      gg == t2.up[g]
  IN Loop(rb_set_parent_color(t2, g, gg, TRUE), g, gg, TRUE)

(* Case 1: the uncle is red; colours flip and the loop goes on at g. *)
InsertFlip(t, p, g, uncle) ==
  LET t1 == rb_set_parent_color(t, uncle, g, FALSE)
      t2 == rb_set_parent_color(t1, p, g, FALSE)
      gg == t2.up[g]
  IN Loop(rb_set_parent_color(t2, g, gg, TRUE), g, gg, TRUE)

(* Case 2: n is the inner child; it changes places with its parent.        *)
(* g's own pointer is left to Case 3.                                      *)
InsertRotateParent(t, n, p, d) ==
  LET tmp == t.kid[n][d]
      t1  == SetKid(SetKid(t, p, Other(d), tmp), n, d, p)
      t2  == PaintIfThere(t1, tmp, p, FALSE)
  IN rb_set_parent_color(t2, p, n, TRUE)

(* Leaves g black. *)
InsertRotateGparentBlack(t, p, g, d) ==
  LET tmp == t.kid[p][Other(d)]
      t1  == SetKid(SetKid(t, g, d, tmp), p, Other(d), g)
      t2  == PaintIfThere(t1, tmp, g, FALSE)
  IN rotate_set_parents(t2, g, p, FALSE)

(* Case 3: p takes the place and the colour of g, g becomes its red child. *)
InsertRotateGparent(t, p, g, d) ==
  LET tmp == t.kid[p][Other(d)]
      t1  == SetKid(SetKid(t, g, d, tmp), p, Other(d), g)
      t2  == PaintIfThere(t1, tmp, g, FALSE)
  IN rotate_set_parents(t2, g, p, TRUE)

InsertIteration(loop) ==
  LET t == loop.t  n == loop.node  p == loop.parent IN
  IF p = NULL THEN Loop(rb_set_parent_color(t, n, NULL, FALSE), n, p, FALSE)
  ELSE IF ~t.red[p] THEN Loop(t, n, p, FALSE)
  ELSE
    LET g     == t.up[p]
        d     == IF p # t.kid[g]["right"] THEN "left" ELSE "right"
        uncle == t.kid[g][Other(d)]
        inner == n = t.kid[p][Other(d)]
        top   == IF inner THEN n ELSE p
        t1    == IF inner THEN InsertRotateParent(t, n, p, d) ELSE t
    IN IF IsRed(t, uncle) THEN InsertFlip(t, p, g, uncle)
       ELSE Loop(InsertRotateGparent(t1, top, g, d), n, top, FALSE)

(* The loop of rb_insert_color and ____rb_erase_color run to its end: an   *)
(* iteration moves the cursor up at least one node.                        *)
RunLoop(Iteration(_), start) ==
  LET run[i \in 0 .. Cardinality(Nodes)] ==
        IF i = 0 THEN start
        ELSE IF run[i - 1].more THEN Iteration(run[i - 1]) ELSE run[i - 1]
  IN run[Cardinality(Nodes)].t

rb_insert_color(t, n) == RunLoop(InsertIteration, Loop(t, n, t.up[n], TRUE))

(***************************************************************************)
(* __rb_erase_augmented: the tree without n, and where to rebalance.       *)
(***************************************************************************)
Unlinked(t, n) ==
  [t EXCEPT !.up[n] = NULL, !.red[n] = FALSE, !.kid[n] = NoKids]

Erased(t, n, rebalance) == [t |-> Unlinked(t, n), rebalance |-> rebalance]

(* Case 1: at most one child, which then is red and turns black. *)
EraseFewKids(t, n) ==
  LET child == IF t.kid[n]["left"] = NULL THEN t.kid[n]["right"]
                                          ELSE t.kid[n]["left"]
      p  == t.up[n]
      t1 == change_child(t, n, child, p)
  IN IF child # NULL
     THEN Erased(rb_set_parent_color(t1, child, p, t.red[n]), n, NULL)
     ELSE Erased(t1, n, IF t.red[n] THEN NULL ELSE p)

(* The leftmost node under n. *)
LeftDeep(t, n) ==
  LET deep[m \in Nodes] ==
        IF t.kid[m]["left"] = NULL THEN m ELSE deep[t.kid[m]["left"]]
  IN deep[n]

(* Cases 2 and 3: the successor takes the place and the colour of n. *)
EraseTwoKids(t, n) ==
  LET child  == t.kid[n]["right"]
      s      == LeftDeep(t, child)
      child2 == t.kid[s]["right"]
      parent == IF s = child THEN s ELSE t.up[s]
      t1 == IF s = child THEN t
            ELSE rb_set_parent(SetKid(SetKid(t, parent, "left", child2),
                                      s, "right", child), child, s)
      l  == t.kid[n]["left"]
      t2 == rb_set_parent(SetKid(t1, s, "left", l), l, s)
      t3 == change_child(t2, n, s, t.up[n])
      t4 == rb_set_parent_color(t3, s, t.up[n], t.red[n])
  IN IF child2 # NULL
     THEN Erased(rb_set_parent_color(t4, child2, parent, FALSE), n, NULL)
     ELSE Erased(t4, n, IF t.red[s] THEN NULL ELSE parent)

rb_erase_augmented(t, n) ==
  IF t.kid[n]["left"] # NULL /\ t.kid[n]["right"] # NULL
  THEN EraseTwoKids(t, n) ELSE EraseFewKids(t, n)

(***************************************************************************)
(* ____rb_erase_color; d is the side of the node one black is missing on.  *)
(***************************************************************************)
(* Case 1: the sibling is red; rotate it above the parent. *)
EraseRotateRedSibling(t, p, sib, d) ==
  LET tmp1 == t.kid[sib][d]
      t1   == SetKid(SetKid(t, p, Other(d), tmp1), sib, d, p)
  IN rotate_set_parents(rb_set_parent_color(t1, tmp1, p, FALSE), p, sib, TRUE)

(* Goes on under a red parent, too. *)
EraseFlipPastRed(t, p, sib) ==
  LET t1 == rb_set_parent_color(t, sib, p, TRUE)
  IN Loop(t1, p, t1.up[p], t1.up[p] # NULL)

(* Case 2: the sibling turns red; a red parent turns black, under a black  *)
(* one the loop goes on.                                                   *)
EraseFlip(t, p, sib) ==
  LET t1 == rb_set_parent_color(t, sib, p, TRUE) IN
  IF t1.red[p] THEN Loop(rb_set_black(t1, p), p, p, FALSE)
  ELSE Loop(t1, p, t1.up[p], t1.up[p] # NULL)

(* Case 3: the sibling's near child is red and changes places with it. *)
EraseRotateSibling(t, p, sib, near, d) ==
  LET tmp1 == t.kid[near][Other(d)]
      t1   == SetKid(SetKid(t, sib, d, tmp1), near, Other(d), sib)
  IN PaintIfThere(SetKid(t1, p, Other(d), near), tmp1, sib, FALSE)

(* Case 4: the sibling takes the place and the colour of the parent. *)
EraseRotateParent(t, p, sib, far, d) ==
  LET tmp2 == t.kid[sib][d]
      t1   == SetKid(SetKid(t, p, Other(d), tmp2), sib, d, p)
      t2   == rb_set_parent_color(t1, far, sib, FALSE)
      t3   == IF tmp2 = NULL THEN t2 ELSE rb_set_parent(t2, tmp2, p)
  IN rotate_set_parents(t3, p, sib, FALSE)

EraseIteration(loop) ==
  LET p     == loop.parent
      d     == IF loop.node # loop.t.kid[p]["right"] THEN "left" ELSE "right"
      sib0  == loop.t.kid[p][Other(d)]
      t     == IF loop.t.red[sib0]
               THEN EraseRotateRedSibling(loop.t, p, sib0, d) ELSE loop.t
      sib   == t.kid[p][Other(d)]
      far   == t.kid[sib][Other(d)]
      near  == t.kid[sib][d]
  IN IF ~IsRed(t, far) /\ ~IsRed(t, near) THEN EraseFlip(t, p, sib)
     ELSE IF ~IsRed(t, far)
     THEN Loop(EraseRotateParent(EraseRotateSibling(t, p, sib, near, d),
                                 p, near, sib, d), loop.node, p, FALSE)
     ELSE Loop(EraseRotateParent(t, p, sib, far, d), loop.node, p, FALSE)

rb_erase(t, n) ==
  LET e == rb_erase_augmented(t, n) IN
  IF e.rebalance = NULL THEN e.t
  ELSE RunLoop(EraseIteration, Loop(e.t, NULL, e.rebalance, TRUE))

(***************************************************************************)
(* rb_replace_node and rb_replace_node_rcu, which differ in the barrier    *)
(* before the last pointer only (and rbtree.h defines that barrier away).  *)
(***************************************************************************)
rb_replace_node(t, victim, new) ==
  LET l  == t.kid[victim]["left"]
      r  == t.kid[victim]["right"]
      t1 == [t EXCEPT !.up[new] = t.up[victim], !.red[new] = t.red[victim],
                      !.kid[new] = t.kid[victim]]
      t2 == IF l = NULL THEN t1 ELSE rb_set_parent(t1, l, new)
      t3 == IF r = NULL THEN t2 ELSE rb_set_parent(t2, r, new)
  IN Unlinked(change_child(t3, victim, new, t.up[victim]), victim)

(***************************************************************************)
(* Traversal.                                                              *)
(***************************************************************************)
(* The end of the tree on side s: rb_first ("left") and rb_last. *)
Extreme(t, n, s) ==
  LET deep[m \in Nodes] == IF t.kid[m][s] = NULL THEN m ELSE deep[t.kid[m][s]]
  IN IF n = NULL THEN NULL ELSE deep[n]

rb_first(t) == Extreme(t, t.root, "left")
rb_last(t)  == Extreme(t, t.root, "right")

(* The first ancestor of n that lies on side s of what is below it. *)
FirstAncestor(t, n, s) ==
  LET climb[m \in Nodes] ==
        LET p == t.up[m]
        IN IF p # NULL /\ m = t.kid[p][s] THEN climb[p] ELSE p
  IN climb[n]

(* rb_next (s = "right") and rb_prev (s = "left"). *)
Neighbour(t, n, s) ==
  IF t.kid[n][s] # NULL THEN Extreme(t, t.kid[n][s], Other(s))
  ELSE FirstAncestor(t, n, s)

rb_next(t, n) == Neighbour(t, n, "right")
rb_prev(t, n) == Neighbour(t, n, "left")

(* Takes the leftmost instead of the deepest node under the right sibling. *)
rb_leftmost_node(t, n) == LeftDeep(t, n)

rb_left_deepest_node(t, n) ==
  LET deep[m \in Nodes] ==
        IF t.kid[m]["left"] # NULL THEN deep[t.kid[m]["left"]]
        ELSE IF t.kid[m]["right"] # NULL THEN deep[t.kid[m]["right"]] ELSE m
  IN deep[n]

rb_next_postorder(t, n) ==
  LET p == t.up[n] IN
  IF p # NULL /\ n = t.kid[p]["left"] /\ t.kid[p]["right"] # NULL
  THEN rb_left_deepest_node(t, t.kid[p]["right"]) ELSE p

rb_first_postorder(t) ==
  IF t.root = NULL THEN NULL ELSE rb_left_deepest_node(t, t.root)

(* The nodes a caller sees who starts at first and steps from each node n  *)
(* to next[n] until there is none.                                         *)
Walk(next, first) ==
  LET walk[n \in Nodes \cup {NULL}] ==
        IF n = NULL THEN <<>> ELSE <<n>> \o walk[next[n]]
  IN walk[first]

(***************************************************************************)
(* What a tree is: its nodes in order, and the heights in black nodes.     *)
(***************************************************************************)
InOrder(t) ==
  LET seq[n \in Nodes \cup {NULL}] ==
        IF n = NULL THEN <<>>
        ELSE seq[t.kid[n]["left"]] \o <<n>> \o seq[t.kid[n]["right"]]
  IN seq[t.root]

(* The number of black nodes on every path down from n, -1 if two paths    *)
(* differ; the path that enters gap = <<node, side>> is counted one longer.*)
BlackHeight(t, gap) ==
  LET side(h, n, s) == LET k == t.kid[n][s]
                       IN (IF k = NULL THEN 0 ELSE h[k])
                          + (IF gap = <<n, s>> THEN 1 ELSE 0)
      height[n \in Nodes] ==
        LET l == side(height, n, "left")
            r == side(height, n, "right")
        IN IF l # r \/ l < 0 THEN -1 ELSE l + (IF t.red[n] THEN 0 ELSE 1)
  IN IF t.root = NULL THEN 0 ELSE height[t.root]

(* Red nodes with a red parent. *)
RedPairs(t) == {n \in Nodes : t.red[n] /\ IsRed(t, t.up[n])}

(* Parents and children agree, and nothing outside the tree is linked. *)
LinksAgree(t) ==
  /\ t.root # NULL => t.up[t.root] = NULL
  /\ \A n \in Nodes, s \in Sides :
       t.kid[n][s] # NULL => t.up[t.kid[n][s]] = n
  /\ \A n \in Nodes :
       t.up[n] # NULL => n \in {t.kid[t.up[n]][s] : s \in Sides}
=============================================================================
