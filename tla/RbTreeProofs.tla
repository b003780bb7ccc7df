---------------------------- MODULE RbTreeProofs ----------------------------
(***************************************************************************)
(* Proof that the tree of src/ELF/rbtree.c is a red-black tree between any *)
(* two calls, that each of its two repairing loops has the invariant its   *)
(* comment states, that the tree read from left to right is the ordered    *)
(* collection OrderedStore, and that each of the three walks visits every  *)
(* node once, for any number of nodes and any keys.                        *)
(*                                                                         *)
(* An iteration of a loop keeps the positions of RbShapeProofs, and what   *)
(* hangs in the tree, so it keeps the sequence.  Linking, erasing and      *)
(* replacing change the positions, but the nodes that stay keep their      *)
(* order (SameOrder); the one sequence of the new positions is then the    *)
(* old one with a node put in, taken out or exchanged.                     *)
(***************************************************************************)
EXTENDS RbTree, RbShapeProofs

(***************************************************************************)
(* Erasing and replacing, as exchanges of whole subtrees.                  *)
(***************************************************************************)

(* What even heights say of a side of a node. *)
LEMMA SideHeights ==
  ASSUME NEW t, NEW pos, Shape(t, pos), NEW bh \in [Nodes -> Nat], NEW q, NEW e,
         Even(t, bh, q, e)
  PROVE  \A n \in Nodes, s \in Sides :
           /\ SideHeight(t, bh, q, e, n, s) \in Nat
           /\ bh[n] = SideHeight(t, bh, q, e, n, s) + (IF t.red[n] THEN 0 ELSE 1)
<1> SUFFICES ASSUME NEW n \in Nodes, NEW s \in Sides
             PROVE  /\ SideHeight(t, bh, q, e, n, s) \in Nat
                    /\ bh[n] = SideHeight(t, bh, q, e, n, s) + (IF t.red[n] THEN 0 ELSE 1)
  OBVIOUS
<1>1. KidHeight(t, bh, n, s) \in Nat
  BY HeightsNat
<1>2. SideHeight(t, bh, q, e, n, s) \in Nat
  BY <1>1 DEF SideHeight
<1> QED BY <1>2 DEF Even, Sides

(* And what is to be shown of both sides. *)
LEMMA BalancedWhen ==
  ASSUME NEW t, NEW pos, Shape(t, pos), NEW bh \in [Nodes -> Nat], NEW q, NEW e,
         \A n \in Nodes, s \in Sides :
           bh[n] = SideHeight(t, bh, q, e, n, s) + (IF t.red[n] THEN 0 ELSE 1)
  PROVE  Balanced(t, q, e)
<1>1. \A n \in Nodes, s \in Sides : SideHeight(t, bh, q, e, n, s) \in Nat
  BY HeightsNat DEF SideHeight
<1>2. ASSUME NEW n \in Nodes
      PROVE  /\ SideHeight(t, bh, q, e, n, "left") = SideHeight(t, bh, q, e, n, "right")
             /\ bh[n] = SideHeight(t, bh, q, e, n, "left") + (IF t.red[n] THEN 0 ELSE 1)
  <2>1. "left" \in Sides /\ "right" \in Sides /\ bh[n] \in Nat
    BY DEF Sides
  <2>2. /\ bh[n] = SideHeight(t, bh, q, e, n, "left") + (IF t.red[n] THEN 0 ELSE 1)
        /\ bh[n] = SideHeight(t, bh, q, e, n, "right") + (IF t.red[n] THEN 0 ELSE 1)
    BY <2>1
  <2>3. /\ SideHeight(t, bh, q, e, n, "left") \in Nat
        /\ SideHeight(t, bh, q, e, n, "right") \in Nat
    BY <1>1, <2>1
  <2> QED BY <2>2, <2>3
<1>3. Even(t, bh, q, e)
  BY <1>2 DEF Even
<1> QED BY <1>3 DEF Balanced

(* n, which has no child on the other side, gives its place to the child c *)
(* on side d, and that one is black then.                                  *)
Spliced(t, u, n, c, d) ==
  /\ u \in Trees /\ u.root = IF t.up[n] = NULL THEN c ELSE t.root
  /\ \A m \in Nodes :
       /\ u.up[m] = IF m = n THEN NULL ELSE IF m = c THEN t.up[n] ELSE t.up[m]
       /\ (u.red[m] <=> m # n /\ m # c /\ t.red[m])
  /\ \A m \in Nodes, s \in Sides : u.kid[m][s] =
       IF m = n THEN NULL ELSE IF t.kid[m][s] = n THEN c ELSE t.kid[m][s]

(* A splice keeps the shape of the rest. *)
LEMMA SplicedShape ==
  ASSUME NEW t, NEW pos, Shape(t, pos), NEW n \in InTree(t), NEW c \in Nodes \cup {NULL},
         NEW d \in Sides, t.kid[n][d] = c, t.kid[n][Other(d)] = NULL,
         NEW u, Spliced(t, u, n, c, d)
  PROVE  Shape(u, pos) /\ InTree(u) = InTree(t) \ {n}
<1>1. t \in Trees /\ LinksAgree(t) /\ n \in Nodes /\ NULL \notin Nodes /\ pos \in [Nodes -> Int]
  BY NullAssumption DEF Shape, InTree
<1>2. /\ \A m \in Nodes, s \in Sides : t.kid[m][s] \in Nodes \cup {NULL}
      /\ \A m \in Nodes, s \in Sides : t.kid[m][s] # NULL =>
           t.kid[m][s] \in InTree(t) /\ t.up[t.kid[m][s]] = m /\ t.kid[m][s] # m
             /\ t.kid[m][s] # t.root
             /\ t.kid[m][s] # t.kid[m][Other(s)] /\ m \in InTree(t)
      /\ \A m \in Nodes : t.up[m] # NULL => t.up[m] \in InTree(t)
           /\ \E s \in Sides : t.kid[t.up[m]][s] = m
  BY KidsApart
<1>3. c # NULL => c \in InTree(t) /\ t.up[c] = n /\ c # n /\ c # t.root
  BY <1>1, <1>2
<1>4. c # n
  BY <1>1, <1>3
<1>5. \A s \in Sides : t.kid[n][s] \in {c, NULL}
  BY DEF Sides, Other
<1>6. t.up[n] \in Nodes \cup {NULL} /\ t.up[n] # n
  <2>1. t.up[n] # n
    BY <1>1, <1>2
  <2> QED BY <1>1, <2>1 DEF Trees
<1>7. c # NULL => t.up[n] # c
  <2> SUFFICES ASSUME c # NULL, t.up[n] = c PROVE FALSE
    OBVIOUS
  <2>1. PICK s \in Sides : t.kid[c][s] = n
    BY <1>2, <1>1
  <2>2. t.kid[n][d] # NULL /\ t.kid[t.kid[n][d]][s] = n
    BY <2>1
  <2>3. t.kid[t.kid[n][d]][s] # NULL
    BY <1>1, <2>2
  <2> QED BY <1>1, <2>2, <2>3, NoWayBack
<1>8. /\ u \in Trees /\ u.root = IF t.up[n] = NULL THEN c ELSE t.root
      /\ \A m \in Nodes :
           /\ u.up[m] = IF m = n THEN NULL ELSE IF m = c THEN t.up[n] ELSE t.up[m]
           /\ (u.red[m] <=> m # n /\ m # c /\ t.red[m])
      /\ \A m \in Nodes, s \in Sides : u.kid[m][s] =
           IF m = n THEN NULL ELSE IF t.kid[m][s] = n THEN c ELSE t.kid[m][s]
  BY DEF Spliced
<1>9. t.up[n] = NULL <=> n = t.root
  BY <1>1 DEF LinksAgree, InTree
<1>10. InTree(u) = InTree(t) \ {n}
  <2> SUFFICES ASSUME NEW m \in Nodes
               PROVE (m = u.root \/ u.up[m] # NULL) <=> m # n /\ (m = t.root \/ t.up[m] # NULL)
    BY DEF InTree
  <2>1. CASE m = n
    BY <1>4, <1>8, <1>9, <2>1
  <2>2. CASE m = c
    BY <1>3, <1>4, <1>8, <1>9, <2>2, <1>1
  <2>3. CASE m # n /\ m # c
    BY <1>8, <1>9, <2>3
  <2> QED BY <2>1, <2>2, <2>3
<1>11. LinksAgree(u)
  <2>1. u.root # NULL => u.up[u.root] = NULL
    <3>1. CASE t.up[n] = NULL
      BY <1>3, <1>8, <3>1
    <3>2. CASE t.up[n] # NULL
      <4>1. t.root # NULL => t.root \in Nodes /\ t.up[t.root] = NULL /\ t.root # n /\ t.root # c
        BY <1>1, <1>3, <1>9, <3>2 DEF LinksAgree, Trees
      <4> QED BY <1>8, <3>2, <4>1
    <3> QED BY <3>1, <3>2
  <2>2. ASSUME NEW m \in Nodes, NEW s \in Sides, u.kid[m][s] # NULL
        PROVE  u.up[u.kid[m][s]] = m
    <3>1. m # n
      BY <1>8, <2>2
    <3>2. CASE t.kid[m][s] = n
      <4>1. t.up[n] = m
        BY <1>1, <1>2, <3>2
      <4> QED BY <1>3, <1>8, <2>2, <3>1, <3>2, <4>1
    <3>3. CASE t.kid[m][s] # n
      <4>1. u.kid[m][s] = t.kid[m][s] /\ t.kid[m][s] # NULL
        BY <1>8, <2>2, <3>1, <3>3
      <4>2. t.kid[m][s] \in Nodes /\ t.up[t.kid[m][s]] = m
        BY <1>2, <4>1
      <4>3. t.kid[m][s] # c
        BY <1>3, <3>1, <4>1, <4>2
      <4> QED BY <1>8, <3>3, <4>1, <4>2, <4>3
    <3> QED BY <3>2, <3>3
  <2>3. ASSUME NEW m \in Nodes, u.up[m] # NULL
        PROVE  m \in {u.kid[u.up[m]][s] : s \in Sides}
    <3>1. m # n
      BY <1>8, <2>3
    <3>2. CASE m = c
      <4>1. u.up[m] = t.up[n] /\ t.up[n] # NULL /\ t.up[n] \in Nodes
        BY <1>4, <1>6, <1>8, <2>3, <3>2
      <4>2. PICK s \in Sides : t.kid[t.up[n]][s] = n
        BY <1>1, <1>2, <4>1
      <4>3. u.kid[t.up[n]][s] = c
        BY <1>6, <1>8, <4>1, <4>2
      <4> QED BY <3>2, <4>1, <4>3
    <3>3. CASE m # c
      <4>1. u.up[m] = t.up[m] /\ t.up[m] \in Nodes
        BY <1>1, <1>8, <2>3, <3>1, <3>3 DEF Trees
      <4>2. PICK s \in Sides : t.kid[t.up[m]][s] = m
        BY <1>1, <1>2, <4>1
      <4>3. t.up[m] # n
        BY <1>1, <1>5, <3>3, <4>2
      <4>4. u.kid[t.up[m]][s] = m
        BY <1>8, <3>1, <4>1, <4>2, <4>3
      <4> QED BY <4>1, <4>4
    <3> QED BY <3>2, <3>3
  <2> QED BY <2>1, <2>2, <2>3 DEF LinksAgree
<1>12. \A m \in Nodes \ InTree(u) : ~ u.red[m] /\ u.kid[m] = NoKids
  <2> SUFFICES ASSUME NEW m \in Nodes \ InTree(u) PROVE ~ u.red[m] /\ u.kid[m] = NoKids
    OBVIOUS
  <2>1. m = n \/ m \notin InTree(t)
    BY <1>10
  <2>2. ~ u.red[m] /\ \A s \in Sides : u.kid[m][s] = NULL
    <3>1. CASE m = n
      BY <1>8, <3>1
    <3>2. CASE m # n
      <4>1. ~ t.red[m] /\ t.kid[m] = NoKids
        BY <2>1, <3>2 DEF Shape
      <4> QED BY <1>1, <1>8, <3>2, <4>1 DEF NoKids
    <3> QED BY <3>1, <3>2
  <2> QED BY <1>8, <2>2 DEF NoKids, Trees
<1>13. PICK lo, hi \in [Nodes -> Int] : Nested(t, pos, lo, hi)
  BY DEF Shape, Ordered
<1>14. c # NULL => lo[n] =< lo[c] /\ hi[c] =< hi[n] /\ lo[n] \in Int /\ lo[c] \in Int
         /\ hi[c] \in Int /\ hi[n] \in Int
  <2> SUFFICES ASSUME c # NULL PROVE lo[n] =< lo[c] /\ hi[c] =< hi[n]
    BY <1>1, <1>3, <1>13 DEF InTree
  <2>1. c \in Nodes /\ lo[c] \in Int /\ hi[c] \in Int /\ pos[c] \in Int /\ lo[n] \in Int
          /\ hi[n] \in Int /\ pos[n] \in Int
    BY <1>1, <1>3, <1>13 DEF InTree
  <2>2. lo[n] =< pos[n] /\ pos[n] =< hi[n]
    BY <1>1, <1>13 DEF Nested
  <2>3. \/ lo[n] =< lo[c] /\ hi[c] < pos[n]
        \/ pos[n] < lo[c] /\ hi[c] =< hi[n]
    BY <1>1, <1>13 DEF Nested, Sides
  <2> QED BY <2>1, <2>2, <2>3
<1>15. Nested(u, pos, lo, hi)
  <2> SUFFICES ASSUME NEW m \in Nodes
               PROVE  /\ lo[m] =< pos[m] /\ pos[m] =< hi[m]
                      /\ u.kid[m]["left"] # NULL => lo[m] =< lo[u.kid[m]["left"]]
                           /\ hi[u.kid[m]["left"]] < pos[m]
                      /\ u.kid[m]["right"] # NULL => pos[m] < lo[u.kid[m]["right"]]
                           /\ hi[u.kid[m]["right"]] =< hi[m]
    BY DEF Nested
  <2>1. /\ lo[m] \in Int /\ hi[m] \in Int /\ pos[m] \in Int
        /\ lo[m] =< pos[m] /\ pos[m] =< hi[m]
        /\ t.kid[m]["left"] # NULL => lo[m] =< lo[t.kid[m]["left"]] /\ hi[t.kid[m]["left"]] < pos[m]
        /\ t.kid[m]["right"] # NULL => pos[m] < lo[t.kid[m]["right"]]
             /\ hi[t.kid[m]["right"]] =< hi[m]
    BY <1>1, <1>13 DEF Nested
  <2>2. /\ u.kid[m]["left"] = IF m = n THEN NULL ELSE IF t.kid[m]["left"] = n THEN c
             ELSE t.kid[m]["left"]
        /\ u.kid[m]["right"] = IF m = n THEN NULL ELSE IF t.kid[m]["right"] = n THEN c
             ELSE t.kid[m]["right"]
    BY <1>8 DEF Sides
  <2> QED BY <1>1, <1>14, <2>1, <2>2
<1> QED BY <1>8, <1>10, <1>11, <1>12, <1>13, <1>15 DEF Shape, Ordered

(* A child that moves up is red and its new place was black, so nothing is *)
(* missing; only a black leaf leaves a gap, below its parent.              *)
LEMMA SplicedFirm ==
  ASSUME NEW t, NEW pos, Firm(t, pos, {}, NULL, "left"), NEW n \in InTree(t),
         NEW c \in Nodes \cup {NULL}, NEW d \in Sides,
         t.kid[n][d] = c, t.kid[n][Other(d)] = NULL,
         NEW u, Spliced(t, u, n, c, d)
  PROVE  /\ (c # NULL => ~ t.red[n])
         /\ (c # NULL \/ t.red[n] \/ t.up[n] = NULL => Firm(u, pos, {}, NULL, "left"))
         /\ (c = NULL /\ ~ t.red[n] /\ t.up[n] # NULL =>
               \E s \in Sides : u.kid[t.up[n]][s] = NULL /\ Firm(u, pos, {}, t.up[n], s))
<1>1. Shape(t, pos) /\ t \in Trees /\ NoRedPair(t, {}) /\ n \in Nodes /\ NULL \notin Nodes
  BY NullAssumption DEF Firm, Shape, InTree
<1>2. Shape(u, pos) /\ InTree(u) = InTree(t) \ {n}
  BY <1>1, SplicedShape
<1>3. /\ \A m \in Nodes, s \in Sides : t.kid[m][s] \in Nodes \cup {NULL}
      /\ \A m \in Nodes, s \in Sides : t.kid[m][s] # NULL =>
           t.up[t.kid[m][s]] = m /\ t.kid[m][s] # m /\ t.kid[m][s] # t.kid[m][Other(s)]
      /\ \A m \in Nodes : t.up[m] # NULL => t.up[m] \in Nodes
           /\ \E s \in Sides : t.kid[t.up[m]][s] = m
  <2>1. \A m \in Nodes : t.up[m] # NULL => t.up[m] \in Nodes
    BY <1>1 DEF Trees
  <2> QED BY <1>1, <2>1, KidsApart
<1>4. c # NULL => c \in Nodes /\ t.up[c] = n /\ c # n
  BY <1>1, <1>3
<1>5. /\ \A m \in Nodes :
           /\ u.up[m] = IF m = n THEN NULL ELSE IF m = c THEN t.up[n] ELSE t.up[m]
           /\ (u.red[m] <=> m # n /\ m # c /\ t.red[m])
      /\ \A m \in Nodes, s \in Sides : u.kid[m][s] =
           IF m = n THEN NULL ELSE IF t.kid[m][s] = n THEN c ELSE t.kid[m][s]
  BY DEF Spliced
<1>6. PICK bh \in [Nodes -> Nat] : Even(t, bh, NULL, "left")
  BY <1>1 DEF Firm, Balanced
<1>7. \A m \in Nodes, s \in Sides :
        /\ KidHeight(t, bh, m, s) \in Nat
        /\ bh[m] = KidHeight(t, bh, m, s) + (IF t.red[m] THEN 0 ELSE 1)
  BY <1>1, <1>6, NoGapHeights
<1>8. PICK o \in Sides : o = Other(d) /\ o # d
  BY SidesAre
<1>9. KidHeight(t, bh, n, o) = 0
  BY <1>8 DEF KidHeight
<1>10. /\ t.red[n] => bh[n] = 0 /\ KidHeight(t, bh, n, d) = 0
       /\ ~ t.red[n] => bh[n] = 1 /\ KidHeight(t, bh, n, d) = 0
  <2>1. bh[n] = 0 + (IF t.red[n] THEN 0 ELSE 1)
    BY <1>1, <1>7, <1>9
  <2>2. bh[n] = KidHeight(t, bh, n, d) + (IF t.red[n] THEN 0 ELSE 1) /\ KidHeight(t, bh, n,
        d) \in Nat
    BY <1>1, <1>7
  <2> QED BY <2>1, <2>2
<1>11. c # NULL => bh[c] = 0 /\ t.red[c] /\ ~ t.red[n]
  <2> SUFFICES ASSUME c # NULL PROVE bh[c] = 0 /\ t.red[c] /\ ~ t.red[n]
    OBVIOUS
  <2>1. bh[c] = 0
    BY <1>10 DEF KidHeight
  <2>2. t.red[c]
    <3>1. bh[c] = KidHeight(t, bh, c, d) + (IF t.red[c] THEN 0 ELSE 1) /\ KidHeight(t, bh, c, d) \in Nat
      BY <1>4, <1>7
    <3> QED BY <2>1, <3>1
  <2> QED BY <1>1, <1>4, <2>1, <2>2 DEF NoRedPair
<1>12. NoRedPair(u, {})
  <2> SUFFICES ASSUME NEW m \in Nodes, u.red[m] PROVE u.up[m] \in Nodes /\ ~ u.red[u.up[m]]
    BY DEF NoRedPair
  <2>1. t.red[m] /\ u.up[m] = t.up[m] /\ t.up[m] \in Nodes /\ ~ t.red[t.up[m]]
    BY <1>1, <1>5 DEF NoRedPair
  <2> QED BY <1>5, <2>1
<1> DEFINE bh2 == [m \in Nodes |-> IF m = n \/ m = c THEN 1 ELSE bh[m]]
<1>13. bh2 \in [Nodes -> Nat]
  BY <1>6
<1>14. ASSUME NEW m \in Nodes, NEW s \in Sides
       PROVE  /\ t.kid[m][s] = n /\ m # n => KidHeight(u, bh2, m, s) = IF c = NULL THEN 0 ELSE 1
              /\ t.kid[m][s] # n /\ m # n
                   /\ m # c => KidHeight(u, bh2, m, s) = KidHeight(t, bh, m, s)
              /\ m \in {n, c} => KidHeight(u, bh2, m, s) = 0
  <2>1. ASSUME t.kid[m][s] = n, m # n PROVE KidHeight(u, bh2, m, s) = IF c = NULL THEN 0 ELSE 1
    BY <1>4, <1>5, <2>1 DEF KidHeight
  <2>2. ASSUME t.kid[m][s] # n, m # n
        PROVE KidHeight(u, bh2, m, s) = KidHeight(t, bh, m, s)
    <3>1. u.kid[m][s] = t.kid[m][s]
      BY <1>5, <2>2
    <3>2. t.kid[m][s] # NULL => t.kid[m][s] \in Nodes /\ t.kid[m][s] # c
      BY <1>3, <1>4, <2>2
    <3> QED BY <2>2, <3>1, <3>2 DEF KidHeight
  <2>3. KidHeight(u, bh2, n, s) = 0
    BY <1>1, <1>5 DEF KidHeight
  <2>4. ASSUME m = c PROVE KidHeight(u, bh2, m, s) = 0
    <3>1. t.kid[c][s] # n
      <4> SUFFICES ASSUME t.kid[c][s] = n PROVE FALSE
        OBVIOUS
      <4>1. t.kid[n][d] # NULL /\ t.kid[t.kid[n][d]][s] = n
        BY <1>1, <2>4
      <4>2. t.kid[t.kid[n][d]][s] # NULL
        BY <1>1, <4>1
      <4> QED BY <1>1, <4>1, <4>2, NoWayBack
    <3>2. KidHeight(u, bh2, c, s) = KidHeight(t, bh, c, s)
      BY <1>1, <1>4, <2>2, <2>4, <3>1
    <3>3. bh[c] = KidHeight(t, bh, c, s) + 0 /\ KidHeight(t, bh, c, s) \in Nat
      BY <1>1, <1>7, <1>11, <2>4
    <3> QED BY <1>1, <1>11, <2>4, <3>2, <3>3
  <2> QED BY <2>1, <2>2, <2>3, <2>4
<1>15. \A m \in Nodes : m # n /\ m # c => bh2[m] = bh[m]
  OBVIOUS
<1>16. bh2[n] = 1 /\ (c # NULL => bh2[c] = 1)
  BY <1>1, <1>4
<1> HIDE DEF bh2
<1>17. CASE c # NULL
  <2>1. ASSUME NEW m \in Nodes, NEW s \in Sides
        PROVE  bh2[m] = KidHeight(u, bh2, m, s) + (IF u.red[m] THEN 0 ELSE 1)
    <3>1. CASE m \in {n, c}
      BY <1>5, <1>14, <1>16, <1>17, <3>1
    <3>2. CASE m # n /\ m # c /\ t.kid[m][s] = n
      <4>1. KidHeight(t, bh, m, s) = 1
        BY <1>1, <1>10, <1>11, <1>17, <3>2 DEF KidHeight
      <4> QED BY <1>5, <1>7, <1>14, <1>15, <1>17, <3>2, <4>1
    <3>3. CASE m # n /\ m # c /\ t.kid[m][s] # n
      BY <1>5, <1>7, <1>14, <1>15, <3>3
    <3> QED BY <3>1, <3>2, <3>3
  <2>2. Balanced(u, NULL, "left")
    BY <1>2, <1>13, <2>1, EvenWithoutGap
  <2> QED BY <1>2, <1>11, <1>12, <1>17, <2>2 DEF Firm
<1>18. CASE c = NULL /\ (t.red[n] \/ t.up[n] = NULL)
  <2>1. ASSUME NEW m \in Nodes, NEW s \in Sides
        PROVE  bh2[m] = KidHeight(u, bh2, m, s) + (IF u.red[m] THEN 0 ELSE 1)
    <3>1. CASE m = n
      BY <1>5, <1>14, <1>16, <1>18, <3>1
    <3>2. CASE m # n /\ t.kid[m][s] = n
      <4>1. KidHeight(t, bh, m, s) = 0 /\ m # c
        BY <1>1, <1>3, <1>10, <1>18, <3>2 DEF KidHeight
      <4> QED BY <1>5, <1>7, <1>14, <1>15, <1>18, <3>2, <4>1
    <3>3. CASE m # n /\ t.kid[m][s] # n
      <4>1. m # c
        BY <1>1, <1>18
      <4> QED BY <1>5, <1>7, <1>14, <1>15, <3>3, <4>1
    <3> QED BY <3>1, <3>2, <3>3
  <2>2. Balanced(u, NULL, "left")
    BY <1>2, <1>13, <2>1, EvenWithoutGap
  <2> QED BY <1>2, <1>12, <1>18, <2>2 DEF Firm
<1>19. CASE c = NULL /\ ~ t.red[n] /\ t.up[n] # NULL
  <2>1. PICK q \in Nodes, e \in Sides : q = t.up[n] /\ t.kid[q][e] = n /\ q # n
    BY <1>1, <1>3, <1>19
  <2>2. \A m \in Nodes, s \in Sides : t.kid[m][s] = n => m = q /\ s = e
    BY <1>1, <1>3, <2>1 DEF Sides, Other
  <2>3. ASSUME NEW m \in Nodes, NEW s \in Sides
        PROVE  bh2[m] = SideHeight(u, bh2, q, e, m, s) + (IF u.red[m] THEN 0 ELSE 1)
    <3>1. CASE m = n
      BY <1>5, <1>14, <1>16, <2>1, <3>1 DEF SideHeight
    <3>2. CASE m # n /\ t.kid[m][s] = n
      <4>1. KidHeight(t, bh, m, s) = 1 /\ m # c /\ m = q /\ s = e
        BY <1>1, <1>3, <1>10, <1>19, <2>2, <3>2 DEF KidHeight
      <4>2. KidHeight(u, bh2, m, s) = 0
        BY <1>14, <1>19, <3>2
      <4>3. SideHeight(u, bh2, q, e, m, s) = 1
        BY <4>1, <4>2 DEF SideHeight
      <4> QED BY <1>5, <1>7, <1>15, <3>2, <4>1, <4>3
    <3>3. CASE m # n /\ t.kid[m][s] # n
      <4>1. m # c /\ ~ (m = q /\ s = e)
        BY <1>1, <1>19, <2>1, <3>3
      <4>2. SideHeight(u, bh2, q, e, m, s) = KidHeight(u, bh2, m, s) + 0
        BY <4>1 DEF SideHeight
      <4>3. KidHeight(u, bh2, m, s) = KidHeight(t, bh, m, s) /\ KidHeight(t, bh, m, s) \in Nat
        BY <1>7, <1>14, <3>3, <4>1
      <4> QED BY <1>5, <1>7, <1>15, <3>3, <4>1, <4>2, <4>3
    <3> QED BY <3>1, <3>2, <3>3
  <2>4. Balanced(u, q, e)
    BY <1>2, <1>13, <2>3, BalancedWhen
  <2>5. u.kid[q][e] = NULL
    BY <1>5, <1>19, <2>1
  <2> QED BY <1>2, <1>12, <1>19, <2>1, <2>4, <2>5 DEF Firm
<1> QED BY <1>17, <1>18, <1>19

(* w takes the place, the links and the colour of v. *)
Replaced(t, u, v, w) ==
  /\ u \in Trees /\ u.root = IF t.up[v] = NULL THEN w ELSE t.root
  /\ \A m \in Nodes :
       /\ u.up[m] = IF m = v THEN NULL ELSE IF m = w THEN t.up[v]
                    ELSE IF t.up[m] = v THEN w ELSE t.up[m]
       /\ (u.red[m] <=> m # v /\ IF m = w THEN t.red[v] ELSE t.red[m])
  /\ \A m \in Nodes, s \in Sides : u.kid[m][s] =
       IF m = v THEN NULL ELSE IF m = w THEN t.kid[v][s]
       ELSE IF t.kid[m][s] = v THEN w ELSE t.kid[m][s]

(* A tree with another node in v's place is as good as before, gap and     *)
(* all.                                                                    *)
LEMMA ReplacedFirm ==
  ASSUME NEW t, NEW pos, NEW q, NEW e \in Sides, Firm(t, pos, {}, q, e),
           q = NULL \/ q \in InTree(t),
         NEW v \in InTree(t), NEW w \in Nodes, w \notin InTree(t),
         NEW u, Replaced(t, u, v, w)
  PROVE  \E pos2 : /\ Firm(u, pos2, {}, IF q = v THEN w ELSE q, e)
                   /\ InTree(u) = (InTree(t) \ {v}) \cup {w}
                   /\ pos2 = [pos EXCEPT ![w] = pos[v]]
<1>1. /\ Shape(t, pos) /\ t \in Trees /\ NoRedPair(t, {}) /\ LinksAgree(t)
      /\ v \in Nodes /\ NULL \notin Nodes /\ w # v /\ pos \in [Nodes -> Int]
  BY NullAssumption DEF Firm, Shape, InTree
<1>2. /\ \A m \in Nodes, s \in Sides : t.kid[m][s] \in Nodes \cup {NULL}
      /\ \A m \in Nodes, s \in Sides : t.kid[m][s] # NULL =>
           t.kid[m][s] \in InTree(t) /\ t.up[t.kid[m][s]] = m /\ t.kid[m][s] # m
             /\ t.kid[m][s] # t.root
             /\ m \in InTree(t)
      /\ \A m \in Nodes : t.up[m] # NULL => t.up[m] \in InTree(t)
           /\ \E s \in Sides : t.kid[t.up[m]][s] = m
  BY <1>1, KidsApart
<1>3. /\ t.up[w] = NULL /\ w # t.root /\ ~ t.red[w] /\ (\A s \in Sides : t.kid[w][s] = NULL)
      /\ (\A m \in Nodes, s \in Sides : t.kid[m][s] # w) /\ (\A m \in Nodes : t.up[m] # w)
  <2>1. t.up[w] = NULL /\ w # t.root
    BY DEF InTree
  <2>2. ~ t.red[w] /\ t.kid[w] = NoKids
    BY <1>1 DEF Shape
  <2>3. \A m \in Nodes, s \in Sides : t.kid[m][s] # w
    BY <1>1, <1>2
  <2>4. \A m \in Nodes : t.up[m] # w
    BY <1>1, <1>2
  <2> QED BY <2>1, <2>2, <2>3, <2>4 DEF NoKids
<1>4. t.up[v] \in Nodes \cup {NULL} /\ t.up[v] # v /\ \A s \in Sides : t.kid[v][s] # v
  <2>1. t.up[v] \in Nodes \cup {NULL}
    BY <1>1 DEF Trees
  <2> QED BY <1>1, <1>2, <2>1
<1>5. t.up[v] = NULL <=> v = t.root
  BY <1>1 DEF LinksAgree, InTree
<1>6. /\ u \in Trees /\ u.root = IF t.up[v] = NULL THEN w ELSE t.root
      /\ \A m \in Nodes :
           /\ u.up[m] = IF m = v THEN NULL ELSE IF m = w THEN t.up[v]
                        ELSE IF t.up[m] = v THEN w ELSE t.up[m]
           /\ (u.red[m] <=> m # v /\ IF m = w THEN t.red[v] ELSE t.red[m])
      /\ \A m \in Nodes, s \in Sides : u.kid[m][s] =
           IF m = v THEN NULL ELSE IF m = w THEN t.kid[v][s]
           ELSE IF t.kid[m][s] = v THEN w ELSE t.kid[m][s]
  BY DEF Replaced
<1>7. InTree(u) = (InTree(t) \ {v}) \cup {w}
  <2> SUFFICES ASSUME NEW m \in Nodes
               PROVE (m = u.root \/ u.up[m] # NULL) <=> m = w \/ (m # v /\ (m = t.root \/ t.up[m] # NULL))
    BY DEF InTree
  <2>1. CASE m = v
    BY <1>1, <1>5, <1>6, <2>1
  <2>2. CASE m = w
    BY <1>1, <1>6, <2>2
  <2>3. CASE m # v /\ m # w
    BY <1>1, <1>5, <1>6, <2>3
  <2> QED BY <2>1, <2>2, <2>3
<1>8. LinksAgree(u)
  <2>1. u.root # NULL => u.up[u.root] = NULL
    <3>1. CASE t.up[v] = NULL
      BY <1>1, <1>6, <3>1
    <3>2. CASE t.up[v] # NULL
      <4>1. t.root # NULL => t.root \in Nodes /\ t.up[t.root] = NULL /\ t.root # v /\ t.root # w
        BY <1>1, <1>3, <1>5, <3>2 DEF LinksAgree, Trees
      <4> QED BY <1>1, <1>6, <3>2, <4>1
    <3> QED BY <3>1, <3>2
  <2>2. ASSUME NEW m \in Nodes, NEW s \in Sides, u.kid[m][s] # NULL
        PROVE  u.up[u.kid[m][s]] = m
    <3>1. m # v
      BY <1>6, <2>2
    <3>2. CASE m = w
      <4>1. u.kid[m][s] = t.kid[v][s] /\ t.kid[v][s] # NULL
        BY <1>6, <2>2, <3>1, <3>2
      <4>2. t.kid[v][s] \in Nodes /\ t.up[t.kid[v][s]] = v /\ t.kid[v][s] # v /\ t.kid[v][s] # w
        BY <1>1, <1>2, <1>3, <4>1
      <4> QED BY <1>6, <3>2, <4>1, <4>2
    <3>3. CASE m # w /\ t.kid[m][s] = v
      <4>1. t.up[v] = m /\ u.kid[m][s] = w
        BY <1>1, <1>2, <1>6, <3>1, <3>3
      <4> QED BY <1>1, <1>6, <4>1
    <3>4. CASE m # w /\ t.kid[m][s] # v
      <4>1. u.kid[m][s] = t.kid[m][s] /\ t.kid[m][s] # NULL
        BY <1>6, <2>2, <3>1, <3>4
      <4>2. t.kid[m][s] \in Nodes /\ t.up[t.kid[m][s]] = m /\ t.kid[m][s] # w
        BY <1>2, <1>3, <4>1
      <4> QED BY <1>6, <3>1, <3>4, <4>1, <4>2
    <3> QED BY <3>2, <3>3, <3>4
  <2>3. ASSUME NEW m \in Nodes, u.up[m] # NULL
        PROVE  m \in {u.kid[u.up[m]][s] : s \in Sides}
    <3>1. m # v
      BY <1>6, <2>3
    <3>2. CASE m = w
      <4>1. u.up[m] = t.up[v] /\ t.up[v] # NULL /\ t.up[v] \in Nodes /\ t.up[v] # w /\ t.up[v] # v
        BY <1>1, <1>3, <1>4, <1>6, <2>3, <3>1, <3>2
      <4>2. PICK s \in Sides : t.kid[t.up[v]][s] = v
        BY <1>1, <1>2, <4>1
      <4>3. u.kid[t.up[v]][s] = w
        BY <1>6, <4>1, <4>2
      <4> QED BY <3>2, <4>1, <4>3
    <3>3. CASE m # w /\ t.up[m] = v
      <4>1. u.up[m] = w
        BY <1>6, <3>1, <3>3
      <4>2. PICK s \in Sides : t.kid[v][s] = m
        BY <1>1, <1>2, <3>3
      <4>3. u.kid[w][s] = m
        BY <1>1, <1>6, <4>2
      <4> QED BY <4>1, <4>3
    <3>4. CASE m # w /\ t.up[m] # v
      <4>1. u.up[m] = t.up[m] /\ t.up[m] \in Nodes /\ t.up[m] # NULL /\ t.up[m] # w
        BY <1>1, <1>3, <1>6, <2>3, <3>1, <3>4 DEF Trees
      <4>2. PICK s \in Sides : t.kid[t.up[m]][s] = m
        BY <1>2, <4>1
      <4>3. u.kid[t.up[m]][s] = m
        BY <1>6, <3>1, <3>4, <4>1, <4>2
      <4> QED BY <4>1, <4>3
    <3> QED BY <3>2, <3>3, <3>4
  <2> QED BY <2>1, <2>2, <2>3 DEF LinksAgree
<1>9. \A m \in Nodes \ InTree(u) : ~ u.red[m] /\ u.kid[m] = NoKids
  <2> SUFFICES ASSUME NEW m \in Nodes \ InTree(u) PROVE ~ u.red[m] /\ u.kid[m] = NoKids
    OBVIOUS
  <2>1. m # w /\ (m = v \/ m \notin InTree(t))
    BY <1>7
  <2>2. ~ u.red[m] /\ \A s \in Sides : u.kid[m][s] = NULL
    <3>1. CASE m = v
      BY <1>6, <3>1
    <3>2. CASE m # v
      <4>1. ~ t.red[m] /\ t.kid[m] = NoKids
        BY <1>1, <2>1, <3>2 DEF Shape
      <4> QED BY <1>1, <1>6, <2>1, <3>2, <4>1 DEF NoKids
    <3> QED BY <3>1, <3>2
  <2> QED BY <1>6, <2>2 DEF NoKids, Trees
<1>10. PICK lo, hi \in [Nodes -> Int] : Nested(t, pos, lo, hi)
  BY <1>1 DEF Shape, Ordered
<1> DEFINE pos2 == [pos EXCEPT ![w] = pos[v]]
           lo2  == [lo EXCEPT ![w] = lo[v]]
           hi2  == [hi EXCEPT ![w] = hi[v]]
<1>11. /\ pos2 \in [Nodes -> Int] /\ lo2 \in [Nodes -> Int] /\ hi2 \in [Nodes -> Int]
       /\ \A m \in Nodes : pos2[m] = IF m = w THEN pos[v] ELSE pos[m]
       /\ \A m \in Nodes : lo2[m] = IF m = w THEN lo[v] ELSE lo[m]
       /\ \A m \in Nodes : hi2[m] = IF m = w THEN hi[v] ELSE hi[m]
  BY <1>1, <1>10
<1> HIDE DEF pos2, lo2, hi2
<1>12. Nested(u, pos2, lo2, hi2)
  <2> SUFFICES ASSUME NEW m \in Nodes
               PROVE  /\ lo2[m] =< pos2[m] /\ pos2[m] =< hi2[m]
                      /\ u.kid[m]["left"] # NULL => lo2[m] =< lo2[u.kid[m]["left"]]
                           /\ hi2[u.kid[m]["left"]] < pos2[m]
                      /\ u.kid[m]["right"] # NULL => pos2[m] < lo2[u.kid[m]["right"]]
                           /\ hi2[u.kid[m]["right"]] =< hi2[m]
    BY DEF Nested
  <2>1. PICK k \in Nodes : k = IF m = w THEN v ELSE m
    BY <1>1
  <2>2. /\ lo[k] \in Int /\ hi[k] \in Int /\ pos[k] \in Int
        /\ lo[k] =< pos[k] /\ pos[k] =< hi[k]
        /\ t.kid[k]["left"] # NULL => lo[k] =< lo[t.kid[k]["left"]] /\ hi[t.kid[k]["left"]] < pos[k]
        /\ t.kid[k]["right"] # NULL => pos[k] < lo[t.kid[k]["right"]]
             /\ hi[t.kid[k]["right"]] =< hi[k]
    BY <1>1, <1>10 DEF Nested
  <2>3. lo2[m] = lo[k] /\ hi2[m] = hi[k] /\ pos2[m] = pos[k]
    BY <1>11, <2>1
  <2>4. ASSUME NEW s \in Sides, u.kid[m][s] # NULL
        PROVE  t.kid[k][s] # NULL /\ lo2[u.kid[m][s]] = lo[t.kid[k][s]]
                 /\ hi2[u.kid[m][s]] = hi[t.kid[k][s]]
    <3>1. m # v
      BY <1>6, <2>4
    <3>2. CASE m = w
      <4>1. u.kid[m][s] = t.kid[v][s] /\ k = v /\ t.kid[v][s] \in Nodes /\ t.kid[v][s] # w
        BY <1>2, <1>3, <1>6, <2>1, <2>4, <3>1, <3>2, <1>1
      <4> QED BY <1>11, <2>4, <4>1
    <3>3. CASE m # w /\ t.kid[m][s] = v
      <4>1. u.kid[m][s] = w /\ k = m
        BY <1>6, <2>1, <3>1, <3>3
      <4> QED BY <1>1, <1>11, <3>3, <4>1
    <3>4. CASE m # w /\ t.kid[m][s] # v
      <4>1. u.kid[m][s] = t.kid[m][s] /\ k = m /\ t.kid[m][s] \in Nodes /\ t.kid[m][s] # w
        BY <1>2, <1>3, <1>6, <2>1, <2>4, <3>1, <3>4
      <4> QED BY <1>11, <2>4, <4>1
    <3> QED BY <3>2, <3>3, <3>4
  <2>5. ASSUME u.kid[m]["left"] # NULL
        PROVE  lo2[m] =< lo2[u.kid[m]["left"]] /\ hi2[u.kid[m]["left"]] < pos2[m]
    <3>1. "left" \in Sides
      BY DEF Sides
    <3>2. t.kid[k]["left"] # NULL /\ lo2[u.kid[m]["left"]] = lo[t.kid[k]["left"]]
            /\ hi2[u.kid[m]["left"]] = hi[t.kid[k]["left"]]
      BY <2>4, <2>5, <3>1
    <3> QED BY <2>2, <2>3, <3>2
  <2>6. ASSUME u.kid[m]["right"] # NULL
        PROVE  pos2[m] < lo2[u.kid[m]["right"]] /\ hi2[u.kid[m]["right"]] =< hi2[m]
    <3>1. "right" \in Sides
      BY DEF Sides
    <3>2. t.kid[k]["right"] # NULL /\ lo2[u.kid[m]["right"]] = lo[t.kid[k]["right"]]
            /\ hi2[u.kid[m]["right"]] = hi[t.kid[k]["right"]]
      BY <2>4, <2>6, <3>1
    <3> QED BY <2>2, <2>3, <3>2
  <2>7. lo2[m] =< pos2[m] /\ pos2[m] =< hi2[m]
    BY <2>2, <2>3
  <2> QED BY <2>5, <2>6, <2>7
<1>13. Shape(u, pos2)
  BY <1>6, <1>8, <1>9, <1>11, <1>12 DEF Shape, Ordered
<1>14. NoRedPair(u, {})
  <2> SUFFICES ASSUME NEW m \in Nodes, u.red[m] PROVE u.up[m] \in Nodes /\ ~ u.red[u.up[m]]
    BY DEF NoRedPair
  <2>1. m # v
    BY <1>6
  <2>2. CASE m = w
    <3>1. t.red[v] /\ u.up[m] = t.up[v]
      BY <1>1, <1>6, <2>2
    <3>2. t.up[v] \in Nodes /\ ~ t.red[t.up[v]]
      BY <1>1, <3>1 DEF NoRedPair
    <3>3. t.up[v] # v /\ t.up[v] # w
      BY <1>1, <1>3, <1>4
    <3>4. ~ u.red[t.up[v]]
      BY <1>6, <3>2, <3>3
    <3> QED BY <3>1, <3>2, <3>4
  <2>3. CASE m # w
    <3>1. t.red[m]
      BY <1>6, <2>1, <2>3
    <3>2. t.up[m] \in Nodes /\ ~ t.red[t.up[m]]
      BY <1>1, <3>1 DEF NoRedPair
    <3>3. CASE t.up[m] = v
      BY <1>1, <1>6, <2>1, <2>3, <3>2, <3>3
    <3>4. CASE t.up[m] # v
      BY <1>3, <1>6, <2>1, <2>3, <3>2, <3>4
    <3> QED BY <3>3, <3>4
  <2> QED BY <2>2, <2>3
<1>15. PICK bh \in [Nodes -> Nat] : Even(t, bh, q, e)
  BY DEF Firm, Balanced
<1> DEFINE bh2 == [m \in Nodes |-> IF m = w THEN bh[v] ELSE IF m = v THEN 1 ELSE bh[m]]
<1>16. /\ bh2 \in [Nodes -> Nat] /\ bh2[w] = bh[v] /\ bh2[v] = 1
       /\ \A m \in Nodes : m # v /\ m # w => bh2[m] = bh[m]
  BY <1>1, <1>15
<1> HIDE DEF bh2
<1>17. \A m \in Nodes, s \in Sides :
         /\ SideHeight(t, bh, q, e, m, s) \in Nat
         /\ bh[m] = SideHeight(t, bh, q, e, m, s) + (IF t.red[m] THEN 0 ELSE 1)
  BY <1>1, <1>15, SideHeights
<1> DEFINE r == IF q = v THEN w ELSE q
<1>18. ASSUME NEW m \in Nodes, NEW s \in Sides
       PROVE  /\ m = w => KidHeight(u, bh2, m, s) = KidHeight(t, bh, v, s)
              /\ m # w /\ m # v => KidHeight(u, bh2, m, s) = KidHeight(t, bh, m, s)
              /\ m = v => KidHeight(u, bh2, m, s) = 0
  <2>1. CASE m = w
    <3>1. u.kid[m][s] = t.kid[v][s]
            /\ (t.kid[v][s] # NULL => t.kid[v][s] \in Nodes /\ t.kid[v][s] # v /\ t.kid[v][s] # w)
      BY <1>1, <1>2, <1>3, <1>6, <2>1
    <3> QED BY <1>1, <1>16, <2>1, <3>1 DEF KidHeight
  <2>2. CASE m = v
    BY <1>1, <1>6, <2>2 DEF KidHeight
  <2>3. CASE m # w /\ m # v /\ t.kid[m][s] = v
    <3>1. u.kid[m][s] = w
      BY <1>6, <2>3
    <3> QED BY <1>1, <1>16, <2>3, <3>1 DEF KidHeight
  <2>4. CASE m # w /\ m # v /\ t.kid[m][s] # v
    <3>1. u.kid[m][s] = t.kid[m][s]
            /\ (t.kid[m][s] # NULL => t.kid[m][s] \in Nodes /\ t.kid[m][s] # w)
      BY <1>2, <1>3, <1>6, <2>4
    <3> QED BY <1>16, <2>4, <3>1 DEF KidHeight
  <2> QED BY <2>1, <2>2, <2>3, <2>4
<1>19. q # w /\ r # v
  BY <1>1
<1>20. ASSUME NEW m \in Nodes, NEW s \in Sides
       PROVE  bh2[m] = SideHeight(u, bh2, r, e, m, s) + (IF u.red[m] THEN 0 ELSE 1)
  <2>1. CASE m = w
    <3>1. SideHeight(u, bh2, r, e, m, s) = SideHeight(t, bh, q, e, v, s)
      BY <1>18, <1>19, <2>1 DEF SideHeight
    <3>2. u.red[w] <=> t.red[v]
      BY <1>1, <1>6
    <3> QED BY <1>1, <1>16, <1>17, <2>1, <3>1, <3>2
  <2>2. CASE m = v
    <3>1. SideHeight(u, bh2, r, e, m, s) = 0 + 0
      BY <1>18, <1>19, <2>2 DEF SideHeight
    <3>2. ~ u.red[v]
      BY <1>1, <1>6
    <3> QED BY <1>16, <2>2, <3>1, <3>2
  <2>3. CASE m # v /\ m # w
    <3>1. m = r <=> m = q
      BY <2>3
    <3>2. SideHeight(u, bh2, r, e, m, s) = SideHeight(t, bh, q, e, m, s)
      BY <1>18, <2>3, <3>1 DEF SideHeight
    <3>3. u.red[m] <=> t.red[m]
      BY <1>6, <2>3
    <3> QED BY <1>16, <1>17, <2>3, <3>2, <3>3
  <2> QED BY <2>1, <2>2, <2>3
<1> HIDE DEF r
<1>21. Balanced(u, r, e)
  BY <1>13, <1>16, <1>20, BalancedWhen
<1>22. Firm(u, pos2, {}, r, e)
  BY <1>13, <1>14, <1>21 DEF Firm
<1>23. pos2 = [pos EXCEPT ![w] = pos[v]]
  BY DEF pos2
<1> HIDE DEF pos2
<1> QED BY <1>7, <1>22, <1>23 DEF r

(* n hangs nowhere any more and is blank. *)
IsUnlinked(t, n, u) ==
  /\ u \in Trees /\ u.root = t.root
  /\ \A m \in Nodes : /\ u.up[m] = IF m = n THEN NULL ELSE t.up[m]
                      /\ (u.red[m] <=> m # n /\ t.red[m])
  /\ \A m \in Nodes, s \in Sides : u.kid[m][s] = IF m = n THEN NULL ELSE t.kid[m][s]

(* Which is how the model keeps an erased node. *)
LEMMA UnlinkedNode ==
  ASSUME NEW t \in Trees, NEW n \in Nodes
  PROVE  IsUnlinked(t, n, Unlinked(t, n))
BY DEF Unlinked, Trees, NoKids, IsUnlinked

(* rb_replace_node. *)
LEMMA NodeReplaced ==
  ASSUME NEW t, NEW pos, Shape(t, pos), NEW v \in InTree(t), NEW w \in Nodes, w \notin InTree(t)
  PROVE  Replaced(t, rb_replace_node(t, v, w), v, w)
<1>1. /\ t \in Trees /\ LinksAgree(t) /\ v \in Nodes /\ NULL \notin Nodes /\ w # v
  BY NullAssumption DEF Shape, InTree
<1>2. /\ \A m \in Nodes, s \in Sides : t.kid[m][s] \in Nodes \cup {NULL}
      /\ \A m \in Nodes, s \in Sides : t.kid[m][s] # NULL =>
           t.kid[m][s] \in InTree(t) /\ t.up[t.kid[m][s]] = m /\ t.kid[m][s] # m
             /\ t.kid[m][s] # t.kid[m][Other(s)] /\ m \in InTree(t)
      /\ \A m \in Nodes : t.up[m] # NULL => t.up[m] \in InTree(t)
           /\ \E s \in Sides : t.kid[t.up[m]][s] = m
  BY KidsApart
<1>3. PICK l \in Nodes \cup {NULL}, r \in Nodes \cup {NULL}, p \in Nodes \cup {NULL} :
        l = t.kid[v]["left"] /\ r = t.kid[v]["right"] /\ p = t.up[v]
  BY <1>1, <1>2 DEF Sides, Trees
<1>4. /\ l # NULL => t.up[l] = v /\ l # w /\ l # v
      /\ r # NULL => t.up[r] = v /\ r # w /\ r # v
  BY <1>1, <1>2, <1>3 DEF Sides
<1>5. p # NULL => p \in Nodes /\ p # v /\ p # w /\ \E s \in Sides : t.kid[p][s] = v
  BY <1>1, <1>2, <1>3
<1>6. \A m \in Nodes : t.up[m] = v <=> m # NULL /\ (m = l \/ m = r)
  <2> SUFFICES ASSUME NEW m \in Nodes PROVE t.up[m] = v <=> m = l \/ m = r
    BY <1>1
  <2>1. ASSUME t.up[m] = v PROVE m = l \/ m = r
    <3>1. \E s \in Sides : t.kid[t.up[m]][s] = m
      BY <1>1, <1>2, <2>1
    <3> QED BY <1>3, <2>1, <3>1 DEF Sides
  <2> QED BY <1>1, <1>4, <2>1
<1> DEFINE t1 == [t EXCEPT !.up[w] = t.up[v], !.red[w] = t.red[v], !.kid[w] = t.kid[v]]
           t2 == IF l = NULL THEN t1 ELSE rb_set_parent(t1, l, w)
           t3 == IF r = NULL THEN t2 ELSE rb_set_parent(t2, r, w)
           t4 == change_child(t3, v, w, p)
           u  == Unlinked(t4, v)
<1>7. u = rb_replace_node(t, v, w)
  BY <1>3 DEF rb_replace_node
<1>8. /\ t1 \in Trees /\ t1.root = t.root
      /\ \A m \in Nodes : /\ t1.up[m] = IF m = w THEN p ELSE t.up[m]
                          /\ (t1.red[m] <=> IF m = w THEN t.red[v] ELSE t.red[m])
      /\ \A m \in Nodes, s \in Sides : t1.kid[m][s] = IF m = w THEN t.kid[v][s] ELSE t.kid[m][s]
  BY <1>1, <1>3 DEF Trees
<1>9. /\ t2 \in Trees /\ t2.root = t1.root /\ t2.red = t1.red /\ t2.kid = t1.kid
      /\ \A m \in Nodes : t2.up[m] = IF m = l THEN w ELSE t1.up[m]
  <2> HIDE DEF t1
  <2>1. CASE l = NULL
    BY <1>1, <1>8, <2>1
  <2>2. CASE l # NULL
    BY <1>8, <2>2 DEF rb_set_parent, Trees
  <2> QED BY <2>1, <2>2
<1>10. /\ t3 \in Trees /\ t3.root = t1.root /\ t3.red = t1.red /\ t3.kid = t1.kid
       /\ \A m \in Nodes : t3.up[m] = IF m = l \/ m = r THEN w ELSE t1.up[m]
  <2> HIDE DEF t1, t2
  <2>1. CASE r = NULL
    BY <1>1, <1>9, <2>1
  <2>2. CASE r # NULL
    BY <1>9, <2>2 DEF rb_set_parent, Trees
  <2> QED BY <2>1, <2>2
<1> HIDE DEF t1, t2, t3
<1>11. IsChildChanged(t3, v, w, p, t4)
  <2>1. p # NULL => /\ \E s \in Sides : t3.kid[p][s] = v
                    /\ t3.kid[p]["left"] # t3.kid[p]["right"]
    <3> SUFFICES ASSUME p # NULL
                 PROVE (\E s \in Sides : t3.kid[p][s] = v) /\ t3.kid[p]["left"] # t3.kid[p]["right"]
      OBVIOUS
    <3>1. \A s \in Sides : t3.kid[p][s] = t.kid[p][s]
      BY <1>5, <1>8, <1>10
    <3>2. PICK s \in Sides : t.kid[p][s] = v
      BY <1>5
    <3>3. t.kid[p][s] # t.kid[p][Other(s)]
      BY <1>1, <1>2, <1>5, <3>2
    <3> QED BY <3>1, <3>2, <3>3 DEF Sides, Other
  <2> QED BY <1>1, <1>10, <2>1, ChildChanged
<1> HIDE DEF t4
<1>12. IsUnlinked(t4, v, u)
  <2>1. t4 \in Trees
    BY <1>11 DEF IsChildChanged
  <2> QED BY <1>1, <2>1, UnlinkedNode
<1> HIDE DEF u
<1>13. \A m \in Nodes, s \in Sides : t.kid[m][s] = v => m = p
  BY <1>1, <1>2, <1>3
<1>14. \A m \in Nodes : u.up[m] = IF m = v THEN NULL ELSE IF m = w THEN p
                                  ELSE IF t.up[m] = v THEN w ELSE t.up[m]
  <2> SUFFICES ASSUME NEW m \in Nodes
               PROVE  u.up[m] = IF m = v THEN NULL ELSE IF m = w THEN p
                                ELSE IF t.up[m] = v THEN w ELSE t.up[m]
    OBVIOUS
  <2>1. u.up[m] = IF m = v THEN NULL ELSE t3.up[m]
    BY <1>11, <1>12 DEF IsUnlinked, IsChildChanged
  <2>2. t3.up[m] = IF m = l \/ m = r THEN w ELSE IF m = w THEN p ELSE t.up[m]
    BY <1>8, <1>10
  <2> QED BY <1>1, <1>4, <1>6, <2>1, <2>2
<1>15. \A m \in Nodes : u.red[m] <=> m # v /\ IF m = w THEN t.red[v] ELSE t.red[m]
  BY <1>8, <1>10, <1>11, <1>12 DEF IsUnlinked, IsChildChanged
<1>16. ASSUME NEW m \in Nodes, NEW s \in Sides
       PROVE  u.kid[m][s] = IF m = v THEN NULL ELSE IF m = w THEN t.kid[v][s]
                            ELSE IF t.kid[m][s] = v THEN w ELSE t.kid[m][s]
  <2>1. u.kid[m][s] = IF m = v THEN NULL ELSE IF m = p /\ t3.kid[m][s] = v THEN w ELSE t3.kid[m][s]
    BY <1>11, <1>12 DEF IsUnlinked, IsChildChanged
  <2>2. t3.kid[m][s] = IF m = w THEN t.kid[v][s] ELSE t.kid[m][s]
    BY <1>8, <1>10
  <2>3. CASE m = v
    BY <2>1, <2>3
  <2>4. CASE m = w
    BY <1>1, <1>5, <2>1, <2>2, <2>4
  <2>5. CASE m # v /\ m # w
    BY <1>13, <2>1, <2>2, <2>5
  <2> QED BY <2>3, <2>4, <2>5
<1>17. u \in Trees /\ u.root = IF p = NULL THEN w ELSE t.root
  BY <1>8, <1>10, <1>11, <1>12 DEF IsUnlinked, IsChildChanged
<1>18. Replaced(t, u, v, w)
  BY <1>3, <1>14, <1>15, <1>16, <1>17 DEF Replaced
<1> QED BY <1>7, <1>18

(* Case 1 of __rb_erase_augmented. *)
LEMMA FewKidsSpliced ==
  ASSUME NEW t, NEW pos, Firm(t, pos, {}, NULL, "left"), NEW n \in InTree(t),
         t.kid[n]["left"] = NULL \/ t.kid[n]["right"] = NULL
  PROVE  \E c \in Nodes \cup {NULL}, d \in Sides : \E u :
           /\ t.kid[n][d] = c /\ t.kid[n][Other(d)] = NULL /\ Spliced(t, u, n, c, d)
           /\ EraseFewKids(t, n) =
                [t |-> u, rebalance |-> IF c # NULL \/ t.red[n] THEN NULL ELSE t.up[n]]
<1>1. Shape(t, pos) /\ t \in Trees /\ n \in Nodes /\ NULL \notin Nodes
  BY NullAssumption DEF Firm, Shape, InTree
<1>2. /\ \A m \in Nodes, s \in Sides : t.kid[m][s] \in Nodes \cup {NULL}
      /\ \A m \in Nodes, s \in Sides : t.kid[m][s] # NULL =>
           t.up[t.kid[m][s]] = m /\ t.kid[m][s] # m /\ t.kid[m][s] # t.kid[m][Other(s)]
      /\ \A m \in Nodes : t.up[m] # NULL => \E s \in Sides : t.kid[t.up[m]][s] = m
  BY <1>1, KidsApart
<1>3. PICK d \in Sides : d = IF t.kid[n]["left"] = NULL THEN "right" ELSE "left"
  BY DEF Sides
<1>4. PICK c \in Nodes \cup {NULL}, p \in Nodes \cup {NULL} : c = t.kid[n][d] /\ p = t.up[n]
  BY <1>1, <1>2 DEF Trees
<1>5. c = (IF t.kid[n]["left"] = NULL THEN t.kid[n]["right"] ELSE t.kid[n]["left"])
        /\ t.kid[n][Other(d)] = NULL /\ t.kid[n][d] = c
  BY <1>3, <1>4, SidesAre DEF Other
<1>6. p # NULL => /\ p \in Nodes /\ p # n /\ \E s \in Sides : t.kid[p][s] = n
                  /\ t.kid[p]["left"] # t.kid[p]["right"]
  <2> SUFFICES ASSUME p # NULL PROVE /\ p \in Nodes /\ p # n /\ \E s \in Sides : t.kid[p][s] = n
                                     /\ t.kid[p]["left"] # t.kid[p]["right"]
    OBVIOUS
  <2>1. PICK s \in Sides : t.kid[p][s] = n
    BY <1>1, <1>2, <1>4
  <2>2. t.kid[p][s] # t.kid[p][Other(s)] /\ p # n
    BY <1>1, <1>2, <2>1
  <2> QED BY <2>1, <2>2 DEF Sides, Other
<1>7. c # NULL => c \in Nodes /\ c # n
  BY <1>1, <1>2, <1>4
<1> DEFINE t1 == change_child(t, n, c, p)
           t2 == IF c # NULL THEN rb_set_parent_color(t1, c, p, t.red[n]) ELSE t1
           u  == Unlinked(t2, n)
<1>8. EraseFewKids(t, n) = [t |-> u, rebalance |-> IF c # NULL \/ t.red[n] THEN NULL ELSE p]
  <2>1. EraseFewKids(t, n) = IF c # NULL
          THEN Erased(rb_set_parent_color(t1, c, p, t.red[n]), n, NULL)
                             ELSE Erased(t1, n, IF t.red[n] THEN NULL ELSE p)
    BY <1>4, <1>5 DEF EraseFewKids
  <2> HIDE DEF t1
  <2> QED BY <2>1 DEF Erased
<1>9. IsChildChanged(t, n, c, p, t1)
  BY <1>1, <1>6, ChildChanged
<1>10. IsPainted(t1, c, p, t.red[n], t2)
  <2>1. t1 \in Trees /\ t.red[n] \in BOOLEAN
    BY <1>1, <1>9 DEF IsChildChanged, Trees
  <2>2. t2 = PaintIfThere(t1, c, p, t.red[n])
    BY DEF PaintIfThere
  <2> HIDE DEF t1, t2
  <2> QED BY <2>1, <2>2, PaintedIfThere
<1> HIDE DEF t1, t2
<1>11. IsUnlinked(t2, n, u)
  <2>1. t2 \in Trees
    BY <1>10 DEF IsPainted
  <2> QED BY <1>1, <2>1, UnlinkedNode
<1> HIDE DEF u
<1>12. c # NULL => ~ t.red[n]
  <2> SUFFICES ASSUME c # NULL, t.red[n] PROVE FALSE
    OBVIOUS
  <2>1. PICK bh \in [Nodes -> Nat] : Even(t, bh, NULL, "left")
    BY DEF Firm, Balanced
  <2>2. \A m \in Nodes, s \in Sides :
          KidHeight(t, bh, m, s) \in Nat
            /\ bh[m] = KidHeight(t, bh, m, s) + (IF t.red[m] THEN 0 ELSE 1)
    BY <1>1, <2>1, NoGapHeights
  <2>3. Other(d) \in Sides /\ KidHeight(t, bh, n, Other(d)) = 0
    BY <1>5, SidesAre DEF KidHeight
  <2>4. bh[n] = 0
    BY <1>1, <2>2, <2>3
  <2>5. bh[c] = 0
    <3>1. KidHeight(t, bh, n, d) = bh[c]
      BY <1>4 DEF KidHeight
    <3> QED BY <1>1, <2>2, <2>4, <3>1
  <2>6. t.red[c]
    BY <1>7, <2>2, <2>5
  <2>7. t.up[c] = n
    BY <1>1, <1>2, <1>4
  <2> QED BY <1>7, <2>6, <2>7 DEF Firm, NoRedPair
<1>13. \A m \in Nodes, s \in Sides : t.kid[m][s] = n => m = p
  BY <1>1, <1>2, <1>4
<1>14. u \in Trees /\ u.root = IF p = NULL THEN c ELSE t.root
  BY <1>9, <1>10, <1>11 DEF IsChildChanged, IsPainted, IsUnlinked
<1>15. \A m \in Nodes :
         /\ u.up[m] = IF m = n THEN NULL ELSE IF m = c THEN p ELSE t.up[m]
         /\ (u.red[m] <=> m # n /\ m # c /\ t.red[m])
  <2> SUFFICES ASSUME NEW m \in Nodes
               PROVE  /\ u.up[m] = IF m = n THEN NULL ELSE IF m = c THEN p ELSE t.up[m]
                      /\ (u.red[m] <=> m # n /\ m # c /\ t.red[m])
    OBVIOUS
  <2>1. /\ u.up[m] = IF m = n THEN NULL ELSE t2.up[m]
        /\ (u.red[m] <=> m # n /\ t2.red[m])
    BY <1>11 DEF IsUnlinked
  <2>2. /\ t2.up[m] = IF m = c THEN p ELSE t1.up[m]
        /\ (t2.red[m] <=> IF m = c THEN t.red[n] ELSE t1.red[m])
    BY <1>10 DEF IsPainted
  <2>3. t1.up[m] = t.up[m] /\ (t1.red[m] <=> t.red[m])
    BY <1>9 DEF IsChildChanged
  <2>4. m = c => ~ t.red[n]
    BY <1>1, <1>12
  <2> QED BY <2>1, <2>2, <2>3, <2>4
<1>16. \A m \in Nodes, s \in Sides : u.kid[m][s] =
         IF m = n THEN NULL ELSE IF t.kid[m][s] = n THEN c ELSE t.kid[m][s]
  BY <1>9, <1>10, <1>11, <1>13 DEF IsChildChanged, IsPainted, IsUnlinked
<1>17. Spliced(t, u, n, c, d)
  BY <1>4, <1>14, <1>15, <1>16 DEF Spliced
<1> QED BY <1>4, <1>5, <1>8, <1>17

(***************************************************************************)
(* Cases 2 and 3 of __rb_erase_augmented: the successor s of n is spliced  *)
(* out and then replaces n.  Its relations, from the positions:            *)
(***************************************************************************)

(* Names for n's children, its successor and the nodes round that. *)
Heir(t, n, l, k, s, c, m, p) ==
  /\ l = t.kid[n]["left"] /\ k = t.kid[n]["right"] /\ s = LeftDeep(t, k)
  /\ c = t.kid[s]["right"] /\ m = t.up[s] /\ p = t.up[n]

(* Which of these may be the same node, and which pointers lead from one   *)
(* to the other.                                                           *)
HeirApart(t, n, l, k, s, c, m, p) ==
  /\ s # n /\ s # l /\ l # n /\ k # n /\ l # k /\ m # s /\ p # n
  /\ t.kid[s]["left"] = NULL /\ s \in InTree(t)
  /\ t.up[l] = n /\ t.up[k] = n /\ (s = k <=> m = n)
  /\ (s # k => t.kid[m]["left"] = s /\ m # l /\ m # p /\ m # NULL)
  /\ (c # NULL => t.up[c] = s /\ c # s /\ c # n /\ c # l /\ c # k)
  /\ (p # NULL => p # s /\ \E e \in Sides : t.kid[p][e] = n)

(* n having two children, they are there and apart. *)
LEMMA HeirFound ==
  ASSUME NEW t, NEW pos, Shape(t, pos), NEW n \in Nodes,
         NEW l \in Nodes, NEW k \in Nodes, NEW s, NEW c, NEW m, NEW p,
         Heir(t, n, l, k, s, c, m, p)
  PROVE  /\ s \in Nodes /\ c \in Nodes \cup {NULL} /\ m \in Nodes /\ p \in Nodes \cup {NULL}
         /\ HeirApart(t, n, l, k, s, c, m, p)
<1>1. t \in Trees /\ NULL \notin Nodes /\ pos \in [Nodes -> Int]
  BY NullAssumption DEF Shape
<1>2. /\ \A x \in Nodes, e \in Sides : t.kid[x][e] \in Nodes \cup {NULL}
      /\ \A x \in Nodes, e \in Sides : t.kid[x][e] # NULL =>
           /\ t.up[t.kid[x][e]] = x /\ t.kid[x][e] # x /\ t.kid[x][e] # t.kid[x][Other(e)]
           /\ t.kid[x][e] # t.root /\ t.kid[x][e] \in InTree(t)
      /\ \A x \in Nodes : t.up[x] # NULL => \E e \in Sides : t.kid[t.up[x]][e] = x
  BY KidsApart
<1>3. /\ l = t.kid[n]["left"] /\ k = t.kid[n]["right"] /\ s = LeftDeep(t, k)
      /\ c = t.kid[s]["right"] /\ m = t.up[s] /\ p = t.up[n]
  BY DEF Heir
<1>4. /\ "left" \in Sides /\ "right" \in Sides /\ "left" # "right"
      /\ Other("left") = "right"
  BY SidesAre DEF Sides, Other
<1>5. l # NULL /\ k # NULL
  BY <1>1
<1>6. t.up[l] = n /\ l # n /\ l \in InTree(t)
  BY <1>2, <1>3, <1>4, <1>5
<1>7. t.up[k] = n /\ k # n /\ k \in InTree(t)
  BY <1>2, <1>3, <1>4, <1>5
<1>8. l # k
  BY <1>2, <1>3, <1>4, <1>5
<1>9. PICK lo \in [Nodes -> Int], hi \in [Nodes -> Int] : Nested(t, pos, lo, hi)
  BY DEF Shape, Ordered
<1>10. /\ s \in InTree(t) /\ t.kid[s]["left"] = NULL /\ lo[k] =< lo[s]
       /\ \/ s = k
          \/ m \in InTree(t) /\ t.kid[m]["left"] = s
  BY <1>3, <1>7, <1>9, LeftDeepEnds
<1>11. s \in Nodes /\ m \in Nodes
  BY <1>3, <1>7, <1>10 DEF InTree
<1>12. c \in Nodes \cup {NULL} /\ p \in Nodes \cup {NULL}
  BY <1>1, <1>2, <1>3, <1>4, <1>11 DEF Trees
<1>13. /\ lo[n] \in Int /\ pos[n] \in Int /\ hi[n] \in Int
       /\ lo[l] \in Int /\ pos[l] \in Int /\ hi[l] \in Int
       /\ lo[k] \in Int /\ pos[k] \in Int /\ hi[k] \in Int
       /\ lo[s] \in Int /\ pos[s] \in Int /\ hi[s] \in Int
       /\ lo[m] \in Int /\ pos[m] \in Int /\ hi[m] \in Int
  BY <1>1, <1>9, <1>11
<1>14. /\ lo[n] =< pos[n] /\ lo[l] =< pos[l] /\ pos[l] =< hi[l] /\ lo[s] =< pos[s]
            /\ pos[s] =< hi[s]
       /\ hi[l] < pos[n] /\ pos[n] < lo[k]
  <2>1. hi[l] < pos[n] /\ pos[n] < lo[k]
    BY <1>3, <1>5, <1>9 DEF Nested
  <2> QED BY <1>9, <1>11, <2>1 DEF Nested
<1>15. pos[n] < lo[s] /\ lo[n] < lo[s] /\ hi[l] < lo[s]
  BY <1>10, <1>13, <1>14
<1>16. s # n /\ s # l
  BY <1>13, <1>14, <1>15
<1>17. s # NULL /\ n # NULL /\ m # NULL
  BY <1>1, <1>11
<1>18. c # NULL => t.up[c] = s /\ c # s
  BY <1>2, <1>3, <1>4, <1>11
<1>19. c # NULL => c # n
  <2> SUFFICES ASSUME c # NULL, c = n PROVE FALSE
    OBVIOUS
  <2>1. pos[s] < lo[n]
    BY <1>3, <1>9, <1>11, <1>17 DEF Nested
  <2> QED BY <1>13, <1>14, <1>15, <2>1
<1>20. c # NULL => c # l /\ c # k
  <2>1. c # NULL => c # l
    BY <1>6, <1>16, <1>18
  <2>2. c # NULL => c # k
    BY <1>7, <1>16, <1>18
  <2> QED BY <2>1, <2>2
<1>21. p # NULL => \E e \in Sides : t.kid[p][e] = n
  BY <1>2, <1>3
<1>22. p # n
  BY <1>2, <1>17, <1>21
<1>23. p # NULL => p # s
  <2> SUFFICES ASSUME p # NULL, p = s PROVE FALSE
    OBVIOUS
  <2>1. t.kid[s]["left"] = n \/ t.kid[s]["right"] = n
    BY <1>21 DEF Sides
  <2>2. t.kid[s]["right"] = n
    BY <1>10, <1>17, <2>1
  <2> QED BY <1>3, <1>17, <1>19, <2>2
<1>24. s = k <=> m = n
  <2>1. ASSUME s = k PROVE m = n
    BY <1>3, <1>7, <2>1
  <2>2. ASSUME m = n, s # k PROVE FALSE
    BY <1>3, <1>10, <1>16, <2>2
  <2> QED BY <2>1, <2>2
<1>25. m # s
  <2>1. CASE s = k
    BY <1>16, <1>24, <2>1
  <2>2. CASE s # k
    BY <1>2, <1>4, <1>10, <1>11, <1>17, <2>2
  <2> QED BY <2>1, <2>2
<1>26. s # k => t.kid[m]["left"] = s
  BY <1>10
<1>27. s # k => lo[m] =< lo[s] /\ hi[s] < pos[m]
  BY <1>9, <1>11, <1>17, <1>26 DEF Nested
<1>28. s # k => m # l
  <2> SUFFICES ASSUME s # k, m = l PROVE FALSE
    OBVIOUS
  <2> QED BY <1>13, <1>14, <1>15, <1>27
<1>29. s # k => m # p
  <2> SUFFICES ASSUME s # k, m = p PROVE FALSE
    OBVIOUS
  <2>1. t.kid[m]["left"] = n \/ t.kid[m]["right"] = n
    BY <1>17, <1>21 DEF Sides
  <2>2. t.kid[m]["right"] = n
    BY <1>16, <1>26, <2>1
  <2>3. pos[m] < lo[n]
    BY <1>9, <1>11, <1>17, <2>2 DEF Nested
  <2> QED BY <1>13, <1>14, <1>15, <1>27, <2>3
<1> QED BY <1>6, <1>7, <1>8, <1>10, <1>11, <1>12, <1>16, <1>17, <1>18, <1>19, <1>20, <1>21,
      <1>22, <1>23,
           <1>24, <1>25, <1>26, <1>28, <1>29 DEF HeirApart

(* n gets the parent p and keeps its colour. *)
IsParentSet(t, n, p, u) ==
  /\ u \in Trees /\ u.root = t.root /\ u.red = t.red /\ u.kid = t.kid
  /\ \A m \in Nodes : u.up[m] = IF m = n THEN p ELSE t.up[m]

(* rb_set_parent does. *)
LEMMA ParentSet ==
  ASSUME NEW t \in Trees, NEW n \in Nodes, NEW p \in Nodes \cup {NULL}
  PROVE  IsParentSet(t, n, p, rb_set_parent(t, n, p))
BY DEF rb_set_parent, Trees, IsParentSet

(* What EraseTwoKids does, node by node. *)
IsMoved(t, u, n, l, k, s, c, m, p) ==
  /\ u \in Trees /\ u.root = IF p = NULL THEN s ELSE t.root
  /\ \A x \in Nodes :
       /\ u.up[x] = IF x = n THEN NULL ELSE IF x = c THEN (IF s = k THEN s ELSE m)
                    ELSE IF x = s THEN p ELSE IF x = l \/ x = k THEN s ELSE t.up[x]
       /\ (u.red[x] <=> x # n /\ x # c /\ IF x = s THEN t.red[n] ELSE t.red[x])
  /\ \A x \in Nodes, e \in Sides : u.kid[x][e] =
       IF x = n THEN NULL
       ELSE IF x = s THEN (IF e = "left" THEN l ELSE IF s = k THEN c ELSE k)
       ELSE IF x = p /\ t.kid[x][e] = n THEN s
       ELSE IF s # k /\ x = m /\ e = "left" THEN c ELSE t.kid[x][e]

(* EraseTwoKids leaves such a tree and begins the loop where s hung. *)
Moves(t, n, l, k, s, c, m, p) ==
  \E u : /\ IsMoved(t, u, n, l, k, s, c, m, p)
         /\ EraseTwoKids(t, n) =
              [t |-> u, rebalance |-> IF c # NULL \/ t.red[s] THEN NULL
                                      ELSE IF s = k THEN s ELSE m]

(* The stores of Cases 2 and 3, in the order of the code, come to this. *)
LEMMA SuccessorMoved ==
  ASSUME NEW t, NEW pos, Shape(t, pos), NEW n \in Nodes, NEW l \in Nodes, NEW k \in Nodes,
         NEW s \in Nodes, NEW c \in Nodes \cup {NULL}, NEW m \in Nodes, NEW p \in Nodes \cup {NULL},
         Heir(t, n, l, k, s, c, m, p), HeirApart(t, n, l, k, s, c, m, p)
  PROVE  Moves(t, n, l, k, s, c, m, p)
<1>1. t \in Trees /\ NULL \notin Nodes /\ t.red[n] \in BOOLEAN
  BY NullAssumption DEF Shape, Trees
<1>2. /\ s # n /\ s # l /\ l # n /\ k # n /\ l # k /\ m # s /\ p # n
      /\ (s # k => m # l /\ m # p)
      /\ (c # NULL => c # s /\ c # n /\ c # l /\ c # k)
      /\ (p # NULL => p # s /\ \E e \in Sides : t.kid[p][e] = n)
  BY DEF HeirApart
<1>3. "left" \in Sides /\ "right" \in Sides /\ "left" # "right"
        /\ \A e \in Sides : e = "left" \/ e = "right"
  BY SidesAre DEF Sides
<1> DEFINE above == IF s = k THEN s ELSE m
           a  == SetKid(SetKid(t, m, "left", c), s, "right", k)
           t1 == IF s = k THEN t ELSE rb_set_parent(a, k, s)
           b  == SetKid(t1, s, "left", l)
           t2 == rb_set_parent(b, l, s)
           t3 == change_child(t2, n, s, p)
           t4 == rb_set_parent_color(t3, s, p, t.red[n])
           t5 == PaintIfThere(t4, c, above, FALSE)
           u  == Unlinked(t5, n)
<1>4. EraseTwoKids(t, n) = [t |-> u, rebalance |-> IF c # NULL \/ t.red[s] THEN NULL ELSE above]
  <2>1. EraseTwoKids(t, n) = IF c # NULL
          THEN Erased(rb_set_parent_color(t4, c, above, FALSE), n, NULL)
          ELSE Erased(t4, n, IF t.red[s] THEN NULL ELSE above)
    <3>1. above = IF s = k THEN s ELSE m
      OBVIOUS
    <3>2. t1 = IF s = k THEN t
            ELSE rb_set_parent(SetKid(SetKid(t, above, "left", c), s, "right", k), k, s)
      OBVIOUS
    <3>3. t4 = rb_set_parent_color(change_child(rb_set_parent(SetKid(t1, s, "left", l), l, s), n, s, p), s, p, t.red[n])
      OBVIOUS
    <3> HIDE DEF above, a, t1, b, t2, t3, t4, t5, u
    <3> QED BY <3>1, <3>2, <3>3, Zenon DEF EraseTwoKids, Heir
  <2>2. CASE c # NULL
    <3> HIDE DEF above, t4
    <3> QED BY <2>1, <2>2 DEF Erased, PaintIfThere
  <2>3. CASE c = NULL
    <3> HIDE DEF above, t4
    <3> QED BY <2>1, <2>3 DEF Erased, PaintIfThere
  <2> QED BY <2>2, <2>3
<1>5. /\ t1 \in Trees /\ t1.root = t.root /\ t1.red = t.red
      /\ \A x \in Nodes : t1.up[x] = IF s # k /\ x = k THEN s ELSE t.up[x]
      /\ \A x \in Nodes, e \in Sides : t1.kid[x][e] =
           IF s # k /\ x = m /\ e = "left" THEN c ELSE IF s # k /\ x = s /\ e = "right" THEN k
           ELSE t.kid[x][e]
  <2>1. CASE s = k
    BY <1>1, <2>1
  <2>2. CASE s # k
    <3>1. IsKidsSet(t, m, "left", c, s, "right", k, a)
      BY <1>1, <1>2, <1>3, KidsSet
    <3> HIDE DEF a
    <3>2. a \in Trees
      BY <3>1 DEF IsKidsSet
    <3>3. IsParentSet(a, k, s, rb_set_parent(a, k, s))
      BY <3>2, ParentSet
    <3>4. IsParentSet(a, k, s, t1)
      BY <2>2, <3>3
    <3> HIDE DEF t1
    <3> QED BY <2>2, <3>1, <3>4 DEF IsParentSet, IsKidsSet
  <2> QED BY <2>1, <2>2
<1> HIDE DEF t1
<1>6. IsKidSet(t1, s, "left", l, b)
  BY <1>3, <1>5, KidSet
<1>7. IsParentSet(b, l, s, t2)
  <2>1. b \in Trees
    BY <1>6 DEF IsKidSet
  <2> HIDE DEF b
  <2> QED BY <2>1, ParentSet
<1> HIDE DEF b, t2
<1>8. /\ t2 \in Trees /\ t2.root = t.root /\ t2.red = t.red
      /\ \A x \in Nodes : t2.up[x] = IF x = l THEN s ELSE t1.up[x]
      /\ \A x \in Nodes, e \in Sides : t2.kid[x][e] = IF x = s /\ e = "left" THEN l
           ELSE t1.kid[x][e]
  BY <1>5, <1>6, <1>7 DEF IsKidSet, IsParentSet
<1>9. p # NULL => \A e \in Sides : t2.kid[p][e] = t.kid[p][e]
  BY <1>2, <1>5, <1>8
<1>10. IsChildChanged(t2, n, s, p, t3)
  <2>1. p # NULL => /\ \E e \in Sides : t2.kid[p][e] = n
                    /\ t2.kid[p]["left"] # t2.kid[p]["right"]
    <3> SUFFICES ASSUME p # NULL
                 PROVE (\E e \in Sides : t.kid[p][e] = n) /\ t.kid[p]["left"] # t.kid[p]["right"]
      BY <1>3, <1>9
    <3>1. PICK e \in Sides : t.kid[p][e] = n
      BY <1>2
    <3>2. t.kid[p][e] # t.kid[p][Other(e)]
      BY <1>1, <3>1, KidsApart
    <3> QED BY <3>1, <3>2 DEF Sides, Other
  <2> QED BY <1>8, <2>1, ChildChanged
<1> HIDE DEF t3
<1>11. IsPainted(t3, s, p, t.red[n], t4)
  <2>1. t3 \in Trees
    BY <1>10 DEF IsChildChanged
  <2> QED BY <1>1, <2>1, Painted
<1> HIDE DEF t4
<1>12. IsPainted(t4, c, above, FALSE, t5)
  <2>1. t4 \in Trees
    BY <1>11 DEF IsPainted
  <2> QED BY <2>1, PaintedIfThere
<1> HIDE DEF t5
<1>13. IsUnlinked(t5, n, u)
  <2>1. t5 \in Trees
    BY <1>12 DEF IsPainted
  <2> QED BY <2>1, UnlinkedNode
<1> HIDE DEF u
<1>14. u \in Trees /\ u.root = IF p = NULL THEN s ELSE t.root
  BY <1>8, <1>10, <1>11, <1>12, <1>13 DEF IsChildChanged, IsPainted, IsUnlinked
<1>15. ASSUME NEW x \in Nodes
       PROVE  /\ u.up[x] = IF x = n THEN NULL ELSE IF x = c THEN above ELSE IF x = s THEN p
                           ELSE IF x = l THEN s ELSE t1.up[x]
              /\ (u.red[x] <=> x # n /\ x # c /\ IF x = s THEN t.red[n] ELSE t.red[x])
  <2>1. /\ u.up[x] = IF x = n THEN NULL ELSE t5.up[x]
        /\ (u.red[x] <=> x # n /\ t5.red[x])
    BY <1>13 DEF IsUnlinked
  <2>2. /\ t5.up[x] = IF x = c THEN above ELSE t4.up[x]
        /\ (t5.red[x] <=> x # c /\ t4.red[x])
    BY <1>12 DEF IsPainted
  <2>3. /\ t4.up[x] = IF x = s THEN p ELSE t3.up[x]
        /\ (t4.red[x] <=> IF x = s THEN t.red[n] ELSE t3.red[x])
    BY <1>11 DEF IsPainted
  <2>4. t3.up = t2.up /\ t3.red = t.red
    BY <1>8, <1>10 DEF IsChildChanged
  <2>5. t2.up[x] = IF x = l THEN s ELSE t1.up[x]
    BY <1>8
  <2> HIDE DEF above
  <2> QED BY <2>1, <2>2, <2>3, <2>4, <2>5
<1>16. \A x \in Nodes : u.up[x] = IF x = n THEN NULL ELSE IF x = c THEN above
                    ELSE IF x = s THEN p ELSE IF x = l \/ x = k THEN s ELSE t.up[x]
  <2> SUFFICES ASSUME NEW x \in Nodes
               PROVE  u.up[x] = IF x = n THEN NULL ELSE IF x = c THEN above
                    ELSE IF x = s THEN p ELSE IF x = l \/ x = k THEN s ELSE t.up[x]
    OBVIOUS
  <2>1. t1.up[x] = IF s # k /\ x = k THEN s ELSE t.up[x]
    BY <1>5
  <2> HIDE DEF above
  <2> QED BY <1>15, <2>1
<1>17. ASSUME NEW x \in Nodes, NEW e \in Sides
       PROVE  u.kid[x][e] =
         IF x = n THEN NULL
         ELSE IF x = s THEN (IF e = "left" THEN l ELSE IF s = k THEN c ELSE k)
         ELSE IF x = p /\ t.kid[x][e] = n THEN s
         ELSE IF s # k /\ x = m /\ e = "left" THEN c ELSE t.kid[x][e]
  <2>1. u.kid[x][e] = IF x = n THEN NULL ELSE t5.kid[x][e]
    BY <1>13 DEF IsUnlinked
  <2>2. t5.kid = t3.kid
    BY <1>11, <1>12 DEF IsPainted
  <2>3. t3.kid[x][e] = IF x = p /\ t2.kid[x][e] = n THEN s ELSE t2.kid[x][e]
    BY <1>10 DEF IsChildChanged
  <2>4. t2.kid[x][e] = IF x = s /\ e = "left" THEN l ELSE t1.kid[x][e]
    BY <1>8
  <2>5. t1.kid[x][e] = IF s # k /\ x = m /\ e = "left" THEN c
          ELSE IF s # k /\ x = s /\ e = "right" THEN k
                       ELSE t.kid[x][e]
    BY <1>5
  <2>6. CASE x = n
    BY <2>1, <2>6
  <2>7. CASE x = s
    <3>1. x # p /\ x # n /\ x # m
      BY <1>1, <1>2, <2>7
    <3>2. u.kid[x][e] = IF e = "left" THEN l ELSE t1.kid[x][e]
      BY <2>1, <2>2, <2>3, <2>4, <2>7, <3>1
    <3>3. e # "left" => e = "right" /\ t.kid[s][e] = c
      BY <1>3 DEF Heir
    <3> QED BY <1>3, <2>5, <2>7, <3>1, <3>2, <3>3
  <2>8. CASE x # n /\ x # s
    <3>1. t2.kid[x][e] = IF s # k /\ x = m /\ e = "left" THEN c ELSE t.kid[x][e]
      BY <2>4, <2>5, <2>8
    <3>2. u.kid[x][e] = IF x = p /\ t2.kid[x][e] = n THEN s ELSE t2.kid[x][e]
      BY <2>1, <2>2, <2>3, <2>8
    <3>3. x = p => t2.kid[x][e] = t.kid[x][e]
      BY <1>1, <1>9
    <3>4. CASE x = p
      BY <1>1, <1>2, <2>8, <3>2, <3>3, <3>4
    <3>5. CASE x # p
      BY <2>8, <3>1, <3>2, <3>5
    <3> QED BY <3>4, <3>5
  <2> QED BY <2>6, <2>7, <2>8
<1>18. IsMoved(t, u, n, l, k, s, c, m, p)
  BY <1>14, <1>15, <1>16, <1>17 DEF IsMoved
<1> QED BY <1>4, <1>18 DEF Moves

(* Moving the successor is splicing it out and then replacing n by it. *)
LEMMA MovedReplaces ==
  ASSUME NEW t, NEW pos, Shape(t, pos), NEW n \in Nodes, NEW l \in Nodes, NEW k \in Nodes,
         NEW s \in Nodes, NEW c \in Nodes \cup {NULL}, NEW m \in Nodes, NEW p \in Nodes \cup {NULL},
         Heir(t, n, l, k, s, c, m, p), HeirApart(t, n, l, k, s, c, m, p),
         NEW u, IsMoved(t, u, n, l, k, s, c, m, p)
  PROVE  \E v : Spliced(t, v, s, c, "right") /\ Replaced(v, u, n, s)
<1>1. t \in Trees /\ NULL \notin Nodes
  BY NullAssumption DEF Shape
<1>2. /\ s # n /\ s # l /\ m # s /\ (s = k <=> m = n) /\ t.up[l] = n /\ t.up[k] = n
      /\ c # s /\ c # n
  BY <1>1 DEF HeirApart
<1>3. /\ t.kid[n]["left"] = l /\ t.kid[n]["right"] = k /\ t.kid[s]["right"] = c
      /\ t.up[s] = m /\ t.up[n] = p
  BY DEF Heir
<1>4. /\ \A x \in Nodes, e \in Sides : t.kid[x][e] \in Nodes \cup {NULL}
      /\ \A x \in Nodes, e \in Sides : t.kid[x][e] # NULL => t.up[t.kid[x][e]] = x
      /\ \A x \in Nodes, e \in Sides : t.kid[x][e] # NULL => t.kid[x][e] # t.kid[x][Other(e)]
      /\ \A x \in Nodes : t.up[x] # NULL => \E e \in Sides : t.kid[t.up[x]][e] = x
  BY KidsApart
<1>5. "left" \in Sides /\ "right" \in Sides /\ "left" # "right"
        /\ \A e \in Sides : e = "left" \/ e = "right"
  BY SidesAre DEF Sides
<1> DEFINE v == [root |-> t.root,
                 up   |-> [x \in Nodes |-> IF x = s THEN NULL ELSE IF x = c THEN m ELSE t.up[x]],
                 red  |-> [x \in Nodes |-> x # s /\ x # c /\ t.red[x]],
                 kid  |-> [x \in Nodes |-> [e \in Sides |->
                             IF x = s THEN NULL ELSE IF t.kid[x][e] = s THEN c ELSE t.kid[x][e]]]]
<1>6. /\ v \in Trees /\ v.root = t.root
      /\ \A x \in Nodes : /\ v.up[x] = IF x = s THEN NULL ELSE IF x = c THEN m ELSE t.up[x]
                          /\ (v.red[x] <=> x # s /\ x # c /\ t.red[x])
      /\ \A x \in Nodes, e \in Sides :
           v.kid[x][e] = IF x = s THEN NULL ELSE IF t.kid[x][e] = s THEN c ELSE t.kid[x][e]
  <2>1. v.up \in [Nodes -> Nodes \cup {NULL}]
    BY <1>1 DEF Trees
  <2>2. v.red \in [Nodes -> BOOLEAN]
    BY <1>1 DEF Trees
  <2>3. v.kid \in [Nodes -> [Sides -> Nodes \cup {NULL}]]
    BY <1>4
  <2>4. v.root \in Nodes \cup {NULL}
    BY <1>1 DEF Trees
  <2> QED BY <2>1, <2>2, <2>3, <2>4 DEF Trees
<1> HIDE DEF v
<1>7. Spliced(t, v, s, c, "right")
  <2>1. t.up[s] # NULL /\ t.up[s] = m
    BY <1>1, <1>3
  <2> QED BY <1>6, <2>1 DEF Spliced
<1>8. v.up[n] = p
  BY <1>2, <1>3, <1>6
<1>9. ASSUME NEW x \in Nodes
      PROVE  u.up[x] = IF x = n THEN NULL ELSE IF x = s THEN v.up[n]
                       ELSE IF v.up[x] = n THEN s ELSE v.up[x]
  <2>1. u.up[x] = IF x = n THEN NULL ELSE IF x = c THEN (IF s = k THEN s ELSE m)
                  ELSE IF x = s THEN p ELSE IF x = l \/ x = k THEN s ELSE t.up[x]
    BY DEF IsMoved
  <2>2. v.up[x] = IF x = s THEN NULL ELSE IF x = c THEN m ELSE t.up[x]
    BY <1>6
  <2>3. CASE x = n \/ x = s
    BY <1>2, <1>8, <2>1, <2>3
  <2>4. CASE x # n /\ x # s /\ x = c
    BY <1>2, <2>1, <2>2, <2>4
  <2>5. CASE x # n /\ x # s /\ x # c
    <3>1. t.up[x] = n <=> (x = l \/ x = k)
      <4>1. ASSUME t.up[x] = n PROVE x = l \/ x = k
        <5>1. PICK e \in Sides : t.kid[n][e] = x
          BY <1>1, <1>4, <4>1
        <5> QED BY <1>3, <1>5, <5>1
      <4> QED BY <1>2, <4>1
    <3>2. v.up[x] = t.up[x]
      BY <2>2, <2>5
    <3>3. u.up[x] = IF x = l \/ x = k THEN s ELSE t.up[x]
      BY <2>1, <2>5
    <3> QED BY <2>5, <3>1, <3>2, <3>3
  <2> QED BY <2>3, <2>4, <2>5
<1>10. ASSUME NEW x \in Nodes
       PROVE  u.red[x] <=> x # n /\ IF x = s THEN v.red[n] ELSE v.red[x]
  <2>1. u.red[x] <=> x # n /\ x # c /\ IF x = s THEN t.red[n] ELSE t.red[x]
    BY DEF IsMoved
  <2>2. v.red[n] <=> t.red[n]
    BY <1>2, <1>6
  <2>3. v.red[x] <=> x # s /\ x # c /\ t.red[x]
    BY <1>6
  <2> QED BY <1>2, <2>1, <2>2, <2>3
<1>11. ASSUME NEW x \in Nodes, NEW e \in Sides
       PROVE  u.kid[x][e] = IF x = n THEN NULL ELSE IF x = s THEN v.kid[n][e]
                            ELSE IF v.kid[x][e] = n THEN s ELSE v.kid[x][e]
  <2>1. u.kid[x][e] = IF x = n THEN NULL
         ELSE IF x = s THEN (IF e = "left" THEN l ELSE IF s = k THEN c ELSE k)
         ELSE IF x = p /\ t.kid[x][e] = n THEN s
         ELSE IF s # k /\ x = m /\ e = "left" THEN c ELSE t.kid[x][e]
    BY DEF IsMoved
  <2>2. v.kid[x][e] = IF x = s THEN NULL ELSE IF t.kid[x][e] = s THEN c ELSE t.kid[x][e]
    BY <1>6
  <2>3. CASE x = n
    BY <2>1, <2>3
  <2>4. CASE x = s
    <3>1. v.kid[n][e] = IF t.kid[n][e] = s THEN c ELSE t.kid[n][e]
      BY <1>2, <1>6
    <3>2. CASE e = "left"
      BY <1>2, <1>3, <2>1, <2>4, <3>1, <3>2
    <3>3. CASE e = "right"
      <4>1. u.kid[x][e] = IF s = k THEN c ELSE k
        BY <1>2, <1>5, <2>1, <2>4, <3>3
      <4>2. v.kid[n][e] = IF k = s THEN c ELSE k
        BY <1>3, <3>1, <3>3
      <4> QED BY <1>2, <2>4, <4>1, <4>2
    <3> QED BY <1>5, <3>2, <3>3
  <2>5. CASE x # n /\ x # s
    <3>1. t.kid[x][e] = n => x = p
      BY <1>1, <1>3, <1>4
    <3>2. t.kid[x][e] = s <=> (s # k /\ x = m /\ e = "left")
      <4>1. ASSUME t.kid[x][e] = s PROVE x = m
        BY <1>1, <1>3, <1>4, <4>1
      <4>2. s # k => t.kid[m]["left"] = s
        BY DEF HeirApart
      <4>3. ASSUME t.kid[x][e] = s, e = "right" PROVE FALSE
        <5>1. x = m /\ s # k
          BY <1>2, <2>5, <4>1, <4>3
        <5>2. t.kid[m]["left"] = s /\ t.kid[m]["right"] = s
          BY <4>2, <4>3, <5>1
        <5>3. t.kid[m]["left"] # t.kid[m][Other("left")] /\ Other("left") = "right"
          BY <1>1, <1>4, <1>5, <5>2 DEF Other
        <5> QED BY <5>2, <5>3
      <4> QED BY <1>2, <1>5, <2>5, <4>1, <4>2, <4>3
    <3>3. v.kid[x][e] = IF t.kid[x][e] = s THEN c ELSE t.kid[x][e]
      BY <2>2, <2>5
    <3>4. u.kid[x][e] = IF x = p /\ t.kid[x][e] = n THEN s
                        ELSE IF s # k /\ x = m /\ e = "left" THEN c ELSE t.kid[x][e]
      BY <2>1, <2>5
    <3>5. CASE t.kid[x][e] = n
      BY <1>2, <2>5, <3>1, <3>3, <3>4, <3>5
    <3>6. CASE t.kid[x][e] # n /\ t.kid[x][e] = s
      BY <1>2, <2>5, <3>2, <3>3, <3>4, <3>6
    <3>7. CASE t.kid[x][e] # n /\ t.kid[x][e] # s
      BY <2>5, <3>2, <3>3, <3>4, <3>7
    <3> QED BY <3>5, <3>6, <3>7
  <2> QED BY <2>3, <2>4, <2>5
<1>12. u \in Trees /\ u.root = IF v.up[n] = NULL THEN s ELSE v.root
  BY <1>6, <1>8 DEF IsMoved
<1>13. Replaced(v, u, n, s)
  BY <1>9, <1>10, <1>11, <1>12 DEF Replaced
<1> QED BY <1>7, <1>13

(* What an erasure leaves: the other nodes in their order, and a red-black *)
(* tree or one with a gap where the loop begins.                           *)
Unhung(t, pos, n, e) ==
  \E pos2 \in [Nodes -> Int] :
    /\ InTree(e.t) = InTree(t) \ {n} /\ SameOrder(pos, pos2, InTree(t) \ {n})
    /\ e.rebalance = NULL => Firm(e.t, pos2, {}, NULL, "left")
    /\ e.rebalance # NULL =>
         /\ e.rebalance \in Nodes
         /\ \E s \in Sides :
              e.t.kid[e.rebalance][s] = NULL /\ Firm(e.t, pos2, {}, e.rebalance, s)

(* The fields of what __rb_erase_augmented returns. *)
LEMMA ErasedHas ==
  ASSUME NEW u, NEW q, NEW e, e = [t |-> u, rebalance |-> q]
  PROVE  e.t = u /\ e.rebalance = q
OBVIOUS

(* So in Case 1, where n has at most one child. *)
LEMMA FewKidsUnhung ==
  ASSUME NEW t, NEW pos, Firm(t, pos, {}, NULL, "left"), NEW n \in InTree(t),
         t.kid[n]["left"] = NULL \/ t.kid[n]["right"] = NULL
  PROVE  Unhung(t, pos, n, EraseFewKids(t, n))
<1>1. /\ Shape(t, pos) /\ t \in Trees /\ n \in Nodes /\ NULL \notin Nodes
      /\ t.up[n] \in Nodes \cup {NULL} /\ pos \in [Nodes -> Int]
  BY NullAssumption DEF Firm, Shape, InTree, Trees
<1>2a. PICK c \in Nodes \cup {NULL}, d \in Sides : \E u :
        /\ t.kid[n][d] = c /\ t.kid[n][Other(d)] = NULL /\ Spliced(t, u, n, c, d)
        /\ EraseFewKids(t, n) =
             [t |-> u, rebalance |-> IF c # NULL \/ t.red[n] THEN NULL ELSE t.up[n]]
  BY FewKidsSpliced
<1>2. PICK u :
        /\ t.kid[n][d] = c /\ t.kid[n][Other(d)] = NULL /\ Spliced(t, u, n, c, d)
        /\ EraseFewKids(t, n) =
             [t |-> u, rebalance |-> IF c # NULL \/ t.red[n] THEN NULL ELSE t.up[n]]
  BY <1>2a
<1> DEFINE e == EraseFewKids(t, n)
<1>3. e.t = u /\ e.rebalance = IF c # NULL \/ t.red[n] THEN NULL ELSE t.up[n]
  BY <1>2, ErasedHas
<1> HIDE DEF e
<1>4. InTree(u) = InTree(t) \ {n}
  BY <1>1, <1>2, SplicedShape
<1>5. /\ (c # NULL \/ t.red[n] \/ t.up[n] = NULL => Firm(u, pos, {}, NULL, "left"))
      /\ (c = NULL /\ ~ t.red[n] /\ t.up[n] # NULL =>
            \E s \in Sides : u.kid[t.up[n]][s] = NULL /\ Firm(u, pos, {}, t.up[n], s))
  BY <1>2, SplicedFirm
<1>7. SameOrder(pos, pos, InTree(t) \ {n})
  BY DEF SameOrder
<1>6. Unhung(t, pos, n, e)
  BY <1>1, <1>3, <1>4, <1>5, <1>7 DEF Unhung
<1> QED BY <1>6 DEF e

(* The successor of n may take its position: no other node lies between.   *)
LEMMA HeirNext ==
  ASSUME NEW t, NEW pos, Shape(t, pos), IsFiniteSet(InTree(t)), NEW n \in InTree(t),
         NEW k \in Nodes, k = t.kid[n]["right"], NEW s, s = LeftDeep(t, k),
         NEW pos2, pos2 = [pos EXCEPT ![s] = pos[n]]
  PROVE  SameOrder(pos, pos2, InTree(t) \ {n})
<1>1. /\ pos \in [Nodes -> Int] /\ InTree(t) \subseteq Nodes /\ k # NULL
      /\ "left" \in Sides /\ "right" \in Sides
  BY NullAssumption DEF Shape, InTree, Sides
<1>2. s = Extreme(t, k, "left")
  BY LeftDeepIsExtreme
<1>3. s \in Nodes /\ pos[n] < pos[s]
  <2>1. s \in Subtree(t, t.kid[n]["right"])
    BY <1>1, <1>2, ExtremeIsEnd
  <2> QED BY <1>1, <2>1, SubtreeSides
<1>4. \A x \in InTree(t) : pos[n] < pos[x] => x = s \/ pos[s] < pos[x]
  BY <1>2, BehindSubtree
<1>5. \A x \in Nodes : pos2[x] = IF x = s THEN pos[n] ELSE pos[x]
  BY <1>1
<1>6. \A x \in InTree(t) : x # n => pos[x] # pos[n] /\ pos[x] \in Int /\ pos[n] \in Int
  BY PositionsDiffer
<1>7. ASSUME NEW a \in InTree(t) \ {n}, NEW b \in InTree(t) \ {n}
      PROVE  pos[a] < pos[b] <=> pos2[a] < pos2[b]
  <2>1. /\ a \in Nodes /\ b \in Nodes /\ pos[a] \in Int /\ pos[b] \in Int /\ pos[s] \in Int
        /\ pos[n] \in Int /\ pos[a] # pos[n] /\ pos[b] # pos[n]
    BY <1>1, <1>3, <1>6
  <2>2. (pos[n] < pos[a] => a = s \/ pos[s] < pos[a]) /\ (pos[n] < pos[b] => b = s \/ pos[s] < pos[b])
    BY <1>4
  <2>3. CASE a = s /\ b = s
    BY <1>5, <2>1, <2>3
  <2>4. CASE a = s /\ b # s
    <3>1. pos2[a] = pos[n] /\ pos2[b] = pos[b] /\ pos[a] = pos[s]
      BY <1>5, <2>1, <2>4
    <3> QED BY <1>3, <2>1, <2>2, <2>4, <3>1
  <2>5. CASE a # s /\ b = s
    <3>1. pos2[a] = pos[a] /\ pos2[b] = pos[n] /\ pos[b] = pos[s]
      BY <1>5, <2>1, <2>5
    <3> QED BY <1>3, <2>1, <2>2, <2>5, <3>1
  <2>6. CASE a # s /\ b # s
    BY <1>5, <2>1, <2>6
  <2> QED BY <2>3, <2>4, <2>5, <2>6
<1> QED BY <1>7 DEF SameOrder

(* So in Cases 2 and 3, where n has two. *)
LEMMA TwoKidsUnhung ==
  ASSUME NEW t, NEW pos, Firm(t, pos, {}, NULL, "left"), IsFiniteSet(InTree(t)),
         NEW n \in InTree(t), t.kid[n]["left"] # NULL, t.kid[n]["right"] # NULL
  PROVE  Unhung(t, pos, n, EraseTwoKids(t, n))
<1>1. Shape(t, pos) /\ t \in Trees /\ n \in Nodes /\ NULL \notin Nodes
  BY NullAssumption DEF Firm, Shape, InTree
<1>2. PICK l \in Nodes, k \in Nodes : l = t.kid[n]["left"] /\ k = t.kid[n]["right"]
  BY <1>1, KidsApart DEF Sides
<1>3. PICK s, c, m, p : Heir(t, n, l, k, s, c, m, p)
  BY <1>2 DEF Heir
<1>4. /\ s \in Nodes /\ c \in Nodes \cup {NULL} /\ m \in Nodes /\ p \in Nodes \cup {NULL}
      /\ HeirApart(t, n, l, k, s, c, m, p)
  BY <1>1, <1>3, HeirFound
<1>16. Moves(t, n, l, k, s, c, m, p)
  BY <1>1, <1>3, <1>4, SuccessorMoved
<1>5. PICK u : /\ IsMoved(t, u, n, l, k, s, c, m, p)
               /\ EraseTwoKids(t, n) =
                    [t |-> u, rebalance |-> IF c # NULL \/ t.red[s] THEN NULL
                                            ELSE IF s = k THEN s ELSE m]
  BY <1>16 DEF Moves
<1> DEFINE e == EraseTwoKids(t, n)
<1>6. e.t = u /\ e.rebalance = IF c # NULL \/ t.red[s] THEN NULL ELSE IF s = k THEN s ELSE m
  BY <1>5, ErasedHas
<1> HIDE DEF e
<1>7. PICK v : Spliced(t, v, s, c, "right") /\ Replaced(v, u, n, s)
  BY <1>1, <1>3, <1>4, <1>5, MovedReplaces
<1>8. /\ s \in InTree(t) /\ t.kid[s]["left"] = NULL /\ s # n /\ m # s /\ m # NULL
           /\ (s = k <=> m = n)
      /\ t.kid[s]["right"] = c /\ t.up[s] = m
  BY <1>1, <1>3, <1>4 DEF HeirApart, Heir
<1>9. "right" \in Sides /\ "left" \in Sides /\ Other("right") = "left"
  BY SidesAre DEF Sides, Other
<1>10. InTree(v) = InTree(t) \ {s}
  BY <1>1, <1>4, <1>7, <1>8, <1>9, SplicedShape
<1>11. /\ (c # NULL \/ t.red[s] => Firm(v, pos, {}, NULL, "left"))
       /\ (c = NULL /\ ~ t.red[s] =>
             \E f \in Sides : v.kid[m][f] = NULL /\ Firm(v, pos, {}, m, f))
  BY <1>4, <1>7, <1>8, <1>9, SplicedFirm
<1>12. n \in InTree(v) /\ s \notin InTree(v)
  BY <1>8, <1>10
<1>13. (InTree(v) \ {n}) \cup {s} = InTree(t) \ {n}
  BY <1>8, <1>10
<1>17. \A pos2 : pos2 = [pos EXCEPT ![s] = pos[n]] => SameOrder(pos, pos2, InTree(t) \ {n})
  BY <1>1, <1>2, <1>3, HeirNext DEF Heir
<1>14. CASE c # NULL \/ t.red[s]
  <2>1. PICK pos2 : /\ Firm(u, pos2, {}, IF NULL = n THEN s ELSE NULL, "left")
                    /\ InTree(u) = (InTree(v) \ {n}) \cup {s}
                    /\ pos2 = [pos EXCEPT ![s] = pos[n]]
    BY <1>4, <1>7, <1>9, <1>11, <1>12, <1>14, ReplacedFirm
  <2>2. Firm(u, pos2, {}, NULL, "left")
    BY <1>1, <2>1
  <2>3. pos2 \in [Nodes -> Int]
    BY <2>2 DEF Firm, Shape
  <2>4. e.rebalance = NULL
    BY <1>6, <1>14
  <2>5. SameOrder(pos, pos2, InTree(t) \ {n})
    BY <1>17, <2>1
  <2>6. InTree(e.t) = InTree(t) \ {n} /\ e.t = u
    BY <1>6, <1>13, <2>1
  <2>7. Unhung(t, pos, n, e)
    BY <2>2, <2>3, <2>4, <2>5, <2>6 DEF Unhung
  <2> QED BY <2>7 DEF e
<1>15. CASE c = NULL /\ ~ t.red[s]
  <2>1. PICK f \in Sides : v.kid[m][f] = NULL /\ Firm(v, pos, {}, m, f)
    BY <1>11, <1>15
  <2>2. m \in InTree(v)
    <3>1. t.up[s] # NULL => t.up[s] \in InTree(t)
      BY <1>1, <1>4, KidsApart
    <3> QED BY <1>8, <1>10, <3>1
  <2>3. PICK pos2 : /\ Firm(u, pos2, {}, IF m = n THEN s ELSE m, f)
                    /\ InTree(u) = (InTree(v) \ {n}) \cup {s}
                    /\ pos2 = [pos EXCEPT ![s] = pos[n]]
    BY <1>4, <1>7, <1>12, <2>1, <2>2, ReplacedFirm
  <2>4. PICK q \in Nodes : q = IF m = n THEN s ELSE m
    BY <1>4
  <2>5. e.rebalance = q
    BY <1>6, <1>8, <1>15, <2>4
  <2>6. pos2 \in [Nodes -> Int] /\ Firm(u, pos2, {}, q, f)
    BY <2>3, <2>4 DEF Firm, Shape
  <2>7. u.kid[q][f] = NULL
    <3>1. u.kid[q][f] = IF q = n THEN NULL ELSE IF q = s THEN v.kid[n][f]
                        ELSE IF v.kid[q][f] = n THEN s ELSE v.kid[q][f]
      BY <1>7, <2>4 DEF Replaced
    <3>2. CASE m = n
      BY <1>8, <2>1, <2>4, <3>1, <3>2
    <3>3. CASE m # n
      BY <1>1, <1>8, <2>1, <2>4, <3>1, <3>3
    <3> QED BY <3>2, <3>3
  <2>8. q # NULL
    BY <1>1
  <2>9. SameOrder(pos, pos2, InTree(t) \ {n})
    BY <1>17, <2>3
  <2>10. InTree(e.t) = InTree(t) \ {n} /\ e.t = u
    BY <1>6, <1>13, <2>3
  <2>11. Unhung(t, pos, n, e)
    BY <2>5, <2>6, <2>7, <2>8, <2>9, <2>10 DEF Unhung
  <2> QED BY <2>11 DEF e
<1> QED BY <1>14, <1>15

(* So __rb_erase_augmented leaves a tree without n, that is red-black or   *)
(* has the gap its loop expects.                                           *)
LEMMA EraseUnhangs ==
  ASSUME NEW t, NEW pos, Firm(t, pos, {}, NULL, "left"), IsFiniteSet(InTree(t)),
         NEW n \in InTree(t)
  PROVE  Unhung(t, pos, n, rb_erase_augmented(t, n))
<1>1. CASE t.kid[n]["left"] # NULL /\ t.kid[n]["right"] # NULL
  BY <1>1, TwoKidsUnhung DEF rb_erase_augmented
<1>2. CASE t.kid[n]["left"] = NULL \/ t.kid[n]["right"] = NULL
  BY <1>2, FewKidsUnhung DEF rb_erase_augmented
<1> QED BY <1>1, <1>2

(***************************************************************************)
(* ____rb_erase_color: below p one black is missing on side d, and the     *)
(* node there, if any, is black.                                           *)
(***************************************************************************)

(* What even heights with that gap say. *)
LEMMA GapHeights ==
  ASSUME NEW t, NEW pos, Shape(t, pos), NEW bh \in [Nodes -> Nat], NEW p \in Nodes,
         NEW d \in Sides, NEW o \in Sides, o # d, Even(t, bh, p, d)
  PROVE  /\ \A m \in Nodes, s \in Sides : KidHeight(t, bh, m, s) \in Nat
         /\ \A m \in Nodes, s \in Sides : m # p =>
              bh[m] = KidHeight(t, bh, m, s) + (IF t.red[m] THEN 0 ELSE 1)
         /\ bh[p] = KidHeight(t, bh, p, d) + 1 + (IF t.red[p] THEN 0 ELSE 1)
         /\ bh[p] = KidHeight(t, bh, p, o) + (IF t.red[p] THEN 0 ELSE 1)
<1>1. \A m \in Nodes, s \in Sides : KidHeight(t, bh, m, s) \in Nat
  BY HeightsNat
<1>2. \A m \in Nodes, s \in Sides :
        bh[m] = SideHeight(t, bh, p, d, m, s) + (IF t.red[m] THEN 0 ELSE 1)
  BY SideHeights
<1>3. ASSUME NEW m \in Nodes, NEW s \in Sides, m # p
      PROVE  bh[m] = KidHeight(t, bh, m, s) + (IF t.red[m] THEN 0 ELSE 1)
  <2>1. SideHeight(t, bh, p, d, m, s) = KidHeight(t, bh, m, s)
    BY <1>1, <1>3 DEF SideHeight
  <2> QED BY <1>2, <2>1
<1>4. bh[p] = KidHeight(t, bh, p, d) + 1 + (IF t.red[p] THEN 0 ELSE 1)
  <2>1. SideHeight(t, bh, p, d, p, d) = KidHeight(t, bh, p, d) + 1
    BY <1>1 DEF SideHeight
  <2> QED BY <1>2, <2>1
<1>5. bh[p] = KidHeight(t, bh, p, o) + (IF t.red[p] THEN 0 ELSE 1)
  <2>1. SideHeight(t, bh, p, d, p, o) = KidHeight(t, bh, p, o)
    BY <1>1 DEF SideHeight
  <2> QED BY <1>2, <2>1
<1> QED BY <1>1, <1>3, <1>4, <1>5

(* And what is to be shown of them. *)
LEMMA GapBalanced ==
  ASSUME NEW t, NEW pos, Shape(t, pos), NEW bh \in [Nodes -> Nat], NEW p \in Nodes,
         NEW d \in Sides, NEW o \in Sides, o # d,
         \A m \in Nodes, s \in Sides : m # p =>
           bh[m] = KidHeight(t, bh, m, s) + (IF t.red[m] THEN 0 ELSE 1),
         bh[p] = KidHeight(t, bh, p, d) + 1 + (IF t.red[p] THEN 0 ELSE 1),
         bh[p] = KidHeight(t, bh, p, o) + (IF t.red[p] THEN 0 ELSE 1)
  PROVE  Balanced(t, p, d)
<1>1. \A m \in Nodes, s \in Sides : KidHeight(t, bh, m, s) \in Nat
  BY HeightsNat
<1>2. ASSUME NEW m \in Nodes, NEW s \in Sides
      PROVE  bh[m] = SideHeight(t, bh, p, d, m, s) + (IF t.red[m] THEN 0 ELSE 1)
  <2>1. CASE m # p
    <3>1. SideHeight(t, bh, p, d, m, s) = KidHeight(t, bh, m, s)
      BY <1>1, <2>1 DEF SideHeight
    <3> QED BY <2>1, <3>1
  <2>2. CASE m = p /\ s = d
    <3>1. SideHeight(t, bh, p, d, p, d) = KidHeight(t, bh, p, d) + 1
      BY <1>1 DEF SideHeight
    <3> QED BY <2>2, <3>1
  <2>3. CASE m = p /\ s # d
    <3>1. s = o
      BY <2>3 DEF Sides
    <3>2. SideHeight(t, bh, p, d, p, o) = KidHeight(t, bh, p, o)
      BY <1>1 DEF SideHeight
    <3> QED BY <2>3, <3>1, <3>2
  <2> QED BY <2>1, <2>2, <2>3
<1> QED BY <1>2, BalancedWhen

(* The sibling is there, as the code takes it to be without a test: the    *)
(* side without the gap holds a black node more.                           *)
LEMMA SiblingFound ==
  ASSUME NEW t, NEW pos, NEW p \in Nodes, NEW d \in Sides, NEW o \in Sides, o # d,
         Firm(t, pos, {}, p, d)
  PROVE  t.kid[p][o] \in Nodes
<1>1. Shape(t, pos)
  BY DEF Firm
<1>2. PICK bh \in [Nodes -> Nat] : Even(t, bh, p, d)
  BY DEF Firm, Balanced
<1>3. /\ KidHeight(t, bh, p, d) \in Nat /\ KidHeight(t, bh, p, o) \in Nat
      /\ bh[p] = KidHeight(t, bh, p, d) + 1 + (IF t.red[p] THEN 0 ELSE 1)
      /\ bh[p] = KidHeight(t, bh, p, o) + (IF t.red[p] THEN 0 ELSE 1)
  BY <1>1, <1>2, GapHeights
<1>4. KidHeight(t, bh, p, o) # 0
  BY <1>3
<1> QED BY <1>1, <1>4, KidsApart DEF KidHeight

(* The nodes round the gap, from p down. *)
Nephews(t, p, d, o, sib, near, far) ==
  /\ o # d /\ d \in Sides /\ o \in Sides /\ NULL \notin Nodes
  /\ t.kid[p][o] = sib /\ t.kid[sib][d] = near /\ t.kid[sib][o] = far
  /\ near \in Nodes \cup {NULL} /\ far \in Nodes \cup {NULL}
  /\ sib # p /\ near # p /\ far # p /\ near # sib /\ far # sib
  /\ t.up[sib] = p /\ sib \in InTree(t) /\ p \in InTree(t)
  /\ near # NULL => t.up[near] = sib /\ near \in InTree(t)
  /\ far # NULL => t.up[far] = sib /\ far \in InTree(t) /\ near # far
  /\ t.kid[p][d] # sib
  /\ t.up[p] # sib /\ t.up[p] # p /\ t.up[p] \in Nodes \cup {NULL}

(* The shape puts the nodes round the gap there. *)
LEMMA NephewsFound ==
  ASSUME NEW t, NEW pos, Shape(t, pos), NEW p \in Nodes, NEW d \in Sides, NEW o \in Sides, o # d,
         NEW sib \in Nodes, t.kid[p][o] = sib
  PROVE  Nephews(t, p, d, o, sib, t.kid[sib][d], t.kid[sib][o])
<1>1. NULL \notin Nodes /\ sib # NULL /\ p # NULL /\ Other(o) = d
  BY NullAssumption DEF Sides, Other
<1>2. /\ \A m \in Nodes, s \in Sides : t.kid[m][s] \in Nodes \cup {NULL}
      /\ \A m \in Nodes, s \in Sides : t.kid[m][s] # NULL =>
           /\ t.up[t.kid[m][s]] = m /\ t.kid[m][s] # m /\ m \in InTree(t)
           /\ t.kid[m][s] \in InTree(t) /\ t.kid[m][s] # t.kid[m][Other(s)]
      /\ \A m \in Nodes : t.up[m] # NULL => \E s \in Sides : t.kid[t.up[m]][s] = m
  BY KidsApart
<1>3. t.up[sib] = p /\ sib # p /\ sib \in InTree(t) /\ p \in InTree(t) /\ t.kid[p][d] # sib
  BY <1>1, <1>2
<1>4. \A s \in Sides : t.kid[sib][s] # NULL => t.kid[sib][s] # p
  BY <1>1, NoWayBack
<1>5. \A s \in Sides : t.kid[sib][s] # p
  BY <1>1, <1>4
<1>6. \A s \in Sides : t.kid[sib][s] # NULL =>
        t.up[t.kid[sib][s]] = sib /\ t.kid[sib][s] # sib /\ t.kid[sib][s] \in InTree(t)
  BY <1>2
<1>7. t.kid[sib][o] # NULL => t.kid[sib][d] # t.kid[sib][o]
  BY <1>1, <1>2
<1>8. t.up[p] # sib
  <2> SUFFICES ASSUME t.up[p] = sib PROVE FALSE
    OBVIOUS
  <2>1. \E s \in Sides : t.kid[sib][s] = p
    BY <1>1, <1>2
  <2> QED BY <1>5, <2>1
<1>9. t.up[p] # p
  <2> SUFFICES ASSUME t.up[p] = p PROVE FALSE
    OBVIOUS
  <2>1. \E s \in Sides : t.kid[p][s] = p
    BY <1>1, <1>2
  <2> QED BY <1>1, <1>2, <2>1
<1>10. t.up[p] \in Nodes \cup {NULL}
  BY DEF Shape, Trees
<1>11. \A s \in Sides : t.kid[sib][s] # sib
  BY <1>1, <1>6
<1> HIDE DEF Nephews
<1> QED BY <1>1, <1>2, <1>3, <1>5, <1>6, <1>7, <1>8, <1>9, <1>10, <1>11 DEF Nephews

(* Case 1: the red sibling turns above p; its near child, which is there   *)
(* and black, is the new sibling.                                          *)
LEMMA RedSiblingTurns ==
  ASSUME NEW t, NEW pos, NEW p \in Nodes, NEW d \in Sides, NEW o \in Sides, o # d,
         Firm(t, pos, {}, p, d), ~ IsRed(t, t.kid[p][d]),
         NEW sib \in Nodes, t.kid[p][o] = sib, t.red[sib]
  PROVE  \E u : /\ u = EraseRotateRedSibling(t, p, sib, d)
                /\ Firm(u, pos, {}, p, d) /\ InTree(u) = InTree(t)
                /\ u.kid[p][d] = t.kid[p][d]
                /\ u.kid[p][o] \in Nodes /\ ~ u.red[u.kid[p][o]] /\ u.red[p]
<1>1. Shape(t, pos) /\ t \in Trees /\ NoRedPair(t, {})
  BY DEF Firm, Shape
<1>2. PICK near \in Nodes \cup {NULL}, far \in Nodes \cup {NULL} :
        near = t.kid[sib][d] /\ far = t.kid[sib][o]
  BY <1>1, KidsApart
<1>3. Nephews(t, p, d, o, sib, near, far)
  BY <1>1, <1>2, NephewsFound
<1>4. PICK bh \in [Nodes -> Nat] : Even(t, bh, p, d)
  BY DEF Firm, Balanced
<1>5. /\ \A m \in Nodes, s \in Sides : KidHeight(t, bh, m, s) \in Nat
      /\ \A m \in Nodes, s \in Sides : m # p =>
           bh[m] = KidHeight(t, bh, m, s) + (IF t.red[m] THEN 0 ELSE 1)
      /\ bh[p] = KidHeight(t, bh, p, d) + 1 + (IF t.red[p] THEN 0 ELSE 1)
      /\ bh[p] = KidHeight(t, bh, p, o) + (IF t.red[p] THEN 0 ELSE 1)
  BY <1>1, <1>4, GapHeights
<1>6. sib # p /\ near # p /\ far # p /\ near # sib /\ far # sib /\ NULL \notin Nodes
      /\ t.up[sib] = p /\ (near # NULL => t.up[near] = sib /\ near \in InTree(t))
      /\ p \in InTree(t) /\ sib \in InTree(t)
      /\ t.up[p] # sib /\ t.up[p] # p /\ t.up[p] \in Nodes \cup {NULL}
  BY <1>3 DEF Nephews
<1>7. ~ t.red[p]
  BY <1>1, <1>6 DEF NoRedPair
<1> DEFINE h == KidHeight(t, bh, p, d)
<1>8. h \in Nat /\ bh[sib] = h + 1 /\ bh[p] = h + 2
  <2>1. KidHeight(t, bh, p, o) = bh[sib]
    BY <1>6 DEF KidHeight
  <2>2. bh[sib] \in Nat
    BY <1>4
  <2> QED BY <1>5, <1>7, <2>1, <2>2
<1>9. \A s \in Sides : KidHeight(t, bh, sib, s) = h + 1
  <2>1. \A s \in Sides : bh[sib] = KidHeight(t, bh, sib, s) + 0 /\ KidHeight(t, bh, sib, s) \in Nat
    BY <1>5, <1>6
  <2> QED BY <1>8, <2>1
<1>10. near \in Nodes /\ near # NULL
  <2>1. KidHeight(t, bh, sib, d) # 0
    BY <1>8, <1>9
  <2> QED BY <1>2, <1>6, <2>1 DEF KidHeight
<1>11. ~ t.red[near]
  BY <1>1, <1>6, <1>10 DEF NoRedPair
<1>12. PICK u : u = InsertRotateGparent(t, sib, p, o)
  OBVIOUS
<1>13. u = EraseRotateRedSibling(t, p, sib, d)
  <2>1. Other(o) = d /\ Other(d) = o
    BY DEF Sides, Other
  <2> QED BY <1>2, <1>10, <1>12, <2>1 DEF EraseRotateRedSibling, InsertRotateGparent, PaintIfThere
<1>14. GparentTurned(t, u, p, sib, o)
  <2>1. SameBut(t, t, p, o, {sib})
    BY <1>1 DEF SameBut
  <2> QED BY <1>1, <1>12, <2>1, RotateGparent
<1>15. Other(o) = d
  BY DEF Sides, Other
<1>16. /\ u \in Trees /\ Turned(t, u, p, sib, o)
       /\ \A m \in Nodes : u.red[m] <=>
            IF m = p THEN TRUE ELSE IF m = sib THEN t.red[p] ELSE m # near /\ t.red[m]
  BY <1>2, <1>14, <1>15 DEF GparentTurned
<1>17. \A m \in Nodes : u.red[m] <=> m = p \/ (m # sib /\ t.red[m])
  BY <1>6, <1>7, <1>10, <1>11, <1>16
<1>18. \A m \in Nodes : u.up[m] = IF m = p THEN sib ELSE IF m = sib THEN t.up[p]
                                  ELSE IF m = near THEN p ELSE t.up[m]
  BY <1>2, <1>15, <1>16 DEF Turned
<1>19. Shape(u, pos) /\ InTree(u) = InTree(t)
  <2>1. \A m \in Nodes \ InTree(t) : ~ u.red[m]
    BY <1>1, <1>6, <1>17 DEF Shape
  <2> QED BY <1>1, <1>16, <2>1, TurnKeepsShape
<1>20. NoRedPair(u, {})
  <2> SUFFICES ASSUME NEW m \in Nodes, u.red[m] PROVE u.up[m] \in Nodes /\ ~ u.red[u.up[m]]
    BY DEF NoRedPair
  <2>1. CASE m = p
    BY <1>6, <1>17, <1>18, <2>1
  <2>2. CASE m # p
    <3>1. m # sib /\ t.red[m] /\ m # near
      BY <1>11, <1>17, <2>2
    <3>2. u.up[m] = t.up[m] /\ t.up[m] \in Nodes /\ ~ t.red[t.up[m]]
      BY <1>1, <1>18, <2>2, <3>1 DEF NoRedPair
    <3>3. t.up[m] # p
      <4> SUFFICES ASSUME t.up[m] = p PROVE FALSE
        OBVIOUS
      <4>1. PICK s \in Sides : t.kid[p][s] = m
        BY <1>1, <1>6, KidsApart
      <4>2. s = d
        BY <3>1, <4>1 DEF Sides
      <4>3. m # NULL
        BY <1>6
      <4> QED BY <3>1, <4>1, <4>2, <4>3 DEF IsRed
    <3> QED BY <1>17, <3>2, <3>3
  <2> QED BY <2>1, <2>2
<1> DEFINE bh2 == [m \in Nodes |-> IF m = sib THEN bh[p] ELSE IF m = p THEN bh[sib] ELSE bh[m]]
<1>21. bh2 \in [Nodes -> Nat]
  BY <1>4
<1>22. bh2[sib] = h + 2 /\ bh2[sib] = bh[p] /\ bh2[p] = h + 1
  BY <1>6, <1>8
<1>23. \A m \in Nodes \ {p, sib} : bh2[m] = bh[m]
  OBVIOUS
<1> HIDE DEF bh2, h
<1>24. HandedOver(t, u, p, sib, o, bh, bh2)
  <2>1. \A m \in Nodes \ {p, sib, t.kid[sib][o]} : bh2[m] = bh[m]
    BY <1>23
  <2> QED BY <1>1, <1>16, <1>22, <2>1, TurnedHeights
<1>25. /\ \A m \in Nodes \ {p, sib}, s \in Sides : KidHeight(u, bh2, m, s) = KidHeight(t, bh, m, s)
       /\ KidHeight(u, bh2, p, o) = KidHeight(t, bh, sib, d)
       /\ KidHeight(u, bh2, p, d) = KidHeight(t, bh, p, d)
       /\ KidHeight(u, bh2, sib, o) = KidHeight(t, bh2, sib, o)
       /\ KidHeight(u, bh2, sib, d) = bh2[p]
       /\ u.kid[p][o] = near /\ u.kid[p][d] = t.kid[p][d]
  BY <1>2, <1>15, <1>24 DEF HandedOver
<1>26. KidHeight(t, bh2, sib, o) = KidHeight(t, bh, sib, o)
  <2>1. far # NULL => bh2[far] = bh[far]
    BY <1>2, <1>6, <1>23
  <2> QED BY <1>2, <2>1 DEF KidHeight
<1>27. u.red[p] /\ ~ u.red[sib] /\ \A m \in Nodes \ {p, sib} : u.red[m] <=> t.red[m]
  BY <1>6, <1>17
<1>28. Balanced(u, p, d)
  <2>1. ASSUME NEW m \in Nodes, NEW s \in Sides, m # p
        PROVE  bh2[m] = KidHeight(u, bh2, m, s) + (IF u.red[m] THEN 0 ELSE 1)
    <3>1. CASE m = sib
      <4>1. KidHeight(u, bh2, sib, s) = h + 1
        <5>1. s = o \/ s = d
          BY DEF Sides
        <5> QED BY <1>9, <1>22, <1>25, <1>26, <5>1
      <4> QED BY <1>8, <1>22, <1>27, <3>1, <4>1
    <3>2. CASE m # sib
      BY <1>5, <1>23, <1>25, <1>27, <2>1, <3>2
    <3> QED BY <3>1, <3>2
  <2>2. bh2[p] = KidHeight(u, bh2, p, d) + 1 + (IF u.red[p] THEN 0 ELSE 1)
    <3>1. KidHeight(u, bh2, p, d) = h
      BY <1>25 DEF h
    <3> QED BY <1>8, <1>22, <1>27, <3>1
  <2>3. bh2[p] = KidHeight(u, bh2, p, o) + (IF u.red[p] THEN 0 ELSE 1)
    <3>1. KidHeight(u, bh2, p, o) = h + 1
      BY <1>9, <1>25
    <3> QED BY <1>8, <1>22, <1>27, <3>1
  <2> QED BY <1>19, <1>21, <2>1, <2>2, <2>3, GapBalanced
<1>29. ~ u.red[near]
  BY <1>6, <1>10, <1>11, <1>27
<1>30. Firm(u, pos, {}, p, d)
  BY <1>19, <1>20, <1>28 DEF Firm
<1> QED BY <1>10, <1>13, <1>19, <1>25, <1>27, <1>29, <1>30

(* Case 2: the sibling turns red and the parent black.  A red parent ends  *)
(* the loop and a black one is where the gap is now.                       *)
LEMMA SiblingFlips ==
  ASSUME NEW t, NEW pos, NEW p \in Nodes, NEW d \in Sides, NEW o \in Sides, o # d,
         Firm(t, pos, {}, p, d), NEW sib \in Nodes, t.kid[p][o] = sib, ~ t.red[sib],
         ~ IsRed(t, t.kid[sib][d]), ~ IsRed(t, t.kid[sib][o]),
         NEW u, SameLinks(t, u), \A m \in Nodes : u.red[m] <=> m # p /\ (m = sib \/ t.red[m])
  PROVE  /\ InTree(u) = InTree(t) /\ ~ u.red[p]
         /\ t.red[p] \/ t.up[p] = NULL => Firm(u, pos, {}, NULL, "left")
         /\ ~ t.red[p] /\ t.up[p] # NULL =>
              \E s \in Sides : u.kid[t.up[p]][s] = p /\ Firm(u, pos, {}, t.up[p], s)
<1>1. Shape(t, pos) /\ t \in Trees /\ NoRedPair(t, {})
  BY DEF Firm, Shape
<1>2. PICK near \in Nodes \cup {NULL}, far \in Nodes \cup {NULL} :
        near = t.kid[sib][d] /\ far = t.kid[sib][o]
  BY <1>1, KidsApart
<1>3. Nephews(t, p, d, o, sib, near, far)
  BY <1>1, <1>2, NephewsFound
<1>4. PICK bh \in [Nodes -> Nat] : Even(t, bh, p, d)
  BY DEF Firm, Balanced
<1>5. /\ \A m \in Nodes, s \in Sides : KidHeight(t, bh, m, s) \in Nat
      /\ \A m \in Nodes, s \in Sides : m # p =>
           bh[m] = KidHeight(t, bh, m, s) + (IF t.red[m] THEN 0 ELSE 1)
      /\ bh[p] = KidHeight(t, bh, p, d) + 1 + (IF t.red[p] THEN 0 ELSE 1)
      /\ bh[p] = KidHeight(t, bh, p, o) + (IF t.red[p] THEN 0 ELSE 1)
  BY <1>1, <1>4, GapHeights
<1>6. /\ sib # p /\ NULL \notin Nodes /\ t.up[sib] = p
      /\ p \in InTree(t) /\ sib \in InTree(t) /\ t.kid[p][d] # sib
      /\ t.up[p] # sib /\ t.up[p] # p /\ t.up[p] \in Nodes \cup {NULL}
  BY <1>3 DEF Nephews
<1>7. u \in Trees /\ u.up = t.up /\ u.kid = t.kid
  BY DEF SameLinks
<1>8. Shape(u, pos) /\ InTree(u) = InTree(t)
  <2>1. \A m \in Nodes \ InTree(t) : ~ u.red[m]
    BY <1>1, <1>6 DEF Shape
  <2> QED BY <1>1, <2>1, Recoloured
<1>9. \A m \in Nodes : t.up[m] = sib => ~ t.red[m]
  <2> SUFFICES ASSUME NEW m \in Nodes, t.up[m] = sib PROVE ~ t.red[m]
    OBVIOUS
  <2>1. PICK s \in Sides : t.kid[sib][s] = m
    BY <1>1, <1>6, KidsApart
  <2>2. s = d \/ s = o
    BY DEF Sides
  <2> QED BY <1>6, <2>1, <2>2 DEF IsRed
<1>10. NoRedPair(u, {})
  <2> SUFFICES ASSUME NEW m \in Nodes, u.red[m] PROVE u.up[m] \in Nodes /\ ~ u.red[u.up[m]]
    BY DEF NoRedPair
  <2>1. CASE m = sib
    BY <1>6, <1>7, <2>1
  <2>2. CASE m # sib
    <3>1. t.red[m] /\ t.up[m] \in Nodes /\ ~ t.red[t.up[m]]
      BY <1>1, <2>2 DEF NoRedPair
    <3> QED BY <1>7, <1>9, <3>1
  <2> QED BY <2>1, <2>2
<1> DEFINE h == KidHeight(t, bh, p, d)
<1>11. h \in Nat /\ bh[sib] = h + 1 /\ bh[p] = h + 1 + (IF t.red[p] THEN 0 ELSE 1)
  <2>1. KidHeight(t, bh, p, o) = bh[sib]
    BY <1>6 DEF KidHeight
  <2>2. bh[sib] \in Nat
    BY <1>4
  <2>3. CASE t.red[p]
    BY <1>5, <2>1, <2>2, <2>3
  <2>4. CASE ~ t.red[p]
    BY <1>5, <2>1, <2>2, <2>4
  <2> QED BY <2>3, <2>4
<1>12. \A s \in Sides : KidHeight(t, bh, sib, s) = h
  <2>1. \A s \in Sides : bh[sib] = KidHeight(t, bh, sib, s) + 1 /\ KidHeight(t, bh, sib, s) \in Nat
    BY <1>5, <1>6
  <2> QED BY <1>11, <2>1
<1> DEFINE bh2 == [m \in Nodes |-> IF m = sib THEN h ELSE IF m = p THEN h + 1 ELSE bh[m]]
<1>13. bh2 \in [Nodes -> Nat]
  BY <1>4, <1>11
<1>14. bh2[sib] = h /\ bh2[p] = h + 1 /\ \A m \in Nodes \ {p, sib} : bh2[m] = bh[m]
  BY <1>6
<1> HIDE DEF bh2, h
<1>15. ASSUME NEW m \in Nodes, NEW s \in Sides, t.kid[m][s] # p, t.kid[m][s] # sib
       PROVE  KidHeight(u, bh2, m, s) = KidHeight(t, bh, m, s)
  <2>1. t.kid[m][s] # NULL => t.kid[m][s] \in Nodes \ {p, sib}
    BY <1>1, <1>15, KidsApart
  <2> QED BY <1>7, <1>14, <2>1 DEF KidHeight
<1>16. \A m \in Nodes, s \in Sides : t.kid[m][s] = sib => m = p /\ s = o
  <2> SUFFICES ASSUME NEW m \in Nodes, NEW s \in Sides, t.kid[m][s] = sib PROVE m = p /\ s = o
    OBVIOUS
  <2>1. m = p
    BY <1>1, <1>6, KidsApart
  <2> QED BY <1>6, <2>1 DEF Sides
<1>17. \A m \in Nodes, s \in Sides : t.kid[m][s] = p => m = t.up[p]
  BY <1>1, <1>6, KidsApart
<1>18. KidHeight(u, bh2, p, d) = h /\ KidHeight(u, bh2, p, o) = h
  <2>1. t.kid[p][d] # p
    BY <1>6, <1>17
  <2>2. KidHeight(u, bh2, p, d) = h
    BY <1>6, <1>15, <2>1 DEF h
  <2>3. KidHeight(u, bh2, p, o) = bh2[sib]
    BY <1>6, <1>7 DEF KidHeight
  <2> QED BY <1>14, <2>2, <2>3
<1>19. \A s \in Sides : KidHeight(u, bh2, sib, s) = h
  <2> SUFFICES ASSUME NEW s \in Sides PROVE KidHeight(u, bh2, sib, s) = h
    OBVIOUS
  <2>1. t.kid[sib][s] # p /\ t.kid[sib][s] # sib
    BY <1>6, <1>16, <1>17
  <2> QED BY <1>12, <1>15, <2>1
<1>20. u.red[sib] /\ ~ u.red[p] /\ \A m \in Nodes \ {p, sib} : u.red[m] <=> t.red[m]
  BY <1>6
<1>21. ASSUME NEW m \in Nodes, NEW s \in Sides, t.kid[m][s] # p
       PROVE  bh2[m] = KidHeight(u, bh2, m, s) + (IF u.red[m] THEN 0 ELSE 1)
  <2>1. CASE m = p
    <3>1. KidHeight(u, bh2, p, s) = h
      BY <1>18 DEF Sides
    <3> QED BY <1>11, <1>14, <1>20, <2>1, <3>1
  <2>2. CASE m = sib
    BY <1>11, <1>14, <1>19, <1>20, <2>2
  <2>3. CASE m # p /\ m # sib
    <3>1. KidHeight(u, bh2, m, s) = KidHeight(t, bh, m, s)
      BY <1>15, <1>16, <1>21, <2>3
    <3> QED BY <1>5, <1>14, <1>20, <2>3, <3>1
  <2> QED BY <2>1, <2>2, <2>3
<1>22. CASE t.up[p] = NULL
  <2>1. \A m \in Nodes, s \in Sides : t.kid[m][s] # p
    BY <1>6, <1>17, <1>22
  <2>2. Balanced(u, NULL, "left")
    BY <1>8, <1>13, <1>21, <2>1, EvenWithoutGap
  <2> QED BY <1>8, <1>10, <1>20, <1>22, <2>2 DEF Firm
<1>23. CASE t.red[p]
  <2>1. bh[p] = h + 1 /\ bh2[p] = bh[p]
    BY <1>11, <1>14, <1>23
  <2>2. ASSUME NEW m \in Nodes, NEW s \in Sides, t.kid[m][s] = p
        PROVE  bh2[m] = KidHeight(u, bh2, m, s) + (IF u.red[m] THEN 0 ELSE 1)
    <3>1. m # p /\ m # sib
      BY <1>6, <1>17, <2>2
    <3>2. KidHeight(u, bh2, m, s) = bh2[p] /\ KidHeight(t, bh, m, s) = bh[p]
      BY <1>6, <1>7, <2>2 DEF KidHeight
    <3> QED BY <1>5, <1>14, <1>20, <2>1, <3>1, <3>2
  <2>3. Balanced(u, NULL, "left")
    BY <1>8, <1>13, <1>21, <2>2, EvenWithoutGap
  <2> QED BY <1>8, <1>10, <1>20, <1>23, <2>3 DEF Firm
<1>24. CASE ~ t.red[p] /\ t.up[p] # NULL
  <2>1. PICK g \in Nodes : g = t.up[p]
    BY <1>6, <1>24
  <2>2. PICK s \in Sides : t.kid[g][s] = p
    BY <1>1, <1>24, <2>1, KidsApart
  <2>3. PICK r \in Sides : r # s
    BY SidesAre
  <2>4. g # p /\ g # sib
    BY <1>6, <2>1
  <2>5. t.kid[g][r] # p
    <3>1. t.kid[g][s] # t.kid[g][Other(s)] /\ Other(s) = r
      BY <1>1, <1>6, <2>2, <2>3, KidsApart DEF Sides, Other
    <3> QED BY <2>2, <3>1
  <2>6. \A m \in Nodes, e \in Sides : m # g => t.kid[m][e] # p
    BY <1>17, <2>1
  <2>7. bh2[g] = KidHeight(u, bh2, g, s) + 1 + (IF u.red[g] THEN 0 ELSE 1)
    <3>1. KidHeight(u, bh2, g, s) = h + 1 /\ KidHeight(t, bh, g, s) = h + 2
      <4>1. KidHeight(u, bh2, g, s) = bh2[p] /\ KidHeight(t, bh, g, s) = bh[p]
        BY <1>6, <1>7, <2>2 DEF KidHeight
      <4>2. bh[p] = h + 2
        BY <1>11, <1>24
      <4> QED BY <1>14, <4>1, <4>2
    <3>2. bh2[g] = bh[g] /\ (u.red[g] <=> t.red[g])
      BY <1>14, <1>20, <2>4
    <3>3. bh[g] = KidHeight(t, bh, g, s) + (IF t.red[g] THEN 0 ELSE 1)
      BY <1>5, <2>4
    <3> QED BY <1>11, <3>1, <3>2, <3>3
  <2>8. bh2[g] = KidHeight(u, bh2, g, r) + (IF u.red[g] THEN 0 ELSE 1)
    BY <1>21, <2>5
  <2>9. Balanced(u, g, s)
    BY <1>8, <1>13, <1>21, <2>3, <2>6, <2>7, <2>8, GapBalanced
  <2>10. Firm(u, pos, {}, g, s)
    BY <1>8, <1>10, <2>9 DEF Firm
  <2> QED BY <1>7, <1>8, <1>20, <1>24, <2>1, <2>2, <2>10
<1> QED BY <1>22, <1>23, <1>24

(* Case 4: the sibling turns above p, takes its colour and leaves p and    *)
(* the far nephew black.                                                   *)
ParentTurned(t, u, p, sib, far, o) ==
  /\ u \in Trees /\ Turned(t, u, p, sib, o)
  /\ \A m \in Nodes : u.red[m] <=>
       IF m = sib THEN t.red[p] ELSE m # p /\ m # far /\ t.red[m]

(* r is t but for what the turn sets anew. *)
SameButSet(t, r, S) ==
  /\ r \in Trees /\ r.root = t.root /\ r.kid = t.kid
  /\ \A m \in Nodes \ S : r.up[m] = t.up[m] /\ (r.red[m] <=> t.red[m])

(* The stores of Case 4 come to this, from any tree that differs from t    *)
(* where the case stores anew.                                             *)
LEMMA EraseTurnsParent ==
  ASSUME NEW t, NEW pos, Shape(t, pos), NEW p \in Nodes, NEW d \in Sides, NEW o \in Sides, o # d,
         NEW sib \in Nodes, t.kid[p][o] = sib, NEW far \in Nodes, t.kid[sib][o] = far,
         NEW r, SameButSet(t, r, {sib, far}), NEW u, u = EraseRotateParent(r, p, sib, far, d)
  PROVE  ParentTurned(t, u, p, sib, far, o)
<1>1. PICK near \in Nodes \cup {NULL} : near = t.kid[sib][d]
  BY KidsApart
<1>2. Nephews(t, p, d, o, sib, near, far)
  BY <1>1, NephewsFound
<1>3. /\ sib # p /\ near # p /\ far # p /\ near # sib /\ far # sib /\ near # far
           /\ NULL \notin Nodes
      /\ t.up[far] = sib
  BY <1>2 DEF Nephews
<1>4. /\ r \in Trees /\ r.root = t.root /\ r.kid = t.kid
      /\ \A m \in Nodes \ {sib, far} : r.up[m] = t.up[m] /\ (r.red[m] <=> t.red[m])
  BY DEF SameButSet
<1>5. Other(d) = o /\ Other(o) = d
  BY DEF Sides, Other
<1> DEFINE t1 == SetKid(SetKid(r, p, o, near), sib, d, p)
           t2 == rb_set_parent_color(t1, far, sib, FALSE)
           t3 == IF near = NULL THEN t2 ELSE rb_set_parent(t2, near, p)
<1>6. u = rotate_set_parents(t3, p, sib, FALSE)
  BY <1>1, <1>4, <1>5 DEF EraseRotateParent
<1>7. IsKidsSet(r, p, o, near, sib, d, p, t1)
  BY <1>3, <1>4, KidsSet
<1>8. IsPainted(t1, far, sib, FALSE, t2)
  <2>1. t1 \in Trees
    BY <1>7 DEF IsKidsSet
  <2> HIDE DEF t1
  <2> QED BY <2>1, Painted
<1>9. /\ t3 \in Trees /\ t3.root = t2.root /\ t3.red = t2.red /\ t3.kid = t2.kid
      /\ \A m \in Nodes : t3.up[m] = IF m = near THEN p ELSE t2.up[m]
  <2>1. t2 \in Trees
    BY <1>8 DEF IsPainted
  <2> HIDE DEF t1, t2
  <2>2. CASE near = NULL
    BY <1>3, <2>1, <2>2
  <2>3. CASE near # NULL
    <3>1. IsParentSet(t2, near, p, rb_set_parent(t2, near, p))
      BY <2>1, <2>3, ParentSet
    <3> QED BY <2>3, <3>1 DEF IsParentSet
  <2> QED BY <2>2, <2>3
<1> HIDE DEF t1, t2, t3
<1>10. /\ t3.root = t.root
       /\ \A m \in Nodes \ {sib} : t3.up[m] = IF m = near THEN p ELSE t.up[m]
       /\ \A m \in Nodes \ {sib} : t3.red[m] <=> m # far /\ t.red[m]
       /\ \A m \in Nodes, s \in Sides : t3.kid[m][s] =
            IF m = p /\ s = o THEN near ELSE IF m = sib /\ s = d THEN p ELSE t.kid[m][s]
  BY <1>3, <1>4, <1>7, <1>8, <1>9 DEF IsKidsSet, IsPainted
<1>11. HalfTurned(t, t3, p, sib, o)
  BY <1>1, <1>5, <1>9, <1>10 DEF HalfTurned
<1>12. Rotated(t, t3, u, p, sib, o, FALSE)
  BY <1>6, <1>11, RotationTurns
<1>13. \A m \in Nodes : u.red[m] <=> IF m = sib THEN t.red[p] ELSE m # p /\ m # far /\ t.red[m]
  BY <1>3, <1>10, <1>12 DEF Rotated
<1> QED BY <1>12, <1>13 DEF Rotated, ParentTurned

(* The sibling is black and its far child red. *)
FarRed(t, p, d, o, sib, far) ==
  /\ t.kid[p][o] = sib /\ t.kid[sib][o] = far /\ ~ t.red[sib] /\ t.red[far]

(* Case 4 then closes the gap. *)
LEMMA ParentTurnRepairs ==
  ASSUME NEW t, NEW pos, NEW p \in Nodes, NEW d \in Sides, NEW o \in Sides, o # d,
         Firm(t, pos, {}, p, d), NEW sib \in Nodes, NEW far \in Nodes,
         FarRed(t, p, d, o, sib, far), NEW u, ParentTurned(t, u, p, sib, far, o)
  PROVE  Firm(u, pos, {}, NULL, "left") /\ InTree(u) = InTree(t)
<1>1. Shape(t, pos) /\ t \in Trees /\ NoRedPair(t, {})
  BY DEF Firm, Shape
<1>0. t.kid[p][o] = sib /\ t.kid[sib][o] = far /\ ~ t.red[sib] /\ t.red[far]
  BY DEF FarRed
<1>2. PICK near \in Nodes \cup {NULL} : near = t.kid[sib][d]
  BY <1>1, KidsApart
<1>3. Nephews(t, p, d, o, sib, near, far)
  BY <1>0, <1>1, <1>2, NephewsFound
<1>4. PICK bh \in [Nodes -> Nat] : Even(t, bh, p, d)
  BY DEF Firm, Balanced
<1>5. /\ \A m \in Nodes, s \in Sides : KidHeight(t, bh, m, s) \in Nat
      /\ \A m \in Nodes, s \in Sides : m # p =>
           bh[m] = KidHeight(t, bh, m, s) + (IF t.red[m] THEN 0 ELSE 1)
      /\ bh[p] = KidHeight(t, bh, p, d) + 1 + (IF t.red[p] THEN 0 ELSE 1)
      /\ bh[p] = KidHeight(t, bh, p, o) + (IF t.red[p] THEN 0 ELSE 1)
  BY <1>1, <1>4, GapHeights
<1>6. /\ sib # p /\ near # p /\ far # p /\ near # sib /\ far # sib /\ near # far
           /\ NULL \notin Nodes
      /\ t.up[sib] = p /\ t.up[far] = sib /\ p \in InTree(t) /\ sib \in InTree(t)
      /\ t.up[p] # sib /\ t.up[p] # p /\ t.up[p] \in Nodes \cup {NULL}
  BY <1>3 DEF Nephews
<1>15. Other(o) = d
  BY DEF Sides, Other
<1>7. /\ u \in Trees /\ Turned(t, u, p, sib, o)
      /\ \A m \in Nodes : u.red[m] <=>
           IF m = sib THEN t.red[p] ELSE m # p /\ m # far /\ t.red[m]
  BY DEF ParentTurned
<1>8. \A m \in Nodes : u.up[m] = IF m = p THEN sib ELSE IF m = sib THEN t.up[p]
                                 ELSE IF m = near THEN p ELSE t.up[m]
  BY <1>2, <1>7, <1>15 DEF Turned
<1>9. Shape(u, pos) /\ InTree(u) = InTree(t)
  <2>1. \A m \in Nodes \ InTree(t) : ~ u.red[m]
    BY <1>1, <1>6, <1>7 DEF Shape
  <2> QED BY <1>0, <1>1, <1>7, <2>1, TurnKeepsShape
<1>10. NoRedPair(u, {})
  <2> SUFFICES ASSUME NEW m \in Nodes, u.red[m] PROVE u.up[m] \in Nodes /\ ~ u.red[u.up[m]]
    BY DEF NoRedPair
  <2>1. CASE m = sib
    <3>1. t.red[p]
      BY <1>7, <2>1
    <3>2. t.up[p] \in Nodes /\ ~ t.red[t.up[p]]
      BY <1>1, <3>1 DEF NoRedPair
    <3> QED BY <1>6, <1>7, <1>8, <2>1, <3>2
  <2>2. CASE m # sib
    <3>1. m # p /\ m # far /\ t.red[m]
      BY <1>7, <2>2
    <3>2. CASE m = near
      <4>1. u.up[m] = p
        BY <1>8, <2>2, <3>1, <3>2
      <4>2. ~ u.red[p]
        BY <1>6, <1>7
      <4> QED BY <4>1, <4>2
    <3>3. CASE m # near
      <4>1. u.up[m] = t.up[m] /\ t.up[m] \in Nodes /\ ~ t.red[t.up[m]]
        BY <1>1, <1>8, <2>2, <3>1, <3>3 DEF NoRedPair
      <4>2. t.up[m] # sib
        <5> SUFFICES ASSUME t.up[m] = sib PROVE FALSE
          OBVIOUS
        <5>1. PICK s \in Sides : t.kid[sib][s] = m
          BY <1>1, <1>6, KidsApart
        <5> QED BY <1>0, <1>2, <3>1, <3>3, <5>1 DEF Sides
      <4> QED BY <1>7, <4>1, <4>2
    <3> QED BY <3>2, <3>3
  <2> QED BY <2>1, <2>2
<1> DEFINE h == KidHeight(t, bh, p, d)
<1>11. h \in Nat /\ bh[sib] = h + 1 /\ bh[p] = h + 1 + (IF t.red[p] THEN 0 ELSE 1)
  <2>1. KidHeight(t, bh, p, o) = bh[sib]
    BY <1>0, <1>6 DEF KidHeight
  <2>2. bh[sib] \in Nat
    BY <1>4
  <2>3. CASE t.red[p]
    BY <1>5, <2>1, <2>2, <2>3
  <2>4. CASE ~ t.red[p]
    BY <1>5, <2>1, <2>2, <2>4
  <2> QED BY <2>3, <2>4
<1>12. KidHeight(t, bh, sib, d) = h /\ bh[far] = h
  <2>1. \A s \in Sides : bh[sib] = KidHeight(t, bh, sib, s) + 1 /\ KidHeight(t, bh, sib, s) \in Nat
    BY <1>0, <1>5, <1>6
  <2>2. \A s \in Sides : KidHeight(t, bh, sib, s) = h
    BY <1>11, <2>1
  <2>3. KidHeight(t, bh, sib, o) = bh[far]
    BY <1>0, <1>6 DEF KidHeight
  <2> QED BY <2>2, <2>3
<1>13. \A s \in Sides : KidHeight(t, bh, far, s) = h
  <2>1. \A s \in Sides : bh[far] = KidHeight(t, bh, far, s) + 0 /\ KidHeight(t, bh, far, s) \in Nat
    BY <1>0, <1>5, <1>6
  <2> QED BY <1>11, <1>12, <2>1
<1> DEFINE bh2 == [m \in Nodes |-> IF m = sib THEN bh[p] ELSE IF m = p \/ m = far THEN h + 1
             ELSE bh[m]]
<1>14. bh2 \in [Nodes -> Nat]
  BY <1>4, <1>11
<1>16. /\ bh2[sib] = bh[p] /\ bh2[p] = h + 1 /\ bh2[far] = h + 1
       /\ \A m \in Nodes \ {p, sib, far} : bh2[m] = bh[m]
  BY <1>6
<1> HIDE DEF bh2, h
<1>17. HandedOver(t, u, p, sib, o, bh, bh2)
  BY <1>0, <1>1, <1>7, <1>16, TurnedHeights
<1>18. /\ \A m \in Nodes \ {p, sib}, s \in Sides : KidHeight(u, bh2, m, s) = KidHeight(t, bh, m, s)
       /\ KidHeight(u, bh2, p, o) = h /\ KidHeight(u, bh2, p, d) = h
       /\ KidHeight(u, bh2, sib, o) = h + 1 /\ KidHeight(u, bh2, sib, d) = h + 1
  <2>1. /\ \A m \in Nodes \ {p, sib}, s \in Sides : KidHeight(u, bh2, m, s) = KidHeight(t, bh, m, s)
        /\ KidHeight(u, bh2, p, o) = KidHeight(t, bh, sib, d)
        /\ KidHeight(u, bh2, p, d) = KidHeight(t, bh, p, d)
        /\ KidHeight(u, bh2, sib, o) = KidHeight(t, bh2, sib, o)
        /\ KidHeight(u, bh2, sib, d) = bh2[p]
    BY <1>15, <1>17 DEF HandedOver
  <2>2. KidHeight(t, bh2, sib, o) = bh2[far]
    BY <1>0, <1>6 DEF KidHeight
  <2>3. KidHeight(t, bh, p, d) = h
    BY DEF h
  <2> QED BY <1>12, <1>16, <2>1, <2>2, <2>3
<1>19. ASSUME NEW m \in Nodes, NEW s \in Sides
       PROVE  bh2[m] = KidHeight(u, bh2, m, s) + (IF u.red[m] THEN 0 ELSE 1)
  <2>0. s = o \/ s = d
    BY DEF Sides
  <2>1. CASE m = p
    <3>1. KidHeight(u, bh2, p, s) = h /\ ~ u.red[p]
      BY <1>6, <1>7, <1>18, <2>0
    <3> QED BY <1>11, <1>16, <2>1, <3>1
  <2>2. CASE m = sib
    <3>1. KidHeight(u, bh2, sib, s) = h + 1 /\ (u.red[sib] <=> t.red[p])
      BY <1>7, <1>18, <2>0
    <3> QED BY <1>11, <1>16, <2>2, <3>1
  <2>3. CASE m = far
    <3>1. KidHeight(u, bh2, far, s) = h /\ ~ u.red[far]
      BY <1>6, <1>7, <1>13, <1>18
    <3> QED BY <1>11, <1>16, <2>3, <3>1
  <2>4. CASE m # p /\ m # sib /\ m # far
    <3>1. KidHeight(u, bh2, m, s) = KidHeight(t, bh, m, s) /\ bh2[m] = bh[m]
            /\ (u.red[m] <=> t.red[m])
      BY <1>7, <1>16, <1>18, <2>4
    <3> QED BY <1>5, <2>4, <3>1
  <2> QED BY <2>1, <2>2, <2>3, <2>4
<1>20. Balanced(u, NULL, "left")
  BY <1>9, <1>14, <1>19, EvenWithoutGap
<1> QED BY <1>9, <1>10, <1>20 DEF Firm

(* Case 3: the near nephew turns above the sibling; r has the links below  *)
(* them, v the colours and the other links that Case 4 sets anyway.        *)
NearTurned(t, r, v, p, sib, near, d) ==
  /\ v \in Trees /\ Turned(t, v, sib, near, d) /\ SameButSet(v, r, {near, sib})
  /\ \A m \in Nodes : v.red[m] <=> m = sib \/ (m # near /\ t.red[m])

(* The stores of Case 3 come to this. *)
LEMMA EraseTurnsSibling ==
  ASSUME NEW t, NEW pos, Shape(t, pos), NoRedPair(t, {}),
         NEW p \in Nodes, NEW d \in Sides, NEW o \in Sides, o # d,
         NEW sib \in Nodes, t.kid[p][o] = sib, ~ t.red[sib],
         NEW near \in Nodes, t.kid[sib][d] = near, t.red[near],
         NEW r, r = EraseRotateSibling(t, p, sib, near, d)
  PROVE  \E v : NearTurned(t, r, v, p, sib, near, d)
<1>1. t \in Trees /\ Other(d) = o /\ Other(o) = d
  BY DEF Shape, Sides, Other
<1>2. Nephews(t, p, d, o, sib, near, t.kid[sib][o])
  BY NephewsFound
<1>3. /\ sib # p /\ near # p /\ near # sib /\ t.up[sib] = p /\ t.up[near] = sib /\ NULL \notin Nodes
      /\ t.kid[p][d] # sib
  BY <1>2 DEF Nephews
<1>4. PICK z \in Nodes \cup {NULL} : z = t.kid[near][o]
  BY KidsApart
<1>5. z # NULL => t.up[z] = near /\ z # near /\ ~ t.red[z]
  <2>1. z # NULL => t.up[z] = near /\ z # near
    BY <1>3, <1>4, KidsApart
  <2> QED BY <1>3, <2>1 DEF NoRedPair
<1>6. z # sib /\ z # p /\ z # near
  BY <1>3, <1>5, <1>4, NoWayBack
<1> DEFINE t1 == SetKid(SetKid(t, sib, d, z), near, o, sib)
           t2 == SetKid(t1, p, o, near)
           t3 == PaintIfThere(t1, z, sib, FALSE)
           v0 == rotate_set_parents(t3, sib, near, TRUE)
<1>7. r = PaintIfThere(t2, z, sib, FALSE)
  BY <1>1, <1>4 DEF EraseRotateSibling
<1>8. IsKidsSet(t, sib, d, z, near, o, sib, t1)
  BY <1>1, <1>3, KidsSet
<1>9. t1 \in Trees
  BY <1>8 DEF IsKidsSet
<1> HIDE DEF t1
<1>10. IsKidSet(t1, p, o, near, t2)
  BY <1>9, KidSet
<1>11. IsPainted(t1, z, sib, FALSE, t3)
  BY <1>9, PaintedIfThere
<1>12. IsPainted(t2, z, sib, FALSE, r)
  <2>1. t2 \in Trees
    BY <1>10 DEF IsKidSet
  <2> HIDE DEF t2
  <2> QED BY <1>7, <2>1, PaintedIfThere
<1> HIDE DEF t2, t3
<1>13. HalfTurned(t, t3, sib, near, d)
  <2>1. /\ t3 \in Trees /\ t3.root = t.root
        /\ \A m \in Nodes : t3.up[m] = IF m = z THEN sib ELSE t.up[m]
        /\ \A m \in Nodes, s \in Sides : t3.kid[m][s] =
             IF m = sib /\ s = d THEN z ELSE IF m = near /\ s = o THEN sib ELSE t.kid[m][s]
    BY <1>3, <1>8, <1>11 DEF IsKidsSet, IsPainted
  <2> QED BY <1>1, <1>4, <2>1 DEF HalfTurned
<1>14. Rotated(t, t3, v0, sib, near, d, TRUE)
  BY <1>13, RotationTurns
<1> HIDE DEF v0
<1>15. v0 \in Trees /\ Turned(t, v0, sib, near, d)
  BY <1>14 DEF Rotated
<1>16. \A m \in Nodes : v0.red[m] <=> m = sib \/ (m # near /\ t.red[m])
  <2>1. \A m \in Nodes : t3.red[m] <=> m # z /\ t.red[m]
    BY <1>8, <1>11 DEF IsKidsSet, IsPainted
  <2>2. \A m \in Nodes : t3.red[m] <=> t.red[m]
    BY <1>3, <1>5, <2>1
  <2> QED BY <1>14, <2>2 DEF Rotated
<1>17. /\ r \in Trees /\ r.root = t.root
       /\ \A m \in Nodes : r.up[m] = IF m = z THEN sib ELSE t.up[m]
       /\ \A m \in Nodes : r.red[m] <=> m # z /\ t.red[m]
       /\ \A m \in Nodes, s \in Sides : r.kid[m][s] =
            IF m = p /\ s = o THEN near
            ELSE IF m = sib /\ s = d THEN z ELSE IF m = near /\ s = o THEN sib ELSE t.kid[m][s]
  BY <1>3, <1>8, <1>10, <1>12 DEF IsKidsSet, IsKidSet, IsPainted
<1>18. SameButSet(v0, r, {near, sib})
  <2>1. v0.root = t.root
    <3>1. t.up[sib] # NULL
      BY <1>3
    <3> QED BY <1>15, <3>1 DEF Turned
  <2>2. \A m \in Nodes \ {near, sib} : v0.up[m] = r.up[m]
    <3>1. \A m \in Nodes : v0.up[m] = IF m = sib THEN near ELSE IF m = near THEN p
                                      ELSE IF m = z THEN sib ELSE t.up[m]
      BY <1>1, <1>3, <1>4, <1>15 DEF Turned
    <3> QED BY <1>17, <3>1
  <2>3. \A m \in Nodes \ {near, sib} : r.red[m] <=> v0.red[m]
    BY <1>3, <1>5, <1>16, <1>17
  <2>4. \A s \in Sides : t.kid[p][s] = sib <=> s = o
    BY <1>3 DEF Sides
  <2>5. \A m \in Nodes, s \in Sides : v0.kid[m][s] =
          IF m = sib /\ s = d THEN z ELSE IF m = near /\ s = o THEN sib
          ELSE IF m = p /\ t.kid[m][s] = sib THEN near ELSE t.kid[m][s]
    BY <1>1, <1>3, <1>4, <1>15 DEF Turned
  <2>6. \A m \in Nodes, s \in Sides : v0.kid[m][s] = r.kid[m][s]
    BY <1>3, <1>17, <2>4, <2>5
  <2>7. v0.kid = r.kid
    <3>1. v0.kid \in [Nodes -> [Sides -> Nodes \cup {NULL}]]
            /\ r.kid \in [Nodes -> [Sides -> Nodes \cup {NULL}]]
      BY <1>15, <1>17 DEF Trees
    <3>2. \A m \in Nodes : v0.kid[m] = r.kid[m]
      <4> TAKE m \in Nodes
      <4>1. v0.kid[m] \in [Sides -> Nodes \cup {NULL}] /\ r.kid[m] \in [Sides -> Nodes \cup {NULL}]
        BY <3>1
      <4> QED BY <2>6, <4>1
    <3> QED BY <3>1, <3>2
  <2> QED BY <1>17, <2>1, <2>2, <2>3, <2>7 DEF SameButSet
<1>19. NearTurned(t, r, v0, p, sib, near, d)
  BY <1>15, <1>16, <1>18 DEF NearTurned
<1> QED BY <1>19

(* Case 3 keeps the gap where it was and leaves the new sibling with a red *)
(* far child, as Case 4 wants it.                                          *)
LEMMA NearTurnKeeps ==
  ASSUME NEW t, NEW pos, NEW p \in Nodes, NEW d \in Sides, NEW o \in Sides, o # d,
         Firm(t, pos, {}, p, d), NEW sib \in Nodes, t.kid[p][o] = sib, ~ t.red[sib],
         NEW near \in Nodes, t.kid[sib][d] = near, t.red[near], ~ IsRed(t, t.kid[sib][o]),
         NEW r, NEW v, NearTurned(t, r, v, p, sib, near, d)
  PROVE  /\ Firm(v, pos, {}, p, d) /\ InTree(v) = InTree(t)
         /\ FarRed(v, p, d, o, near, sib)
<1>1. Shape(t, pos) /\ t \in Trees /\ NoRedPair(t, {})
  BY DEF Firm, Shape
<1>2. PICK far \in Nodes \cup {NULL}, z \in Nodes \cup {NULL} :
        far = t.kid[sib][o] /\ z = t.kid[near][o]
  BY <1>1, KidsApart
<1>3. Nephews(t, p, d, o, sib, near, far)
  BY <1>1, <1>2, NephewsFound
<1>4. /\ sib # p /\ near # p /\ near # sib /\ NULL \notin Nodes
      /\ t.up[sib] = p /\ t.up[near] = sib /\ sib \in InTree(t) /\ near \in InTree(t)
      /\ (far # NULL => t.up[far] = sib /\ near # far) /\ t.kid[p][d] # sib
  BY <1>3 DEF Nephews
<1>5. Other(d) = o
  BY DEF Sides, Other
<1>6. PICK bh \in [Nodes -> Nat] : Even(t, bh, p, d)
  BY DEF Firm, Balanced
<1>7. /\ \A m \in Nodes, s \in Sides : KidHeight(t, bh, m, s) \in Nat
      /\ \A m \in Nodes, s \in Sides : m # p =>
           bh[m] = KidHeight(t, bh, m, s) + (IF t.red[m] THEN 0 ELSE 1)
      /\ bh[p] = KidHeight(t, bh, p, d) + 1 + (IF t.red[p] THEN 0 ELSE 1)
      /\ bh[p] = KidHeight(t, bh, p, o) + (IF t.red[p] THEN 0 ELSE 1)
  BY <1>1, <1>6, GapHeights
<1>8. /\ v \in Trees /\ Turned(t, v, sib, near, d)
      /\ \A m \in Nodes : v.red[m] <=> m = sib \/ (m # near /\ t.red[m])
  BY DEF NearTurned
<1>9. z # NULL => t.up[z] = near /\ ~ t.red[z]
  <2>1. z # NULL => t.up[z] = near
    BY <1>1, <1>2, KidsApart
  <2> QED BY <1>1, <2>1 DEF NoRedPair
<1>10. \A m \in Nodes : v.up[m] = IF m = sib THEN near ELSE IF m = near THEN p
                                  ELSE IF m = z THEN sib ELSE t.up[m]
  BY <1>2, <1>4, <1>5, <1>8 DEF Turned
<1>11. Shape(v, pos) /\ InTree(v) = InTree(t)
  <2>1. \A m \in Nodes \ InTree(t) : ~ v.red[m]
    BY <1>1, <1>4, <1>8 DEF Shape
  <2> QED BY <1>1, <1>8, <2>1, TurnKeepsShape
<1>12. NoRedPair(v, {})
  <2> SUFFICES ASSUME NEW m \in Nodes, v.red[m] PROVE v.up[m] \in Nodes /\ ~ v.red[v.up[m]]
    BY DEF NoRedPair
  <2>1. CASE m = sib
    BY <1>4, <1>8, <1>10, <2>1
  <2>2. CASE m # sib
    <3>1. m # near /\ t.red[m]
      BY <1>8, <2>2
    <3>2. m # z
      BY <1>4, <1>9, <3>1
    <3>3. v.up[m] = t.up[m] /\ t.up[m] \in Nodes /\ ~ t.red[t.up[m]]
      BY <1>1, <1>10, <2>2, <3>1, <3>2 DEF NoRedPair
    <3>4. t.up[m] # sib
      <4> SUFFICES ASSUME t.up[m] = sib PROVE FALSE
        OBVIOUS
      <4>1. PICK s \in Sides : t.kid[sib][s] = m
        BY <1>1, <1>4, KidsApart
      <4>2. s = o /\ m # NULL
        BY <1>4, <3>1, <4>1 DEF Sides
      <4> QED BY <3>1, <4>1, <4>2 DEF IsRed
    <3> QED BY <1>8, <3>3, <3>4
  <2> QED BY <2>1, <2>2
<1> DEFINE h == KidHeight(t, bh, p, d)
<1>13. h \in Nat /\ bh[sib] = h + 1
  <2>1. KidHeight(t, bh, p, o) = bh[sib]
    BY <1>4 DEF KidHeight
  <2>2. bh[sib] \in Nat
    BY <1>6
  <2>3. CASE t.red[p]
    BY <1>7, <2>1, <2>2, <2>3
  <2>4. CASE ~ t.red[p]
    BY <1>7, <2>1, <2>2, <2>4
  <2> QED BY <2>3, <2>4
<1>14. (\A s \in Sides : KidHeight(t, bh, sib, s) = h) /\ bh[near] = h
  <2>1. \A s \in Sides : bh[sib] = KidHeight(t, bh, sib, s) + 1 /\ KidHeight(t, bh, sib, s) \in Nat
    BY <1>4, <1>7
  <2>2. \A s \in Sides : KidHeight(t, bh, sib, s) = h
    BY <1>13, <2>1
  <2>3. KidHeight(t, bh, sib, d) = bh[near]
    BY <1>4 DEF KidHeight
  <2> QED BY <2>2, <2>3
<1>15. \A s \in Sides : KidHeight(t, bh, near, s) = h
  <2>1. \A s \in Sides : bh[near] = KidHeight(t, bh, near, s) + 0
          /\ KidHeight(t, bh, near, s) \in Nat
    BY <1>4, <1>7
  <2> QED BY <1>13, <1>14, <2>1
<1> DEFINE bh2 == [m \in Nodes |-> IF m = sib THEN bh[near] ELSE IF m = near THEN bh[sib]
             ELSE bh[m]]
<1>16. bh2 \in [Nodes -> Nat]
  BY <1>6
<1>17. /\ bh2[sib] = h /\ bh2[near] = bh[sib] /\ bh2[near] = h + 1
       /\ \A m \in Nodes \ {sib, near} : bh2[m] = bh[m]
  BY <1>4, <1>13, <1>14
<1> HIDE DEF bh2, h
<1>18. HandedOver(t, v, sib, near, d, bh, bh2)
  <2>1. \A m \in Nodes \ {sib, near, t.kid[near][d]} : bh2[m] = bh[m]
    BY <1>17
  <2> QED BY <1>1, <1>8, <1>17, <2>1, TurnedHeights
<1>19. /\ \A m \in Nodes \ {sib, near}, s \in Sides : KidHeight(v, bh2, m, s) = KidHeight(t, bh, m, s)
       /\ KidHeight(v, bh2, sib, d) = KidHeight(t, bh, near, o)
       /\ KidHeight(v, bh2, sib, o) = KidHeight(t, bh, sib, o)
       /\ KidHeight(v, bh2, near, d) = KidHeight(t, bh2, near, d)
       /\ KidHeight(v, bh2, near, o) = bh2[sib]
       /\ \A m \in Nodes \ {sib, near}, s \in Sides : v.kid[m][s] =
            IF t.kid[m][s] = sib THEN near ELSE t.kid[m][s]
       /\ v.kid[near][o] = sib
  BY <1>5, <1>18 DEF HandedOver
<1>20. KidHeight(t, bh2, near, d) = KidHeight(t, bh, near, d)
  <2>1. t.kid[near][d] # NULL => t.kid[near][d] \in Nodes /\ t.kid[near][d] # near
          /\ t.up[t.kid[near][d]] = near
    BY <1>1, KidsApart
  <2>2. t.kid[near][d] # sib
    <3>1. near # NULL /\ sib # NULL
      BY <1>4
    <3> QED BY <1>1, <3>1, NoWayBack
  <2>3. t.kid[near][d] # NULL => bh2[t.kid[near][d]] = bh[t.kid[near][d]]
    BY <1>17, <2>1, <2>2
  <2> QED BY <2>3 DEF KidHeight
<1>21. v.red[sib] /\ ~ v.red[near] /\ \A m \in Nodes \ {sib, near} : v.red[m] <=> t.red[m]
  BY <1>4, <1>8
<1>22. ASSUME NEW m \in Nodes, NEW s \in Sides, m # p
       PROVE  bh2[m] = KidHeight(v, bh2, m, s) + (IF v.red[m] THEN 0 ELSE 1)
  <2>0. s = o \/ s = d
    BY DEF Sides
  <2>1. CASE m = sib
    <3>1. KidHeight(v, bh2, sib, s) = h
      BY <1>14, <1>15, <1>19, <2>0
    <3> QED BY <1>13, <1>17, <1>21, <2>1, <3>1
  <2>2. CASE m = near
    <3>1. KidHeight(v, bh2, near, s) = h
      BY <1>15, <1>17, <1>19, <1>20, <2>0
    <3> QED BY <1>13, <1>17, <1>21, <2>2, <3>1
  <2>3. CASE m # sib /\ m # near
    <3>1. KidHeight(v, bh2, m, s) = KidHeight(t, bh, m, s) /\ bh2[m] = bh[m]
            /\ (v.red[m] <=> t.red[m])
      BY <1>17, <1>19, <1>21, <2>3
    <3> QED BY <1>7, <1>22, <3>1
  <2> QED BY <2>1, <2>2, <2>3
<1>23. /\ KidHeight(v, bh2, p, d) = KidHeight(t, bh, p, d)
            /\ KidHeight(v, bh2, p, o) = KidHeight(t, bh, p, o)
       /\ bh2[p] = bh[p] /\ (v.red[p] <=> t.red[p])
  BY <1>4, <1>17, <1>19, <1>21
<1>24. Balanced(v, p, d)
  <2>1. bh2[p] = KidHeight(v, bh2, p, d) + 1 + (IF v.red[p] THEN 0 ELSE 1)
    BY <1>7, <1>23
  <2>2. bh2[p] = KidHeight(v, bh2, p, o) + (IF v.red[p] THEN 0 ELSE 1)
    BY <1>7, <1>23
  <2> QED BY <1>11, <1>16, <1>22, <2>1, <2>2, GapBalanced
<1>25. FarRed(v, p, d, o, near, sib)
  <2>1. v.kid[p][o] = near
    BY <1>4, <1>19
  <2> QED BY <1>19, <1>21, <2>1 DEF FarRed
<1> QED BY <1>11, <1>12, <1>24, <1>25 DEF Firm

(* One iteration: the gap moves up to a black node, or the tree is whole.  *)
GapGoes(t, pos, l) ==
  /\ InTree(l.t) = InTree(t)
  /\ IF l.more THEN /\ l.node \in Nodes /\ ~ l.t.red[l.node] /\ l.parent \in Nodes
                    /\ \E s \in Sides : /\ l.t.kid[l.parent][s] = l.node
                                        /\ Firm(l.t, pos, {}, l.parent, s)
     ELSE Firm(l.t, pos, {}, NULL, "left")

(* Cases 2 to 4, when the sibling is black. *)
BlackSibling(t, p, sib, near, far, d, n) ==
  IF ~ IsRed(t, far) /\ ~ IsRed(t, near) THEN EraseFlip(t, p, sib)
  ELSE IF ~ IsRed(t, far)
  THEN Loop(EraseRotateParent(EraseRotateSibling(t, p, sib, near, d), p, near, sib, d), n, p, FALSE)
  ELSE Loop(EraseRotateParent(t, p, sib, far, d), n, p, FALSE)

(* Each of them ends the loop or moves the gap up. *)
LEMMA BlackSiblingIterates ==
  ASSUME NEW t, NEW pos, NEW p \in Nodes, NEW d \in Sides, NEW o \in Sides, o # d,
         Firm(t, pos, {}, p, d), NEW sib \in Nodes, t.kid[p][o] = sib, ~ t.red[sib],
         NEW n, NEW l, l = BlackSibling(t, p, sib, t.kid[sib][d], t.kid[sib][o], d, n)
  PROVE  GapGoes(t, pos, l)
<1>1. Shape(t, pos) /\ t \in Trees /\ NoRedPair(t, {}) /\ NULL \notin Nodes
  BY NullAssumption DEF Firm, Shape
<1>2. PICK near \in Nodes \cup {NULL}, far \in Nodes \cup {NULL} :
        near = t.kid[sib][d] /\ far = t.kid[sib][o]
  BY <1>1, KidsApart
<1>3. l = BlackSibling(t, p, sib, near, far, d, n)
  BY <1>2
<1>4. Nephews(t, p, d, o, sib, near, far)
  BY <1>1, <1>2, NephewsFound
<1>5. CASE ~ IsRed(t, far) /\ ~ IsRed(t, near)
  <2>1. l = EraseFlip(t, p, sib)
    BY <1>3, <1>5 DEF BlackSibling
  <2>2. sib # p /\ t.up[sib] = p /\ t.up[p] \in Nodes \cup {NULL}
    BY <1>4 DEF Nephews
  <2> DEFINE t1 == rb_set_parent_color(t, sib, p, TRUE)
             t2 == rb_set_black(t1, p)
  <2>3. IsPainted(t, sib, p, TRUE, t1)
    BY <1>1, Painted
  <2>4. /\ t1 \in Trees /\ t1.root = t.root /\ t1.kid = t.kid /\ t1.up = t.up
        /\ \A m \in Nodes : t1.red[m] <=> m = sib \/ t.red[m]
    <3> HIDE DEF t1
    <3>1. /\ t1 \in Trees /\ t1.root = t.root /\ t1.kid = t.kid
          /\ \A m \in Nodes : t1.up[m] = t.up[m] /\ (t1.red[m] <=> m = sib \/ t.red[m])
      BY <2>2, <2>3 DEF IsPainted
    <3>2. t1.up = t.up
      <4>1. t1.up \in [Nodes -> Nodes \cup {NULL}] /\ t.up \in [Nodes -> Nodes \cup {NULL}]
        BY <1>1, <3>1 DEF Trees
      <4> QED BY <3>1, <4>1
    <3> QED BY <3>1, <3>2
  <2>5. l = IF t1.red[p] THEN Loop(t2, p, p, FALSE) ELSE Loop(t1, p, t1.up[p], t1.up[p] # NULL)
    BY <2>1 DEF EraseFlip
  <2> HIDE DEF t1
  <2>6. /\ t2 \in Trees /\ t2.root = t.root /\ t2.kid = t.kid /\ t2.up = t.up
        /\ \A m \in Nodes : t2.red[m] <=> m # p /\ (m = sib \/ t.red[m])
    BY <2>4 DEF rb_set_black, Trees
  <2> HIDE DEF t2
  <2>7. PICK u : /\ u = IF t.red[p] THEN t2 ELSE t1
                 /\ l = IF t.red[p] THEN Loop(u, p, p, FALSE)
                      ELSE Loop(u, p, t.up[p], t.up[p] # NULL)
    BY <2>2, <2>4, <2>5
  <2>8. SameLinks(t, u) /\ \A m \in Nodes : u.red[m] <=> m # p /\ (m = sib \/ t.red[m])
    <3>1. CASE t.red[p]
      BY <2>6, <2>7, <3>1 DEF SameLinks
    <3>2. CASE ~ t.red[p]
      BY <2>2, <2>4, <2>7, <3>2 DEF SameLinks
    <3> QED BY <3>1, <3>2
  <2>9. /\ InTree(u) = InTree(t) /\ ~ u.red[p]
        /\ t.red[p] \/ t.up[p] = NULL => Firm(u, pos, {}, NULL, "left")
        /\ ~ t.red[p] /\ t.up[p] # NULL =>
             \E s \in Sides : u.kid[t.up[p]][s] = p /\ Firm(u, pos, {}, t.up[p], s)
    <3>1. ~ IsRed(t, t.kid[sib][d]) /\ ~ IsRed(t, t.kid[sib][o])
      BY <1>2, <1>5
    <3>2. SameLinks(t, u) /\ \A m \in Nodes : u.red[m] <=> m # p /\ (m = sib \/ t.red[m])
      BY <2>8
    <3> QED BY <3>1, <3>2, SiblingFlips
  <2>10. CASE t.red[p]
    <3>1. IsLoop(l, u, p, p, FALSE)
      BY <2>7, <2>10, LoopFields
    <3>2. l.t = u /\ ~ l.more
      BY <3>1 DEF IsLoop
    <3> QED BY <2>9, <2>10, <3>2 DEF GapGoes
  <2>11. CASE ~ t.red[p]
    <3>1. IsLoop(l, u, p, t.up[p], t.up[p] # NULL)
      BY <2>7, <2>11, LoopFields
    <3>2. l.t = u /\ l.node = p /\ l.parent = t.up[p] /\ (l.more <=> t.up[p] # NULL)
      BY <3>1 DEF IsLoop
    <3>3. CASE t.up[p] = NULL
      BY <2>9, <2>11, <3>2, <3>3 DEF GapGoes
    <3>4. CASE t.up[p] # NULL
      <4>1. t.up[p] \in Nodes /\ l.more
        BY <2>2, <3>2, <3>4
      <4>2. \E s \in Sides : l.t.kid[l.parent][s] = l.node /\ Firm(l.t, pos, {}, l.parent, s)
        BY <2>9, <2>11, <3>2, <3>4
      <4> QED BY <2>9, <2>11, <3>2, <4>1, <4>2 DEF GapGoes
    <3> QED BY <3>3, <3>4
  <2> QED BY <2>10, <2>11
<1>6. CASE ~ IsRed(t, far) /\ IsRed(t, near)
  <2>1. near \in Nodes /\ t.red[near]
    BY <1>1, <1>6 DEF IsRed
  <2>2. PICK r : r = EraseRotateSibling(t, p, sib, near, d)
    OBVIOUS
  <2>3. PICK u : u = EraseRotateParent(r, p, near, sib, d) /\ l = Loop(u, n, p, FALSE)
    BY <1>3, <1>6, <2>2 DEF BlackSibling
  <2>4. PICK v : NearTurned(t, r, v, p, sib, near, d)
    BY <1>1, <1>2, <2>1, <2>2, EraseTurnsSibling
  <2>5. Firm(v, pos, {}, p, d) /\ InTree(v) = InTree(t) /\ FarRed(v, p, d, o, near, sib)
    BY <1>2, <1>6, <2>1, <2>4, NearTurnKeeps
  <2>6. ParentTurned(v, u, p, near, sib, o)
    <3>1. SameButSet(v, r, {near, sib}) /\ Shape(v, pos) /\ v.kid[p][o] = near
            /\ v.kid[near][o] = sib
      BY <2>4, <2>5 DEF NearTurned, Firm, FarRed
    <3> QED BY <2>1, <2>3, <3>1, EraseTurnsParent
  <2>7. Firm(u, pos, {}, NULL, "left") /\ InTree(u) = InTree(v)
    BY <2>1, <2>5, <2>6, ParentTurnRepairs
  <2>8. IsLoop(l, u, n, p, FALSE)
    BY <2>3, LoopFields
  <2>9. l.t = u /\ ~ l.more
    BY <2>8 DEF IsLoop
  <2> QED BY <2>5, <2>7, <2>9 DEF GapGoes
<1>7. CASE IsRed(t, far)
  <2>1. far \in Nodes /\ t.red[far]
    BY <1>1, <1>7 DEF IsRed
  <2>2. PICK u : u = EraseRotateParent(t, p, sib, far, d) /\ l = Loop(u, n, p, FALSE)
    BY <1>3, <1>7 DEF BlackSibling
  <2>3. SameButSet(t, t, {sib, far})
    BY <1>1 DEF SameButSet
  <2>4. ParentTurned(t, u, p, sib, far, o)
    BY <1>1, <1>2, <2>1, <2>2, <2>3, EraseTurnsParent
  <2>5. Firm(u, pos, {}, NULL, "left") /\ InTree(u) = InTree(t)
    <3>1. FarRed(t, p, d, o, sib, far)
      BY <1>2, <2>1 DEF FarRed
    <3> QED BY <2>1, <2>4, <3>1, ParentTurnRepairs
  <2>6. IsLoop(l, u, n, p, FALSE)
    BY <2>2, LoopFields
  <2>7. l.t = u /\ ~ l.more
    BY <2>6 DEF IsLoop
  <2> QED BY <2>5, <2>7 DEF GapGoes
<1> QED BY <1>5, <1>6, <1>7

(* An iteration of the loop of ____rb_erase_color, from its invariant,     *)
(* leaves the invariant or a red-black tree.                               *)
LEMMA EraseIterates ==
  ASSUME NEW t, NEW pos, NEW p \in Nodes, NEW e \in Sides, Firm(t, pos, {}, p, e),
         NEW n, n = t.kid[p][e], ~ IsRed(t, n),
         NEW l, l = EraseIteration(Loop(t, n, p, TRUE))
  PROVE  GapGoes(t, pos, l)
<1>1. Shape(t, pos) /\ NULL \notin Nodes
  BY NullAssumption DEF Firm
<1>2. PICK o \in Sides : o = Other(e) /\ o # e
  BY SidesAre
<1>3. PICK s0 \in Nodes : s0 = t.kid[p][o]
  BY <1>2, SiblingFound
<1>4. n # s0
  <2>1. s0 # NULL /\ s0 # t.kid[p][Other(o)] /\ Other(o) = e
    BY <1>1, <1>2, <1>3, KidsApart DEF Sides, Other
  <2> QED BY <2>1
<1>5. e = IF n # t.kid[p]["right"] THEN "left" ELSE "right"
  BY <1>2, <1>3, <1>4 DEF Sides
<1>6. PICK v, sib :
        /\ v = IF t.red[s0] THEN EraseRotateRedSibling(t, p, s0, e) ELSE t
        /\ sib = v.kid[p][o]
        /\ l = BlackSibling(v, p, sib, v.kid[sib][e], v.kid[sib][o], e, n)
  <2>1. PICK v : v = IF t.red[s0] THEN EraseRotateRedSibling(t, p, s0, e) ELSE t
    OBVIOUS
  <2>2. PICK sib : sib = v.kid[p][o]
    OBVIOUS
  <2>3. PICK start : start = Loop(t, n, p, TRUE)
    OBVIOUS
  <2>4. start.t = t /\ start.node = n /\ start.parent = p
    BY <2>3 DEF Loop
  <2>5. (IF start.node # start.t.kid[start.parent]["right"] THEN "left" ELSE "right") = e
    BY <1>5, <2>4
  <2>6. start.t.kid[start.parent][Other(e)] = s0
    BY <1>2, <1>3, <2>4
  <2>7. (IF start.t.red[s0] THEN EraseRotateRedSibling(start.t, start.parent, s0,
        e) ELSE start.t) = v
    BY <2>1, <2>4
  <2>8. v.kid[start.parent][Other(e)] = sib
    BY <1>2, <2>2, <2>4
  <2>9. EraseIteration(start) = BlackSibling(v, p, sib, v.kid[sib][e], v.kid[sib][o], e, n)
    <3>1. Other(e) = o
      BY <1>2
    <3> QED BY <2>4, <2>5, <2>6, <2>7, <2>8, <3>1 DEF EraseIteration, BlackSibling
  <2> QED BY <2>1, <2>2, <2>3, <2>9
<1>9. o # e
  BY <1>2
<1>7. CASE ~ t.red[s0]
  <2>1. v = t
    BY <1>6, <1>7
  <2>2. sib = s0
    BY <1>3, <1>6, <2>1
  <2>3. t.kid[p][o] = s0
    BY <1>3
  <2>4. l = BlackSibling(t, p, s0, t.kid[s0][e], t.kid[s0][o], e, n)
    BY <1>6, <2>1, <2>2
  <2> QED BY <1>7, <1>9, <2>3, <2>4, BlackSiblingIterates
<1>8. CASE t.red[s0]
  <2>1. PICK u : /\ u = EraseRotateRedSibling(t, p, s0, e)
                 /\ Firm(u, pos, {}, p, e) /\ InTree(u) = InTree(t)
                 /\ u.kid[p][e] = t.kid[p][e]
                 /\ u.kid[p][o] \in Nodes /\ ~ u.red[u.kid[p][o]] /\ u.red[p]
    BY <1>2, <1>3, <1>8, RedSiblingTurns
  <2>2. v = u /\ sib \in Nodes /\ sib = u.kid[p][o] /\ ~ u.red[sib]
    BY <1>6, <1>8, <2>1
  <2>3. l = BlackSibling(u, p, sib, u.kid[sib][e], u.kid[sib][o], e, n)
    BY <1>6, <2>2
  <2>4. GapGoes(u, pos, l)
    <3>1. u.kid[p][o] = sib /\ ~ u.red[sib] /\ sib \in Nodes /\ Firm(u, pos, {}, p, e)
      BY <2>1, <2>2
    <3> QED BY <1>9, <2>3, <3>1, BlackSiblingIterates
  <2> QED BY <2>1, <2>4 DEF GapGoes
<1> QED BY <1>7, <1>8

-----------------------------------------------------------------------------
(***************************************************************************)
(* What the steps do to the nodes as they are read from left to right.     *)
(***************************************************************************)

(* The sequence r is q with n behind those with its key (OrderedStore). *)
Inserted(q, r, n) ==
  \E i \in 1 .. Len(q) + 1 :
    /\ \A j \in 1 .. i - 1 : Key[q[j]] =< Key[n]
    /\ \A j \in i .. Len(q) : Key[q[j]] > Key[n]
    /\ r = InsertAt(q, i, n)

(* Rotations and colours leave the sequence alone. *)
LEMMA InOrderKept ==
  ASSUME NEW t, NEW pos, Shape(t, pos), IsFiniteSet(InTree(t)),
         NEW u, Shape(u, pos), InTree(u) = InTree(t)
  PROVE  InOrder(u) = InOrder(t)
<1>1. Sorted(InOrder(t), pos, InTree(t)) /\ Sorted(InOrder(u), pos, InTree(t))
  BY InOrderSorted
<1>2. \A x \in InTree(t) : pos[x] \in Int
  BY DEF InTree, Shape
<1> QED BY <1>1, <1>2, SortedUnique

(* A leaf that is linked where the search ended is where its key belongs.  *)
LEMMA InOrderInsert ==
  ASSUME NEW t, NEW pos, Shape(t, pos), IsFiniteSet(InTree(t)), KeysRise(t, pos, Key),
         NEW n \in Nodes, n \notin InTree(t), NEW u, NEW pos2, LeafByKey(t, pos, Key, n, u, pos2)
  PROVE  Inserted(InOrder(t), InOrder(u), n)
<1> DEFINE q == InOrder(t)
           S == InTree(t)
<1>0. Shape(u, pos2) /\ InTree(u) = S \cup {n}
  BY DEF LeafByKey, Firm
<1>1. /\ S \subseteq Nodes /\ \A x \in S : pos[x] \in Int
      /\ pos2 \in [Nodes -> Int] /\ \A x \in Nodes : Key[x] \in Int
  BY <1>0, KeyAssumption DEF Shape, InTree
<1>2. IsFiniteSet(S \cup {n})
  BY FS_AddElement
<1>3. Sorted(q, pos, S) /\ Sorted(InOrder(u), pos2, S \cup {n})
  BY <1>0, <1>2, InOrderSorted
<1>4. \A x \in S : pos2[x] = 2 * pos[x]
  BY DEF LeafByKey
<1>5. ASSUME NEW x \in S
      PROVE  /\ Key[x] =< Key[n] => pos2[x] < pos2[n]
             /\ Key[x] > Key[n] => pos2[n] < pos2[x]
  BY DEF LeafByKey
<1>6. SameOrder(pos, pos2, S)
  BY <1>1, <1>4 DEF SameOrder
<1>8. /\ Len(q) \in Nat /\ \A j \in 1 .. Len(q) : q[j] \in S
      /\ \A j, k \in 1 .. Len(q) : j < k => Key[q[j]] =< Key[q[k]]
  <2>1. q \in Seq(S)
    BY <1>3 DEF Sorted
  <2>2. Len(q) \in Nat /\ \A j \in 1 .. Len(q) : q[j] \in S
    BY <2>1, ElementOfSeq, LenProperties
  <2> HIDE DEF q
  <2> QED BY <1>3, <2>2 DEF Sorted, KeysRise
<1> HIDE DEF q, S
<1> DEFINE T == {i \in Nat : i >= 1 /\ (i = Len(q) + 1 \/ (i =< Len(q) /\ Key[q[i]] > Key[n]))}
<1>9. PICK i \in T : \A j \in T : i =< j
  <2>1. T \subseteq Nat /\ Len(q) + 1 \in T
    BY <1>8
  <2> HIDE DEF T
  <2> QED BY <2>1, LeastNumber
<1>10. i \in 1 .. Len(q) + 1
  BY <1>8, <1>9
<1>11. ASSUME NEW j \in 1 .. i - 1 PROVE j \in 1 .. Len(q) /\ Key[q[j]] =< Key[n]
  <2>1. j \in Nat /\ j >= 1 /\ j =< Len(q) /\ j < i
    BY <1>8, <1>10
  <2>2. j \notin T
    BY <1>9, <2>1
  <2>3. ~ (Key[q[j]] > Key[n])
    BY <2>1, <2>2
  <2>4. j \in 1 .. Len(q) /\ q[j] \in Nodes
    BY <1>1, <1>8, <2>1
  <2> QED BY <1>1, <2>3, <2>4
<1>12. ASSUME NEW j \in i .. Len(q) PROVE j \in 1 .. Len(q) /\ Key[q[j]] > Key[n]
  <2>1. j \in 1 .. Len(q) /\ i \in 1 .. Len(q) /\ i =< j
    BY <1>8, <1>10
  <2>2. Key[q[i]] > Key[n]
    BY <1>8, <1>9, <2>1
  <2>3. q[i] \in Nodes /\ q[j] \in Nodes
    BY <1>1, <1>8, <2>1
  <2>4. i = j \/ Key[q[i]] =< Key[q[j]]
    BY <1>8, <2>1
  <2> QED BY <1>1, <2>1, <2>2, <2>3, <2>4
<1>13. /\ \A j \in 1 .. i - 1 : pos2[q[j]] < pos2[n]
       /\ \A j \in i .. Len(q) : pos2[n] < pos2[q[j]]
  BY <1>5, <1>8, <1>11, <1>12
<1>14. \A x \in S \cup {n} : pos2[x] \in Int
  BY <1>1
<1>15. Sorted(InsertAt(q, i, n), pos2, S \cup {n})
  BY <1>3, <1>6, <1>10, <1>13, <1>14, SortedInsert DEF InsertAt
<1>16. InOrder(u) = InsertAt(q, i, n)
  BY <1>3, <1>14, <1>15, SortedUnique
<1>17. Inserted(q, InOrder(u), n)
  BY <1>10, <1>11, <1>12, <1>16 DEF Inserted
<1> QED BY <1>17 DEF q

(* An erased node leaves its place, the others keep their order. *)
LEMMA InOrderErase ==
  ASSUME NEW t, NEW pos, Shape(t, pos), IsFiniteSet(InTree(t)), KeysRise(t, pos, Key),
         NEW n \in InTree(t), NEW u, NEW pos2, Shape(u, pos2), InTree(u) = InTree(t) \ {n},
         SameOrder(pos, pos2, InTree(t) \ {n})
  PROVE  /\ KeysRise(u, pos2, Key)
         /\ \E i \in 1 .. Len(InOrder(t)) :
              InOrder(t)[i] = n /\ InOrder(u) = RemoveAt(InOrder(t), i)
<1> DEFINE q == InOrder(t)
<1>1. /\ \A x \in InTree(t) : pos[x] \in Int
      /\ \A x \in InTree(t) \ {n} : pos2[x] \in Int
  BY DEF Shape, InTree
<1>2. IsFiniteSet(InTree(t) \ {n})
  BY FS_RemoveElement
<1>3. Sorted(q, pos, InTree(t)) /\ Sorted(InOrder(u), pos2, InTree(t) \ {n})
  BY <1>2, InOrderSorted
<1>4. KeysRise(u, pos2, Key)
  BY DEF KeysRise, SameOrder
<1> HIDE DEF q
<1>5. PICK i \in 1 .. Len(q) : q[i] = n
  BY <1>3 DEF Sorted
<1>6. Sorted(RemoveAt(q, i), pos2, InTree(t) \ {n})
  BY <1>1, <1>3, <1>5, SortedRemove DEF RemoveAt
<1>7. InOrder(u) = RemoveAt(q, i)
  BY <1>1, <1>3, <1>6, SortedUnique
<1> QED BY <1>4, <1>5, <1>7 DEF q

(* The node that replaces another stands in its place. *)
LEMMA InOrderReplace ==
  ASSUME NEW t, NEW pos, Shape(t, pos), IsFiniteSet(InTree(t)), KeysRise(t, pos, Key),
         NEW v \in InTree(t), NEW w \in Nodes, w \notin InTree(t), Key[v] = Key[w],
         NEW pos2, pos2[w] = pos[v], \A x \in Nodes : x # w => pos2[x] = pos[x],
         NEW u, Shape(u, pos2), InTree(u) = (InTree(t) \ {v}) \cup {w}
  PROVE  /\ KeysRise(u, pos2, Key)
         /\ \E i \in 1 .. Len(InOrder(t)) :
              InOrder(t)[i] = v /\ InOrder(u) = ReplaceAt(InOrder(t), i, w)
<1> DEFINE q == InOrder(t)
           S == InTree(t)
<1>1. /\ S \subseteq Nodes /\ \A x \in S : pos[x] \in Int
      /\ pos \in [Nodes -> Int] /\ \A x \in Nodes : Key[x] \in Int
  BY KeyAssumption DEF Shape, InTree
<1>2. pos2[w] = pos[v] /\ \A x \in S : pos2[x] = pos[x]
  BY <1>1
<1>3. IsFiniteSet((S \ {v}) \cup {w})
  BY FS_AddElement, FS_RemoveElement
<1>4. Sorted(q, pos, S) /\ Sorted(InOrder(u), pos2, (S \ {v}) \cup {w})
  BY <1>3, InOrderSorted
<1>5. KeysRise(u, pos2, Key)
  <2> SUFFICES ASSUME NEW a \in (S \ {v}) \cup {w}, NEW b \in (S \ {v}) \cup {w}, pos2[a] < pos2[b]
               PROVE  Key[a] =< Key[b]
    BY DEF KeysRise
  <2> DEFINE old(x) == IF x = w THEN v ELSE x
  <2>1. old(a) \in S /\ old(b) \in S /\ pos2[a] = pos[old(a)] /\ pos2[b] = pos[old(b)]
    BY <1>2
  <2>2. Key[old(a)] = Key[a] /\ Key[old(b)] = Key[b]
    OBVIOUS
  <2> HIDE DEF old
  <2> QED BY <2>1, <2>2 DEF KeysRise
<1> HIDE DEF q, S
<1>6. PICK i \in 1 .. Len(q) : q[i] = v
  BY <1>4 DEF Sorted, S
<1>7. Sorted(ReplaceAt(q, i, w), pos2, (S \ {v}) \cup {w})
  <2>1. w \notin S /\ v \in S
    BY DEF S
  <2> QED BY <1>1, <1>2, <1>4, <1>6, <2>1, SortedExchange DEF ReplaceAt
<1>8. \A x \in (S \ {v}) \cup {w} : pos2[x] \in Int
  BY <1>1, <1>2 DEF S
<1> DEFINE T == (S \ {v}) \cup {w}
<1>10. /\ Sorted(InOrder(u), pos2, T) /\ Sorted(ReplaceAt(q, i, w), pos2, T)
       /\ \A x \in T : pos2[x] \in Int
  BY <1>4, <1>7, <1>8
<1> HIDE DEF T
<1>9. InOrder(u) = ReplaceAt(q, i, w)
  BY <1>10, SortedUnique
<1> QED BY <1>5, <1>6, <1>9 DEF q

-----------------------------------------------------------------------------
(* A red-black tree but for the red nodes S, in the order of the keys. *)
Whole(t, S) ==
  \E pos \in [Nodes -> Int] : Firm(t, pos, S, NULL, "left") /\ KeysRise(t, pos, Key)

(* Such a tree but for one black node less on the way to n. *)
Gapped(t, p, n) ==
  \E pos \in [Nodes -> Int], s \in Sides :
    t.kid[p][s] = n /\ Firm(t, pos, {}, p, s) /\ KeysRise(t, pos, Key)

(* What a step does to the ordered collection. *)
StoreStep == [Store!Next]_(InOrder(tree))

(* The inductive invariant.  Between two steps the tree has at most the    *)
(* one defect that the loop under way is about to repair or pass upwards.  *)
(* linked, the callers' record, is what hangs in the tree.                 *)
RbInv ==
  /\ linked = InTree(tree) /\ IsFiniteSet(linked) /\ op \in {"idle", "insert", "erase"}
  /\ op = "idle" => Whole(tree, {})
  /\ op = "insert" =>
       node \in Nodes /\ tree.red[node] /\ parent = tree.up[node] /\ Whole(tree, {node})
  /\ op = "erase" =>
       parent \in Nodes /\ ~ IsRed(tree, node) /\ Gapped(tree, parent, node)

(* The positions are a function on the nodes. *)
LEMMA FirmHas ==
  ASSUME NEW t, NEW pos, NEW S, NEW q, NEW e, Firm(t, pos, S, q, e)
  PROVE  pos \in [Nodes -> Int]
BY DEF Firm, Shape

(* The empty tree is whole. *)
LEMMA InitRbInv == Init => RbInv
<1> SUFFICES ASSUME Init PROVE RbInv
  OBVIOUS
<1>1. tree = EmptyTree /\ linked = {} /\ op = "idle"
  BY DEF Init
<1>2. PICK pos \in [Nodes -> Int] : Firm(EmptyTree, pos, {}, NULL, "left")
  BY EmptyFirm
<1>3. InTree(EmptyTree) = {} /\ KeysRise(EmptyTree, pos, Key)
  BY EmptyFirm DEF KeysRise
<1>4. Whole(EmptyTree, {})
  BY <1>2, <1>3 DEF Whole
<1> QED BY <1>1, <1>3, <1>4, FS_EmptySet DEF RbInv

(* rb_link_node where the search of the caller ends. *)
LEMMA InsertLinks ==
  ASSUME NEW t, Whole(t, {}), IsFiniteSet(InTree(t)), NEW n \in Nodes, n \notin InTree(t),
         NEW at, at = Place(t, Key, n), NEW u, u = rb_link_node(t, n, at[1], at[2])
  PROVE  /\ Whole(u, {n}) /\ InTree(u) = InTree(t) \cup {n} /\ u.red[n] /\ u.up[n] = at[1]
         /\ Inserted(InOrder(t), InOrder(u), n)
<1>1. PICK pos \in [Nodes -> Int] : Firm(t, pos, {}, NULL, "left") /\ KeysRise(t, pos, Key)
  BY DEF Whole
<1>2. Shape(t, pos)
  BY <1>1 DEF Firm
<1>3. u.up[n] = at[1] /\ \E pos2 \in [Nodes -> Int] : LeafByKey(t, pos, Key, n, u, pos2)
  BY <1>1, KeyAssumption, LinkedByKey
<1>4. PICK pos2 \in [Nodes -> Int] : LeafByKey(t, pos, Key, n, u, pos2)
  BY <1>3
<1>5. Inserted(InOrder(t), InOrder(u), n)
  BY <1>1, <1>2, <1>4, InOrderInsert
<1>6. Whole(u, {n})
  BY <1>4 DEF Whole, LeafByKey
<1> QED BY <1>3, <1>4, <1>5, <1>6 DEF LeafByKey

(* Continue, its two cases apart. *)
LEMMA Continued ==
  ASSUME NEW what, NEW t, NEW n, NEW p, NEW more \in BOOLEAN, Continue(what, t, n, p, more)
  PROVE  /\ tree' = t
         /\ more => op' = what /\ node' = n /\ parent' = p
         /\ ~ more => op' = "idle"
BY DEF Continue

(* The sequence holds what hangs in the tree. *)
LEMMA InOrderHolds ==
  ASSUME NEW t, NEW pos, Shape(t, pos), IsFiniteSet(InTree(t))
  PROVE  Store!Range(InOrder(t)) = InTree(t)
<1> DEFINE q == InOrder(t)
<1>1. Sorted(q, pos, InTree(t))
  BY InOrderSorted
<1> HIDE DEF q
<1>2. q \in Seq(InTree(t)) /\ \A x \in InTree(t) : \E i \in 1 .. Len(q) : q[i] = x
  BY <1>1 DEF Sorted
<1>3. DOMAIN q = 1 .. Len(q) /\ \A i \in 1 .. Len(q) : q[i] \in InTree(t)
  BY <1>2
<1> QED BY <1>2, <1>3 DEF q, Store!Range

(* An insertion begins its loop with the one red node it may have, and the *)
(* collection has got it.                                                  *)
LEMMA InsertKeeps ==
  ASSUME RbInv, NEW n \in Nodes, Insert(n)
  PROVE  RbInv' /\ Store!Insert(n)
<1>1. /\ op = "idle" /\ n \notin linked /\ linked' = linked \cup {n}
      /\ Whole(tree, {}) /\ linked = InTree(tree) /\ IsFiniteSet(linked)
  BY DEF Insert, RbInv
<1>2. PICK at, u : /\ at = Place(tree, Key, n) /\ u = rb_link_node(tree, n, at[1], at[2])
                   /\ Continue("insert", u, n, at[1], TRUE)
  BY DEF Insert
<1>3. tree' = u /\ op' = "insert" /\ node' = n /\ parent' = at[1]
  BY <1>2, Continued
<1>4. /\ Whole(u, {n}) /\ InTree(u) = InTree(tree) \cup {n} /\ u.red[n] /\ u.up[n] = at[1]
      /\ Inserted(InOrder(tree), InOrder(u), n)
  BY <1>1, <1>2, InsertLinks
<1>5. RbInv'
  <2>1. IsFiniteSet(linked')
    BY <1>1, FS_AddElement
  <2> QED BY <1>1, <1>3, <1>4, <2>1 DEF RbInv
<1>6. Store!Insert(n)
  <2>1. PICK pos : Shape(tree, pos)
    BY <1>1 DEF Whole, Firm
  <2>2. n \notin Store!Range(InOrder(tree))
    BY <1>1, <2>1, InOrderHolds
  <2>3. InOrder(tree)' = InOrder(u)
    BY <1>3
  <2> QED BY <1>4, <2>2, <2>3 DEF Inserted, InsertAt, Store!InsertAt, Store!Insert
<1> QED BY <1>5, <1>6

(* An iteration that keeps the positions keeps the order. *)
LEMMA OrderKept ==
  ASSUME NEW t, NEW pos, NEW S, NEW q, NEW e, Firm(t, pos, S, q, e), IsFiniteSet(InTree(t)),
         KeysRise(t, pos, Key), NEW u, NEW T, NEW r, NEW f, Firm(u, pos, T, r, f),
         InTree(u) = InTree(t)
  PROVE  KeysRise(u, pos, Key) /\ InOrder(u) = InOrder(t)
<1>1. Shape(t, pos) /\ Shape(u, pos)
  BY DEF Firm
<1> QED BY <1>1, InOrderKept DEF KeysRise

(* An iteration of that loop keeps the invariant and the collection. *)
LEMMA InsertStepKeeps ==
  ASSUME RbInv, InsertStep
  PROVE  RbInv' /\ InOrder(tree)' = InOrder(tree)
<1>1. /\ op = "insert" /\ linked' = linked /\ linked = InTree(tree) /\ IsFiniteSet(linked)
      /\ node \in Nodes /\ tree.red[node] /\ parent = tree.up[node] /\ Whole(tree, {node})
  BY DEF InsertStep, RbInv
<1>2. PICK l : /\ l = InsertIteration(Loop(tree, node, parent, TRUE))
               /\ Continue("insert", l.t, l.node, l.parent, l.more)
  BY DEF InsertStep
<1>3. PICK pos \in [Nodes -> Int] :
        Firm(tree, pos, {node}, NULL, "left") /\ KeysRise(tree, pos, Key)
  BY <1>1 DEF Whole
<1>4. GoesOn(tree, pos, l)
  BY <1>1, <1>2, <1>3, InsertIterates
<1>5. InTree(l.t) = InTree(tree)
  BY <1>4 DEF GoesOn
<1>6. CASE l.more
  <2>1. tree' = l.t /\ op' = "insert" /\ node' = l.node /\ parent' = l.parent
    BY <1>2, <1>6 DEF Continue
  <2>2. /\ l.node \in Nodes /\ l.t.red[l.node] /\ l.parent = l.t.up[l.node]
        /\ Firm(l.t, pos, {l.node}, NULL, "left")
    BY <1>4, <1>6 DEF GoesOn
  <2>4. KeysRise(l.t, pos, Key) /\ InOrder(l.t) = InOrder(tree)
    BY <1>1, <1>3, <1>5, <2>2, OrderKept
  <2>3. Whole(l.t, {l.node})
    BY <2>2, <2>4 DEF Whole
  <2>5. InOrder(tree)' = InOrder(tree)
    BY <2>1, <2>4
  <2>6. RbInv'
    BY <1>1, <1>5, <2>1, <2>2, <2>3 DEF RbInv
  <2> QED BY <2>5, <2>6
<1>7. CASE ~ l.more
  <2>1. tree' = l.t /\ op' = "idle"
    BY <1>2, <1>7 DEF Continue
  <2>3. Firm(l.t, pos, {}, NULL, "left")
    BY <1>4, <1>7 DEF GoesOn
  <2>4. KeysRise(l.t, pos, Key) /\ InOrder(l.t) = InOrder(tree)
    BY <1>1, <1>3, <1>5, <2>3, OrderKept
  <2>2. Whole(l.t, {})
    BY <2>3, <2>4 DEF Whole
  <2>5. InOrder(tree)' = InOrder(tree)
    BY <2>1, <2>4
  <2>6. RbInv'
    BY <1>1, <1>5, <2>1, <2>2 DEF RbInv
  <2> QED BY <2>5, <2>6
<1> QED BY <1>6, <1>7

(* An erasure begins its loop with the gap, or is over; the collection has *)
(* lost the node.                                                          *)
LEMMA EraseKeeps ==
  ASSUME RbInv, NEW n \in Nodes, Erase(n)
  PROVE  RbInv' /\ Store!Erase(n)
<1>1. /\ op = "idle" /\ n \in InTree(tree) /\ linked' = InTree(tree) \ {n} /\ Whole(tree, {})
      /\ IsFiniteSet(InTree(tree))
  BY DEF Erase, RbInv
<1>2. PICK e : /\ e = rb_erase_augmented(tree, n)
               /\ Continue("erase", e.t, NULL, e.rebalance, e.rebalance # NULL)
  BY DEF Erase
<1>3. PICK pos \in [Nodes -> Int] :
        Firm(tree, pos, {}, NULL, "left") /\ KeysRise(tree, pos, Key)
  BY <1>1 DEF Whole
<1>4. Unhung(tree, pos, n, e)
  BY <1>1, <1>2, <1>3, EraseUnhangs
<1>5. PICK pos2 \in [Nodes -> Int] :
        /\ InTree(e.t) = InTree(tree) \ {n} /\ SameOrder(pos, pos2, InTree(tree) \ {n})
        /\ e.rebalance = NULL => Firm(e.t, pos2, {}, NULL, "left")
        /\ e.rebalance # NULL =>
             /\ e.rebalance \in Nodes
             /\ \E s \in Sides :
                  e.t.kid[e.rebalance][s] = NULL /\ Firm(e.t, pos2, {}, e.rebalance, s)
  BY <1>4 DEF Unhung
<1>8. Shape(tree, pos) /\ Shape(e.t, pos2)
  BY <1>3, <1>5 DEF Firm
<1>9. /\ KeysRise(e.t, pos2, Key)
      /\ \E i \in 1 .. Len(InOrder(tree)) :
           InOrder(tree)[i] = n /\ InOrder(e.t) = RemoveAt(InOrder(tree), i)
  BY <1>1, <1>3, <1>5, <1>8, InOrderErase
<1>10. tree' = e.t /\ IsFiniteSet(linked')
  BY <1>1, <1>2, FS_RemoveElement DEF Continue
<1>11. Store!Erase(n)
  <2>1. InOrder(tree)' = InOrder(e.t)
    BY <1>10
  <2>2. PICK i \in 1 .. Len(InOrder(tree)) :
          InOrder(tree)[i] = n /\ InOrder(e.t) = RemoveAt(InOrder(tree), i)
    BY <1>9
  <2>3. i \in DOMAIN InOrder(tree)
    BY <1>1, <1>8, <2>2, InOrderSorted DEF Sorted
  <2> QED BY <2>1, <2>2, <2>3 DEF RemoveAt, Store!RemoveAt, Store!Erase
<1>6. CASE e.rebalance = NULL
  <2>1. op' = "idle"
    BY <1>2, <1>6 DEF Continue
  <2>2. Whole(e.t, {})
    BY <1>5, <1>6, <1>9 DEF Whole
  <2> QED BY <1>1, <1>5, <1>10, <1>11, <2>1, <2>2 DEF RbInv
<1>7. CASE e.rebalance # NULL
  <2>1. op' = "erase" /\ node' = NULL /\ parent' = e.rebalance
    BY <1>2, <1>7 DEF Continue
  <2>2. e.rebalance \in Nodes /\ Gapped(e.t, e.rebalance, NULL)
    BY <1>5, <1>7, <1>9 DEF Gapped
  <2>3. ~ IsRed(e.t, NULL)
    BY DEF IsRed
  <2> QED BY <1>1, <1>5, <1>10, <1>11, <2>1, <2>2, <2>3 DEF RbInv
<1> QED BY <1>6, <1>7

(* An iteration of that loop keeps the invariant and the collection. *)
LEMMA EraseStepKeeps ==
  ASSUME RbInv, EraseStep
  PROVE  RbInv' /\ InOrder(tree)' = InOrder(tree)
<1>1. /\ op = "erase" /\ linked' = linked /\ linked = InTree(tree) /\ IsFiniteSet(linked)
      /\ parent \in Nodes /\ ~ IsRed(tree, node) /\ Gapped(tree, parent, node)
  BY DEF EraseStep, RbInv
<1>2. PICK l : /\ l = EraseIteration(Loop(tree, node, parent, TRUE))
               /\ Continue("erase", l.t, l.node, l.parent, l.more)
  BY DEF EraseStep
<1>3. PICK pos \in [Nodes -> Int], s \in Sides :
        tree.kid[parent][s] = node /\ Firm(tree, pos, {}, parent, s) /\ KeysRise(tree, pos, Key)
  BY <1>1 DEF Gapped
<1>4. GapGoes(tree, pos, l)
  BY <1>1, <1>2, <1>3, EraseIterates
<1>5. InTree(l.t) = InTree(tree)
  BY <1>4 DEF GapGoes
<1>6. CASE l.more
  <2>1. tree' = l.t /\ op' = "erase" /\ node' = l.node /\ parent' = l.parent
    BY <1>2, <1>6 DEF Continue
  <2>4. PICK f \in Sides : /\ l.node \in Nodes /\ ~ l.t.red[l.node] /\ l.parent \in Nodes
                           /\ l.t.kid[l.parent][f] = l.node /\ Firm(l.t, pos, {}, l.parent, f)
    BY <1>4, <1>6 DEF GapGoes
  <2>5. KeysRise(l.t, pos, Key) /\ InOrder(l.t) = InOrder(tree)
    BY <1>1, <1>3, <1>5, <2>4, OrderKept
  <2>2. l.parent \in Nodes /\ ~ l.t.red[l.node] /\ Gapped(l.t, l.parent, l.node)
    BY <2>4, <2>5 DEF Gapped
  <2>3. ~ IsRed(l.t, l.node)
    BY <2>2 DEF IsRed
  <2>6. RbInv'
    BY <1>1, <1>5, <2>1, <2>2, <2>3 DEF RbInv
  <2>7. InOrder(tree)' = InOrder(tree)
    BY <2>1, <2>5
  <2> QED BY <2>6, <2>7
<1>7. CASE ~ l.more
  <2>1. tree' = l.t /\ op' = "idle"
    BY <1>2, <1>7 DEF Continue
  <2>3. Firm(l.t, pos, {}, NULL, "left")
    BY <1>4, <1>7 DEF GapGoes
  <2>4. KeysRise(l.t, pos, Key) /\ InOrder(l.t) = InOrder(tree)
    BY <1>1, <1>3, <1>5, <2>3, OrderKept
  <2>2. Whole(l.t, {})
    BY <2>3, <2>4 DEF Whole
  <2>5. InOrder(tree)' = InOrder(tree)
    BY <2>1, <2>4
  <2>6. RbInv'
    BY <1>1, <1>5, <2>1, <2>2 DEF RbInv
  <2> QED BY <2>5, <2>6
<1> QED BY <1>6, <1>7

(* A replacement exchanges nodes of the same place. *)
LEMMA ReplaceKeeps ==
  ASSUME RbInv, NEW v \in Nodes, NEW w \in Nodes, Replace(v, w)
  PROVE  RbInv' /\ Store!Replace(v, w)
<1>1. /\ op = "idle" /\ op' = op /\ v \in InTree(tree) /\ w \notin InTree(tree)
      /\ linked' = (InTree(tree) \ {v}) \cup {w} /\ Whole(tree, {})
      /\ tree' = rb_replace_node(tree, v, w) /\ IsFiniteSet(InTree(tree)) /\ Key[v] = Key[w]
  BY DEF Replace, RbInv
<1>2. PICK pos \in [Nodes -> Int] :
        Firm(tree, pos, {}, NULL, "left") /\ KeysRise(tree, pos, Key)
  BY <1>1 DEF Whole
<1>3. PICK u : u = rb_replace_node(tree, v, w)
  OBVIOUS
<1>4. Replaced(tree, u, v, w)
  <2>1. Shape(tree, pos)
    BY <1>2 DEF Firm
  <2> QED BY <1>1, <1>3, <2>1, NodeReplaced
<1>5. "left" \in Sides /\ v # NULL
  BY NullAssumption DEF Sides
<1>6. PICK pos2 : /\ Firm(u, pos2, {}, IF NULL = v THEN w ELSE NULL, "left")
                  /\ InTree(u) = (InTree(tree) \ {v}) \cup {w}
                  /\ pos2 = [pos EXCEPT ![w] = pos[v]]
  BY <1>1, <1>2, <1>4, <1>5, ReplacedFirm
<1>7. Firm(u, pos2, {}, NULL, "left")
  BY <1>5, <1>6
<1>9. Shape(tree, pos) /\ Shape(u, pos2)
  BY <1>2, <1>7 DEF Firm
<1>10. /\ KeysRise(u, pos2, Key)
       /\ \E i \in 1 .. Len(InOrder(tree)) :
            InOrder(tree)[i] = v /\ InOrder(u) = ReplaceAt(InOrder(tree), i, w)
  <2>1. IsFiniteSet(InTree(tree)) /\ KeysRise(tree, pos, Key) /\ Key[v] = Key[w]
    BY <1>1, <1>2
  <2>2. v \in InTree(tree) /\ w \in Nodes /\ w \notin InTree(tree)
    BY <1>1
  <2>3. pos2[w] = pos[v] /\ \A x \in Nodes : x # w => pos2[x] = pos[x]
    BY <1>6, <1>9 DEF Shape
  <2>4. InTree(u) = (InTree(tree) \ {v}) \cup {w}
    BY <1>6
  <2> QED BY <1>9, <2>1, <2>2, <2>3, <2>4, InOrderReplace
<1>8. Whole(u, {})
  BY <1>7, <1>10, FirmHas DEF Whole
<1>11. RbInv'
  <2>1. IsFiniteSet(linked')
    BY <1>1, FS_AddElement, FS_RemoveElement
  <2> QED BY <1>1, <1>3, <1>6, <1>8, <2>1 DEF RbInv
<1>12. Store!Replace(v, w)
  <2>1. InOrder(tree)' = InOrder(u)
    BY <1>1, <1>3
  <2>2. PICK i \in 1 .. Len(InOrder(tree)) :
          InOrder(tree)[i] = v /\ InOrder(u) = ReplaceAt(InOrder(tree), i, w)
    BY <1>10
  <2>3. i \in DOMAIN InOrder(tree)
    BY <1>1, <1>9, <2>2, InOrderSorted DEF Sorted
  <2>4. w \notin Store!Range(InOrder(tree))
    BY <1>1, <1>9, InOrderHolds
  <2> QED BY <1>1, <2>1, <2>2, <2>3, <2>4 DEF ReplaceAt, Store!ReplaceAt, Store!Replace
<1> QED BY <1>11, <1>12

(* All steps together. *)
LEMMA NextKeepsRbInv == RbInv /\ [Next]_vars => RbInv' /\ StoreStep
<1> SUFFICES ASSUME RbInv, [Next]_vars PROVE RbInv' /\ StoreStep
  OBVIOUS
<1>1. ASSUME NEW n \in Nodes, Insert(n) PROVE RbInv' /\ StoreStep
  BY <1>1, InsertKeeps DEF StoreStep, Store!Next
<1>2. ASSUME NEW n \in Nodes, Erase(n) PROVE RbInv' /\ StoreStep
  BY <1>2, EraseKeeps DEF StoreStep, Store!Next
<1>3. ASSUME NEW n \in Nodes, NEW m \in Nodes, Replace(n, m) PROVE RbInv' /\ StoreStep
  BY <1>3, ReplaceKeeps DEF StoreStep, Store!Next
<1>4. CASE InsertStep
  BY <1>4, InsertStepKeeps DEF StoreStep
<1>5. CASE EraseStep
  BY <1>5, EraseStepKeeps DEF StoreStep
<1>6. CASE UNCHANGED vars
  BY <1>6 DEF vars, RbInv, StoreStep
<1> QED BY <1>1, <1>2, <1>3, <1>4, <1>5, <1>6 DEF Next

(* The tree of rbtree.c is a red-black tree in every state but for the one *)
(* defect its loops know of: for every number of nodes, with whatever      *)
(* keys, and for every sequence of calls.                                  *)
THEOREM RbInvariant == Spec => []RbInv
<1>1. RbInv /\ [Next]_vars => RbInv'
  BY NextKeepsRbInv
<1> QED BY <1>1, InitRbInv, PTL DEF Spec

(* Read from left to right the tree is the collection that rbtree.h        *)
(* promises: a node goes behind all those with its key or a smaller one,   *)
(* the others keep their order whatever is rotated, erased or replaced.    *)
THEOREM TreeKeepsOrder == Spec => KeepsOrder
<1>1. Init => Store!Init
  <2> SUFFICES ASSUME Init PROVE InOrder(tree) = <<>>
    BY DEF Store!Init
  <2>1. tree = EmptyTree /\ EmptyTree.root = NULL
    BY DEF Init, EmptyTree
  <2>2. PICK pos : Shape(tree, pos)
    BY InitRbInv DEF RbInv, Init, Whole, Firm
  <2>3. linked = {} /\ linked = InTree(tree)
    BY InitRbInv DEF RbInv, Init
  <2>4. Sorted(InOrder(tree), pos, {})
    BY <2>2, <2>3, FS_EmptySet, InOrderSorted
  <2> DEFINE q == InOrder(tree)
  <2> HIDE DEF q
  <2>5. q \in Seq({})
    BY <2>4 DEF Sorted, q
  <2>6. q = <<>>
    BY <2>5
  <2> QED BY <2>6 DEF q
<1>2. RbInv /\ [Next]_vars => [Store!Next]_(InOrder(tree))
  BY NextKeepsRbInv DEF StoreStep
<1> QED BY <1>1, <1>2, RbInvariant, PTL DEF Spec, KeepsOrder, Store!Spec

(* The words of RbTree's properties, from the invariant's. *)
LEMMA FirmSays ==
  ASSUME NEW t, NEW pos, NEW S, NEW q, NEW e, Firm(t, pos, S, q, e)
  PROVE  /\ LinksAgree(t) /\ RedPairs(t) \subseteq S
         /\ t.root \notin S => ~ IsRed(t, t.root)
         /\ BlackHeight(t, <<q, e>>) # -1
<1>1. Shape(t, pos) /\ NoRedPair(t, S) /\ Balanced(t, q, e) /\ NULL \notin Nodes
  BY NullAssumption DEF Firm
<1>2. LinksAgree(t) /\ t.root \in Nodes \cup {NULL}
  BY <1>1 DEF Shape, Trees
<1>3. RedPairs(t) \subseteq S
  BY <1>1 DEF RedPairs, NoRedPair, IsRed
<1>4. t.root \notin S => ~ IsRed(t, t.root)
  <2> SUFFICES ASSUME t.root \notin S, t.root # NULL, t.red[t.root] PROVE FALSE
    BY DEF IsRed
  <2>1. t.up[t.root] \in Nodes
    BY <1>1, <1>2 DEF NoRedPair
  <2> QED BY <1>1, <1>2, <2>1 DEF LinksAgree
<1>5. BlackHeight(t, <<q, e>>) # -1
  BY <1>1, BalancedHeight
<1> QED BY <1>2, <1>3, <1>4, <1>5

(* Between two calls the links agree, the root is black, no red node has a *)
(* red parent and all paths down hold the same number of black nodes       *)
(* (rb_insert_color, rb_erase, rb_replace_node of rbtree.c).               *)
THEOREM TreeIsRedBlack == Spec => []RedBlack
<1>1. RbInv => RedBlack
  <2> SUFFICES ASSUME RbInv, op = "idle"
               PROVE  /\ LinksAgree(tree) /\ ~ IsRed(tree, tree.root) /\ RedPairs(tree) = {}
                      /\ BlackHeight(tree, NoGap) # -1
    BY DEF RedBlack
  <2>1. PICK pos \in [Nodes -> Int] : Firm(tree, pos, {}, NULL, "left")
    BY DEF RbInv, Whole
  <2> QED BY <2>1, FirmSays DEF NoGap
<1> QED BY <1>1, RbInvariant, PTL

(* The loop invariant that __rb_insert states (rbtree.c:181-183) holds     *)
(* before each of its iterations: the node is red and it and its parent    *)
(* are the only red pair.                                                  *)
THEOREM InsertionRepairs == Spec => []InsertLoop
<1>1. RbInv => InsertLoop
  <2> SUFFICES ASSUME RbInv, op = "insert"
               PROVE  /\ LinksAgree(tree) /\ tree.red[node] /\ parent = tree.up[node]
                      /\ RedPairs(tree) \subseteq {node}
                      /\ (tree.root # node => ~ IsRed(tree, tree.root))
                      /\ BlackHeight(tree, NoGap) # -1
    BY DEF InsertLoop
  <2>1. PICK pos \in [Nodes -> Int] : Firm(tree, pos, {node}, NULL, "left")
    BY DEF RbInv, Whole
  <2>2. /\ LinksAgree(tree) /\ RedPairs(tree) \subseteq {node}
        /\ tree.root \notin {node} => ~ IsRed(tree, tree.root)
        /\ BlackHeight(tree, <<NULL, "left">>) # -1
    BY <2>1, FirmSays
  <2>3. tree.red[node] /\ parent = tree.up[node]
    BY DEF RbInv
  <2> QED BY <2>2, <2>3 DEF NoGap
<1> QED BY <1>1, RbInvariant, PTL

(* The loop invariants that ____rb_erase_color states (rbtree.c:322-328)   *)
(* hold before each of its iterations: the node is black or missing, it is *)
(* not the root, and the paths through it are one black node short.        *)
THEOREM ErasureRepairs == Spec => []EraseLoop
<1>1. RbInv => EraseLoop
  <2> SUFFICES ASSUME RbInv, op = "erase"
               PROVE  /\ parent # NULL /\ ~ IsRed(tree, node)
                      /\ LinksAgree(tree) /\ RedPairs(tree) = {} /\ ~ IsRed(tree, tree.root)
                      /\ \E s \in Sides : /\ tree.kid[parent][s] = node
                                          /\ BlackHeight(tree, <<parent, s>>) # -1
    BY DEF EraseLoop
  <2>1. parent # NULL /\ ~ IsRed(tree, node)
    BY NullAssumption DEF RbInv
  <2>2. PICK pos \in [Nodes -> Int], s \in Sides : tree.kid[parent][s] = node /\ Firm(tree, pos,
        {}, parent, s)
    BY DEF RbInv, Gapped
  <2>3. /\ LinksAgree(tree) /\ RedPairs(tree) \subseteq {} /\ ~ IsRed(tree, tree.root)
        /\ BlackHeight(tree, <<parent, s>>) # -1
    BY <2>2, FirmSays
  <2> QED BY <2>1, <2>2, <2>3
<1> QED BY <1>1, RbInvariant, PTL

(***************************************************************************)
(* The walks, and the leftmost node the callers keep.                      *)
(***************************************************************************)

(* The first of a sequence, or none. *)
First(q) == IF Len(q) > 0 THEN q[1] ELSE NULL

(* What stands first after one member went in, out, or was exchanged.      *)
LEMMA FirstAfter ==
  ASSUME NEW S, NEW q \in Seq(S), NEW n \in S
  PROVE  /\ \A i \in 1 .. Len(q) + 1 :
              First(SubSeq(q, 1, i - 1) \o <<n>> \o SubSeq(q, i, Len(q)))
                = IF i = 1 THEN n ELSE q[1]
         /\ \A i \in 1 .. Len(q) :
              First(SubSeq(q, 1, i - 1) \o SubSeq(q, i + 1, Len(q)))
                = IF i > 1 THEN q[1] ELSE IF Len(q) > 1 THEN q[2] ELSE NULL
         /\ \A i \in 1 .. Len(q) : First([q EXCEPT ![i] = n]) = IF i = 1 THEN n ELSE q[1]
<1> DEFINE K == Len(q)
<1>1. K \in Nat /\ \A i \in 1 .. K : q[i] \in S
  BY LenProperties, ElementOfSeq
<1>2. ASSUME NEW i \in 1 .. K + 1
      PROVE  SubSeq(q, 1, i - 1) \in Seq(S) /\ Len(SubSeq(q, 1, i - 1)) = i - 1
             /\ (i > 1 => SubSeq(q, 1, i - 1)[1] = q[1])
  <2>1. CASE i = 1
    <3>1. SubSeq(q, 1, 0) = <<>>
      BY SubSeqEmpty
    <3> QED BY <2>1, <3>1
  <2>2. CASE i # 1
    <3>1. /\ 1 \in Int /\ i - 1 \in Int /\ 1 =< i - 1 /\ \A j \in 1 .. i - 1 : q[j] \in S
          /\ (i - 1) - 1 + 1 = i - 1 /\ 1 \in 1 .. i - 1
      BY <1>1, <2>2
    <3>2. /\ SubSeq(q, 1, i - 1) \in Seq(S) /\ Len(SubSeq(q, 1, i - 1)) = (i - 1) - 1 + 1
          /\ \A j \in 1 .. (i - 1) - 1 + 1 : SubSeq(q, 1, i - 1)[j] = q[1 + j - 1]
      BY <3>1, SubSeqProperties
    <3> QED BY <3>1, <3>2
  <2> QED BY <2>1, <2>2
<1>3. ASSUME NEW i \in 1 .. K + 1
      PROVE  SubSeq(q, i, K) \in Seq(S) /\ Len(SubSeq(q, i, K)) = K - i + 1
             /\ (i =< K => SubSeq(q, i, K)[1] = q[i])
  <2>1. CASE i = K + 1
    <3>1. SubSeq(q, i, K) = <<>>
      BY <1>1, <2>1, SubSeqEmpty
    <3>2. K - i + 1 = 0 /\ ~ (i =< K)
      BY <1>1, <2>1
    <3> QED BY <3>1, <3>2
  <2>2. CASE i # K + 1
    <3>1. /\ i \in Int /\ K \in Int /\ i =< K /\ (\A j \in i .. K : q[j] \in S)
          /\ 1 \in 1 .. K - i + 1 /\ i + 1 - 1 = i
      BY <1>1, <2>2
    <3>2. /\ SubSeq(q, i, K) \in Seq(S) /\ Len(SubSeq(q, i, K)) = K - i + 1
          /\ \A j \in 1 .. K - i + 1 : SubSeq(q, i, K)[j] = q[i + j - 1]
      BY <3>1, SubSeqProperties
    <3> QED BY <3>1, <3>2
  <2> QED BY <2>1, <2>2
<1> HIDE DEF K
<1>4. ASSUME NEW a \in Seq(S), NEW b \in Seq(S)
      PROVE  a \o b \in Seq(S) /\ First(a \o b) = IF Len(a) > 0 THEN a[1] ELSE First(b)
  <2>1. PICK c : c = a \o b
    OBVIOUS
  <2>2. c \in Seq(S) /\ Behind(c, a, b)
    BY <2>1, ConcatBehind
  <2>3. /\ Len(a) \in Nat /\ Len(b) \in Nat /\ Len(c) = Len(a) + Len(b)
        /\ Len(a) > 0 => c[1] = a[1]
        /\ Len(a) = 0 /\ Len(b) > 0 => c[1] = b[1]
    <3>1. Len(a) \in Nat /\ Len(b) \in Nat /\ Len(c) = Len(a) + Len(b)
      BY <2>2 DEF Behind
    <3>2. (Len(a) > 0 => 1 \in 1 .. Len(a)) /\ (Len(b) > 0 => 1 \in 1 .. Len(b))
      BY <3>1
    <3> QED BY <2>2, <3>1, <3>2 DEF Behind
  <2> QED BY <2>1, <2>2, <2>3 DEF First
<1>5. ASSUME NEW i \in 1 .. K + 1
      PROVE  First(SubSeq(q, 1, i - 1) \o <<n>> \o SubSeq(q, i, K)) = IF i = 1 THEN n ELSE q[1]
  <2>1. PICK one, a, b : one = <<n>> /\ a = SubSeq(q, 1, i - 1) /\ b = SubSeq(q, i, K)
    OBVIOUS
  <2>2. one \in Seq(S) /\ Len(one) = 1 /\ one[1] = n
    BY <2>1
  <2>3. /\ a \in Seq(S) /\ Len(a) = i - 1 /\ (i > 1 => a[1] = q[1])
        /\ b \in Seq(S)
    BY <1>2, <1>3, <2>1
  <2>4. a \o one \in Seq(S) /\ First(a \o one) = IF i > 1 THEN q[1] ELSE n
    <3>1. a \o one \in Seq(S) /\ First(a \o one) = IF Len(a) > 0 THEN a[1] ELSE First(one)
      BY <1>4, <2>2, <2>3
    <3>2. Len(a) > 0 <=> i > 1
      BY <1>1, <2>3
    <3> QED BY <2>2, <2>3, <3>1, <3>2 DEF First
  <2>5. PICK c : c = a \o one
    OBVIOUS
  <2>6. Len(c) > 0
    <3>1. Behind(c, a, one)
      BY <2>2, <2>3, <2>5, ConcatBehind
    <3> QED BY <2>2, <3>1 DEF Behind
  <2>7. First(c \o b) = c[1] /\ First(c) = c[1]
    BY <1>4, <2>3, <2>4, <2>5, <2>6 DEF First
  <2>8. i > 1 <=> i # 1
    BY <1>1
  <2> QED BY <2>1, <2>4, <2>5, <2>7, <2>8
<1>6. ASSUME NEW i \in 1 .. K
      PROVE  First(SubSeq(q, 1, i - 1) \o SubSeq(q, i + 1, K))
               = IF i > 1 THEN q[1] ELSE IF K > 1 THEN q[2] ELSE NULL
  <2>1. PICK a, b : a = SubSeq(q, 1, i - 1) /\ b = SubSeq(q, i + 1, K)
    OBVIOUS
  <2>2. i \in 1 .. K + 1 /\ i + 1 \in 1 .. K + 1 /\ K - (i + 1) + 1 = K - i
    BY <1>1
  <2>3. /\ a \in Seq(S) /\ Len(a) = i - 1 /\ (i > 1 => a[1] = q[1])
        /\ b \in Seq(S) /\ Len(b) = K - i /\ (i + 1 =< K => b[1] = q[i + 1])
    BY <1>2, <1>3, <2>1, <2>2
  <2>4. First(a \o b) = IF Len(a) > 0 THEN a[1] ELSE First(b)
    BY <1>4, <2>3
  <2>5. CASE i > 1
    <3>1. Len(a) > 0
      BY <1>1, <2>3, <2>5
    <3> QED BY <2>1, <2>3, <2>4, <2>5, <3>1
  <2>6. CASE ~ (i > 1)
    <3>1. i = 1 /\ ~ (Len(a) > 0) /\ Len(b) = K - 1 /\ (Len(b) > 0 <=> K > 1)
          /\ (K > 1 => b[1] = q[2])
      BY <1>1, <2>3, <2>6
    <3> QED BY <2>1, <2>4, <2>6, <3>1 DEF First
  <2> QED BY <2>5, <2>6
<1>7. ASSUME NEW i \in 1 .. K PROVE First([q EXCEPT ![i] = n]) = IF i = 1 THEN n ELSE q[1]
  <2>1. PICK r : r = [q EXCEPT ![i] = n]
    OBVIOUS
  <2>2. Len(r) = K /\ r[1] = IF i = 1 THEN n ELSE q[1]
    <3>1. q \in [1 .. K -> S] /\ 1 \in 1 .. K
      BY <1>1 DEF K
    <3>2. r \in [1 .. K -> S] /\ r[1] = IF i = 1 THEN n ELSE q[1]
      BY <2>1, <3>1
    <3> QED BY <1>1, <3>2
  <2>3. K > 0
    BY <1>1
  <2> QED BY <2>1, <2>2, <2>3 DEF First
<1> QED BY <1>5, <1>6, <1>7 DEF K

(* The callers' leftmost node is the first of the sequence. *)
FirstCached == leftmost = First(InOrder(tree))

(* The tree has its shape in every state, and its sequence is what hangs   *)
(* in it, each node once.                                                  *)
LEMMA TreeSequence ==
  ASSUME RbInv
  PROVE  /\ \E pos : Shape(tree, pos)
         /\ IsFiniteSet(InTree(tree)) /\ linked = InTree(tree) /\ linked \subseteq Nodes
         /\ InOrder(tree) \in Seq(Nodes) /\ Len(InOrder(tree)) \in Nat
         /\ \A i \in 1 .. Len(InOrder(tree)) : InOrder(tree)[i] \in linked
         /\ \A x \in linked : \E i \in 1 .. Len(InOrder(tree)) : InOrder(tree)[i] = x
         /\ \A i, j \in 1 .. Len(InOrder(tree)) : InOrder(tree)[i] = InOrder(tree)[j] => i = j
<1> DEFINE q == InOrder(tree)
<1>1. PICK pos : Shape(tree, pos)
  BY DEF RbInv, Whole, Gapped, Firm
<1>2. IsFiniteSet(InTree(tree)) /\ linked = InTree(tree) /\ linked \subseteq Nodes
  BY DEF RbInv, InTree
<1>3. Sorted(q, pos, linked) /\ \A x \in linked : pos[x] \in Int
  BY <1>1, <1>2, InOrderSorted DEF Shape
<1> HIDE DEF q
<1>4. /\ q \in Seq(linked) /\ Len(q) \in Nat /\ \A i \in 1 .. Len(q) : q[i] \in linked
      /\ \A x \in linked : \E i \in 1 .. Len(q) : q[i] = x
  BY <1>3, LenProperties, ElementOfSeq DEF Sorted
<1>5. \A i, j \in 1 .. Len(q) : q[i] = q[j] => i = j
  BY <1>3, SortedApart
<1>6. q \in Seq(Nodes)
  BY <1>2, <1>4
<1> QED BY <1>1, <1>2, <1>4, <1>5, <1>6 DEF q

(* A new node is the first if its key is the least of all. *)
LEMMA InsertKeepsFirst ==
  ASSUME RbInv, FirstCached, NEW n \in Nodes, Insert(n)
  PROVE  FirstCached'
<1> DEFINE q == InOrder(tree)
           r == InOrder(tree)'
<1>1. /\ q \in Seq(Nodes) /\ Len(q) \in Nat /\ linked \subseteq Nodes
      /\ \A i \in 1 .. Len(q) : q[i] \in linked
      /\ \A x \in linked : \E i \in 1 .. Len(q) : q[i] = x
  BY TreeSequence
<1>2. PICK i \in 1 .. Len(q) + 1 :
        /\ \A j \in 1 .. i - 1 : Key[q[j]] =< Key[n]
        /\ \A j \in i .. Len(q) : Key[q[j]] > Key[n]
        /\ r = SubSeq(q, 1, i - 1) \o <<n>> \o SubSeq(q, i, Len(q))
  BY InsertKeeps DEF Store!Insert, Store!InsertAt
<1>3. leftmost' = (IF \A m \in linked : Key[n] < Key[m] THEN n ELSE leftmost) /\ leftmost = First(q)
  BY DEF Insert, IsLeftmost, FirstCached
<1>4. \A x \in Nodes : Key[x] \in Int
  BY KeyAssumption
<1> HIDE DEF q, r
<1>5. First(r) = IF i = 1 THEN n ELSE q[1]
  BY <1>1, <1>2, FirstAfter
<1>6. CASE i = 1
  <2>1. ASSUME NEW m \in linked PROVE Key[n] < Key[m]
    <3>1. PICK j \in 1 .. Len(q) : q[j] = m
      BY <1>1
    <3>2. Key[m] > Key[n]
      BY <1>2, <1>6, <3>1
    <3>3. Key[m] \in Int /\ Key[n] \in Int
      BY <1>1, <1>4
    <3> QED BY <3>2, <3>3
  <2> QED BY <1>3, <1>5, <1>6, <2>1 DEF FirstCached, r
<1>7. CASE i # 1
  <2>1. 1 \in 1 .. i - 1 /\ 1 \in 1 .. Len(q) /\ Len(q) > 0
    BY <1>1, <1>7
  <2>2. q[1] \in linked /\ Key[q[1]] =< Key[n]
    BY <1>1, <1>2, <2>1
  <2>3. ~ (Key[n] < Key[q[1]])
    <3>1. Key[q[1]] \in Int /\ Key[n] \in Int
      BY <1>1, <1>4, <2>2
    <3> QED BY <2>2, <3>1
  <2>4. leftmost' = q[1]
    BY <1>3, <2>1, <2>2, <2>3 DEF First
  <2> QED BY <1>5, <1>7, <2>4 DEF FirstCached, r
<1> QED BY <1>6, <1>7

(* Erasing the first node makes rb_next of it the first. *)
LEMMA EraseKeepsFirst ==
  ASSUME RbInv, FirstCached, NEW n \in Nodes, Erase(n)
  PROVE  FirstCached'
<1> DEFINE q == InOrder(tree)
           r == InOrder(tree)'
<1>1. PICK pos : Shape(tree, pos)
  BY TreeSequence
<1>2. /\ q \in Seq(Nodes) /\ Len(q) \in Nat
      /\ \A i, j \in 1 .. Len(q) : q[i] = q[j] => i = j
      /\ IsFiniteSet(InTree(tree))
  BY TreeSequence
<1>3. \A i \in 1 .. Len(q) : rb_next(tree, q[i]) = IF i < Len(q) THEN q[i + 1] ELSE NULL
  BY <1>1, <1>2, InOrderWalks
<1>4. PICK i \in 1 .. Len(q) : /\ q[i] = n
                               /\ r = SubSeq(q, 1, i - 1) \o SubSeq(q, i + 1, Len(q))
  <2>1. PICK i \in DOMAIN q :
          q[i] = n /\ r = SubSeq(q, 1, i - 1) \o SubSeq(q, i + 1, Len(q))
    BY EraseKeeps DEF Store!Erase, Store!RemoveAt
  <2>2. DOMAIN q = 1 .. Len(q)
    BY <1>2
  <2> QED BY <2>1, <2>2
<1>5. leftmost' = (IF leftmost = n THEN rb_next(tree, n) ELSE leftmost) /\ leftmost = First(q)
  BY DEF Erase, FirstCached
<1> HIDE DEF q, r
<1>6. First(r) = IF i > 1 THEN q[1] ELSE IF Len(q) > 1 THEN q[2] ELSE NULL
  BY <1>2, <1>4, FirstAfter
<1>7. 1 \in 1 .. Len(q) /\ leftmost = q[1]
  BY <1>2, <1>5 DEF First
<1>8. CASE i > 1
  <2>1. q[1] # n
    BY <1>2, <1>4, <1>7, <1>8
  <2> QED BY <1>5, <1>6, <1>7, <1>8, <2>1 DEF FirstCached, r
<1>9. CASE ~ (i > 1)
  <2>1. i = 1 /\ leftmost = n
    BY <1>2, <1>4, <1>7, <1>9
  <2>2. leftmost' = rb_next(tree, q[1])
    BY <1>4, <1>5, <2>1
  <2>3. rb_next(tree, q[1]) = IF 1 < Len(q) THEN q[2] ELSE NULL
    <3>1. 1 + 1 = 2
      OBVIOUS
    <3> QED BY <1>3, <1>7, <3>1
  <2>4. 1 < Len(q) <=> Len(q) > 1
    BY <1>2
  <2> QED BY <1>6, <1>9, <2>2, <2>3, <2>4 DEF FirstCached, r
<1> QED BY <1>8, <1>9

(* The node that replaces the first is the first. *)
LEMMA ReplaceKeepsFirst ==
  ASSUME RbInv, FirstCached, NEW v \in Nodes, NEW w \in Nodes, Replace(v, w)
  PROVE  FirstCached'
<1> DEFINE q == InOrder(tree)
           r == InOrder(tree)'
<1>1. /\ q \in Seq(Nodes) /\ Len(q) \in Nat
      /\ \A i, j \in 1 .. Len(q) : q[i] = q[j] => i = j
  BY TreeSequence
<1>2. PICK i \in 1 .. Len(q) : q[i] = v /\ r = [q EXCEPT ![i] = w]
  <2>1. PICK i \in DOMAIN q : q[i] = v /\ r = [q EXCEPT ![i] = w]
    BY ReplaceKeeps DEF Store!Replace, Store!ReplaceAt
  <2>2. DOMAIN q = 1 .. Len(q)
    BY <1>1
  <2> QED BY <2>1, <2>2
<1>3. leftmost' = (IF leftmost = v THEN w ELSE leftmost) /\ leftmost = First(q)
  BY DEF Replace, FirstCached
<1> HIDE DEF q, r
<1>4. First(r) = IF i = 1 THEN w ELSE q[1]
  BY <1>1, <1>2, FirstAfter
<1>5. 1 \in 1 .. Len(q) /\ leftmost = q[1]
  BY <1>1, <1>3 DEF First
<1>6. q[1] = v <=> i = 1
  BY <1>1, <1>2, <1>5
<1> QED BY <1>3, <1>4, <1>5, <1>6 DEF FirstCached, r

(* The cached node is the first in every state, inside of a call, too. *)
LEMMA CachedInv == Spec => [](RbInv /\ FirstCached)
<1>1. Init => FirstCached
  <2> SUFFICES ASSUME Init PROVE FirstCached
    OBVIOUS
  <2>1. RbInv /\ leftmost = NULL /\ linked = {}
    BY InitRbInv DEF Init
  <2>2. /\ Len(InOrder(tree)) \in Nat
        /\ \A i \in 1 .. Len(InOrder(tree)) : InOrder(tree)[i] \in linked
    BY <2>1, TreeSequence
  <2>3. ~ (Len(InOrder(tree)) > 0)
    BY <2>1, <2>2
  <2> QED BY <2>1, <2>3 DEF FirstCached, First
<1>2. RbInv /\ FirstCached /\ [Next]_vars => FirstCached'
  <2> SUFFICES ASSUME RbInv, FirstCached, [Next]_vars PROVE FirstCached'
    OBVIOUS
  <2>1. ASSUME NEW n \in Nodes, Insert(n) PROVE FirstCached'
    BY <2>1, InsertKeepsFirst
  <2>2. ASSUME NEW n \in Nodes, Erase(n) PROVE FirstCached'
    BY <2>2, EraseKeepsFirst
  <2>3. ASSUME NEW n \in Nodes, NEW m \in Nodes, Replace(n, m) PROVE FirstCached'
    BY <2>3, ReplaceKeepsFirst
  <2>4. CASE InsertStep
    <3>1. leftmost' = leftmost /\ InOrder(tree)' = InOrder(tree)
      BY <2>4, InsertStepKeeps DEF InsertStep
    <3> QED BY <3>1 DEF FirstCached
  <2>5. CASE EraseStep
    <3>1. leftmost' = leftmost /\ InOrder(tree)' = InOrder(tree)
      BY <2>5, EraseStepKeeps DEF EraseStep
    <3> QED BY <3>1 DEF FirstCached
  <2>6. CASE UNCHANGED vars
    BY <2>6 DEF vars, FirstCached
  <2> QED BY <2>1, <2>2, <2>3, <2>4, <2>5, <2>6 DEF Next
<1>3. RbInv /\ [Next]_vars => RbInv'
  BY NextKeepsRbInv
<1> QED BY <1>1, <1>2, <1>3, InitRbInv, PTL DEF Spec

(* A sequence that holds each member of a set once is as long as the set   *)
(* is large.                                                               *)
LEMMA OnceEach ==
  ASSUME NEW S, NEW q \in Seq(S), \A x \in S : \E i \in 1 .. Len(q) : q[i] = x,
         \A i, j \in 1 .. Len(q) : q[i] = q[j] => i = j
  PROVE  Len(q) = Cardinality(S)
<1> DEFINE f == [i \in 1 .. Len(q) |-> q[i]]
<1>1. Len(q) \in Nat /\ \A i \in 1 .. Len(q) : q[i] \in S
  BY LenProperties, ElementOfSeq
<1>2. f \in [1 .. Len(q) -> S] /\ \A i \in 1 .. Len(q) : f[i] = q[i]
  BY <1>1
<1> HIDE DEF f
<1>3. f \in Bijection(1 .. Len(q), S)
  <2>1. DOMAIN f = 1 .. Len(q)
    BY <1>2
  <2> QED BY <1>2, <2>1 DEF Bijection, Injection, Surjection, IsInjective
<1>4. IsFiniteSet(1 .. Len(q)) /\ Cardinality(1 .. Len(q)) = Len(q)
  <2>1. 1 \in Int /\ Len(q) \in Int
    BY <1>1
  <2>2. /\ IsFiniteSet(1 .. Len(q))
        /\ Cardinality(1 .. Len(q)) = IF 1 > Len(q) THEN 0 ELSE Len(q) - 1 + 1
    BY <2>1, FS_Interval
  <2>3. (IF 1 > Len(q) THEN 0 ELSE Len(q) - 1 + 1) = Len(q)
    BY <1>1
  <2> QED BY <2>2, <2>3
<1> QED BY <1>3, <1>4, FS_Bijection DEF ExistsBijection

(* rb_next from rb_first, rb_prev from rb_last and the postorder walk each *)
(* visit every linked node once, the first two as the tree is read, the    *)
(* third every node after its children; rb_first_cached is rb_first.       *)
THEOREM WalksComplete == Spec => []WalksVisitAll
<1>1. RbInv /\ FirstCached => WalksVisitAll
  <2> SUFFICES ASSUME RbInv, FirstCached PROVE WalksVisitAll
    OBVIOUS
  <2>1. PICK pos : Shape(tree, pos)
    BY TreeSequence
  <2>2. IsFiniteSet(InTree(tree)) /\ linked = InTree(tree) /\ linked \subseteq Nodes
    BY TreeSequence
  <2>3. /\ Walk([n \in Nodes |-> rb_next(tree, n)], rb_first(tree)) = InOrder(tree)
        /\ Walk([n \in Nodes |-> rb_prev(tree, n)], rb_last(tree)) = Reverse(InOrder(tree))
        /\ leftmost = rb_first(tree)
    BY <2>1, <2>2, InOrderWalks DEF FirstCached, First
  <2> DEFINE post == PostWalk(tree)
  <2>5. /\ post \in Seq(Nodes) /\ \A i \in 1 .. Len(post) : post[i] \in linked
        /\ \A x \in linked : \E i \in 1 .. Len(post) : post[i] = x
        /\ \A i, j \in 1 .. Len(post) : post[i] = post[j] => i = j
        /\ \A i \in 1 .. Len(post) : tree.up[post[i]] # NULL =>
             \E j \in 1 .. Len(post) : i < j /\ post[j] = tree.up[post[i]]
    <3>1. ParentsLater(tree, post)
      BY <2>1, <2>2, PostWalks
    <3> HIDE DEF post
    <3> QED BY <2>2, <3>1 DEF ParentsLater
  <2> HIDE DEF post
  <2>6. post \in Seq(linked) /\ DOMAIN post = 1 .. Len(post) /\ Len(post) \in Nat
    BY <2>5
  <2>7. Range(post) = linked
    BY <2>5, <2>6 DEF Range
  <2>8. Len(post) = Cardinality(linked)
    BY <2>5, <2>6, OnceEach
  <2>9. ASSUME NEW n \in linked, tree.up[n] # NULL
        PROVE  (CHOOSE i \in DOMAIN post : post[i] = n)
                 < (CHOOSE i \in DOMAIN post : post[i] = tree.up[n])
    <3>1. ASSUME NEW i \in 1 .. Len(post)
          PROVE  (CHOOSE k \in DOMAIN post : post[k] = post[i]) = i
      BY <2>5, <2>6
    <3>2. PICK i \in 1 .. Len(post) : post[i] = n
      BY <2>5
    <3>3. PICK j \in 1 .. Len(post) : i < j /\ post[j] = tree.up[n]
      BY <2>5, <2>9, <3>2
    <3>4. /\ (CHOOSE k \in DOMAIN post : post[k] = n) = i
          /\ (CHOOSE k \in DOMAIN post : post[k] = tree.up[n]) = j
      BY <3>1, <3>2, <3>3
    <3> QED BY <3>3, <3>4
  <2> QED BY <2>3, <2>7, <2>8, <2>9 DEF WalksVisitAll, PostWalk, post
<1> QED BY <1>1, CachedInv, PTL
=============================================================================
