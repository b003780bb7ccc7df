--------------------------- MODULE RbShapeProofs ---------------------------
(***************************************************************************)
(* What the operators of RbOps, the code of src/ELF/rbtree.c, do to a tree *)
(* of any number of nodes: the shape that a rotation keeps, the ways down, *)
(* the nodes from left to right, the heights in black nodes, what          *)
(* __rb_insert repairs, what linking a node adds, and where rb_next,       *)
(* rb_prev and rb_next_postorder lead.  RbTreeProofs goes on with erasing  *)
(* and replacing and holds the invariant.                                  *)
(*                                                                         *)
(* Parent and child pointers alone do not say that a tree is no ring.      *)
(* Shape therefore gives every node a position and an interval of          *)
(* positions that holds its subtree: a rotation keeps them, a new leaf     *)
(* makes room for itself, a replacement takes over that of its victim.     *)
(* Read by their positions the nodes of a finite tree are InOrder, and     *)
(* there is only one such sequence: what keeps the positions keeps the     *)
(* order.  The number of black nodes on the paths is a function of the     *)
(* node that adds up at every node (Even), with a term for the gap of an   *)
(* erasure.                                                                *)
(***************************************************************************)
EXTENDS RbOps, SequencesExt, FiniteSetTheorems, SequenceTheorems, WellFoundedInduction, TLAPS

(* A tree as the callers' pointers have it: rb_root and the rb_node fields *)
(* (rbtree.h).                                                             *)
Trees ==
  [root : Nodes \cup {NULL}, up : [Nodes -> Nodes \cup {NULL}],
   red : [Nodes -> BOOLEAN], kid : [Nodes -> [Sides -> Nodes \cup {NULL}]]]

(* Every node has a position, and an interval of positions that holds it   *)
(* and the intervals of its children on their sides of it.                 *)
Nested(t, pos, lo, hi) ==
  \A n \in Nodes :
    /\ lo[n] =< pos[n] /\ pos[n] =< hi[n]
    /\ LET l == t.kid[n]["left"] IN l # NULL => lo[n] =< lo[l] /\ hi[l] < pos[n]
    /\ LET r == t.kid[n]["right"] IN r # NULL => pos[n] < lo[r] /\ hi[r] =< hi[n]

(* The nodes that hang in the tree. *)
InTree(t) == {n \in Nodes : n = t.root \/ t.up[n] # NULL}

(* The nodes have positions from left to right.  No key is meant by them:  *)
(* a rotation leaves them alone, which is what makes it safe.              *)
Ordered(t, pos) == \E lo, hi \in [Nodes -> Int] : Nested(t, pos, lo, hi)

(* What every step keeps of the links: they agree, the nodes that are out  *)
(* are blank, and no path comes back to where it was, for the positions    *)
(* are in order.                                                           *)
Shape(t, pos) ==
  /\ t \in Trees /\ pos \in [Nodes -> Int]
  /\ LinksAgree(t)
  /\ \A n \in Nodes \ InTree(t) : ~ t.red[n] /\ t.kid[n] = NoKids
  /\ Ordered(t, pos)

(* u is t with y, the child of x on side d, turned above x. *)
Turned(t, u, x, y, d) ==
  /\ u.root = IF t.up[x] = NULL THEN y ELSE t.root
  /\ u.up = [n \in Nodes |->
       IF n = x THEN y ELSE IF n = y THEN t.up[x]
       ELSE IF n = t.kid[y][Other(d)] THEN x ELSE t.up[n]]
  /\ u.kid = [n \in Nodes |-> [s \in Sides |->
       IF n = x /\ s = d THEN t.kid[y][Other(d)]
       ELSE IF n = y /\ s = Other(d) THEN x
       ELSE IF n = t.up[x] /\ t.kid[n][s] = x THEN y ELSE t.kid[n][s]]]

-----------------------------------------------------------------------------
(* left and right are each other's other side. *)
LEMMA SidesAre == "left" # "right" /\ \A d \in Sides : Other(d) \in Sides /\ Other(d) # d
                    /\ Other(Other(d)) = d
BY DEF Sides, Other

(* What the links of a tree say of a node and its child. *)
LEMMA KidsApart ==
  ASSUME NEW t, NEW pos, Shape(t, pos)
  PROVE  /\ \A n \in Nodes, s \in Sides : t.kid[n][s] \in Nodes \cup {NULL}
         /\ \A n \in Nodes, s \in Sides : t.kid[n][s] # NULL =>
              t.kid[n][s] \in InTree(t) /\ t.up[t.kid[n][s]] = n /\ t.kid[n][s] # n
                /\ t.kid[n][s] # t.root /\ n \in InTree(t)
         /\ \A n \in Nodes, s \in Sides : t.kid[n][s] # NULL => t.kid[n][s] # t.kid[n][Other(s)]
         /\ \A n \in Nodes : t.up[n] # NULL => t.up[n] \in InTree(t)
              /\ \E s \in Sides : t.kid[t.up[n]][s] = n
         /\ NULL \notin Nodes
<1>1. PICK lo, hi \in [Nodes -> Int] : Nested(t, pos, lo, hi)
  BY DEF Shape, Ordered
<1>2. t \in Trees /\ pos \in [Nodes -> Int] /\ LinksAgree(t)
  BY DEF Shape
<1>3. /\ t.root \in Nodes \cup {NULL} /\ t.up \in [Nodes -> Nodes \cup {NULL}]
      /\ t.kid \in [Nodes -> [Sides -> Nodes \cup {NULL}]]
  BY <1>2 DEF Trees
<1>4. NULL \notin Nodes
  BY NullAssumption
<1>5. \A n \in Nodes, s \in Sides : t.kid[n][s] \in Nodes \cup {NULL}
  BY <1>3
<1>6. ASSUME NEW n \in Nodes, NEW s \in Sides, t.kid[n][s] # NULL
      PROVE  /\ t.kid[n][s] \in InTree(t) /\ t.up[t.kid[n][s]] = n /\ t.kid[n][s] # n
             /\ t.kid[n][s] # t.root /\ n \in InTree(t)
             /\ t.kid[n][s] # t.kid[n][Other(s)]
  <2>1. t.kid[n][s] \in Nodes /\ t.up[t.kid[n][s]] = n /\ s \in {"left", "right"}
    BY <1>2, <1>5, <1>6 DEF LinksAgree, Sides
  <2>2. t.kid[n][s] # t.root
    BY <1>2, <1>4, <2>1 DEF LinksAgree
  <2>3. /\ lo[n] \in Int /\ hi[n] \in Int /\ pos[n] \in Int
        /\ lo[t.kid[n][s]] \in Int /\ hi[t.kid[n][s]] \in Int /\ pos[t.kid[n][s]] \in Int
    BY <1>2, <2>1
  <2>4. t.kid[n][s] # n
    BY <1>1, <1>6, <2>1, <2>3 DEF Nested
  <2>5. t.kid[n][s] # t.kid[n][Other(s)]
    BY <1>1, <1>6, <2>1, <2>3, SidesAre DEF Nested, Other
  <2>6. n \in InTree(t)
    BY <1>6, <2>1, SidesAre DEF Shape, NoKids
  <2> QED BY <1>4, <2>1, <2>2, <2>4, <2>5, <2>6 DEF InTree
<1>7. ASSUME NEW n \in Nodes, t.up[n] # NULL
      PROVE  t.up[n] \in InTree(t) /\ \E s \in Sides : t.kid[t.up[n]][s] = n
  <2>1. t.up[n] \in Nodes /\ n \in {t.kid[t.up[n]][s] : s \in Sides}
    BY <1>2, <1>3, <1>7 DEF LinksAgree
  <2>2. PICK s \in Sides : t.kid[t.up[n]][s] = n
    BY <2>1
  <2> QED BY <1>4, <1>6, <2>1, <2>2
<1> QED BY <1>4, <1>5, <1>6, <1>7

(* Going down from a node the intervals shrink, so that no path comes back *)
(* to where it was.                                                        *)
LEMMA SpansShrink ==
  ASSUME NEW t, NEW pos, Shape(t, pos)
  PROVE  \E span \in [Nodes -> Nat] :
           \A n \in Nodes, s \in Sides : t.kid[n][s] # NULL =>
             t.kid[n][s] \in Nodes /\ span[t.kid[n][s]] < span[n]
<1>1. PICK lo, hi \in [Nodes -> Int] : Nested(t, pos, lo, hi)
  BY DEF Shape, Ordered
<1>2. pos \in [Nodes -> Int]
  BY DEF Shape
<1> DEFINE span == [n \in Nodes |-> hi[n] - lo[n]]
<1>3. span \in [Nodes -> Nat]
  BY <1>1, <1>2 DEF Nested
<1>4. ASSUME NEW n \in Nodes, NEW s \in Sides, t.kid[n][s] # NULL
      PROVE  t.kid[n][s] \in Nodes /\ span[t.kid[n][s]] < span[n]
  <2>1. t.kid[n][s] \in Nodes
    BY <1>4, KidsApart
  <2> DEFINE k == t.kid[n][s]
  <2>2. /\ lo[n] \in Int /\ hi[n] \in Int /\ pos[n] \in Int
        /\ lo[k] \in Int /\ hi[k] \in Int /\ pos[k] \in Int
    BY <1>1, <1>2, <2>1
  <2>3. lo[k] =< pos[k] /\ pos[k] =< hi[k] /\ lo[n] =< pos[n] /\ pos[n] =< hi[n]
    BY <1>1, <2>1 DEF Nested
  <2>4. \/ lo[n] =< lo[k] /\ hi[k] < pos[n]
        \/ pos[n] < lo[k] /\ hi[k] =< hi[n]
    BY <1>1, <1>4 DEF Nested, Sides
  <2> HIDE DEF k
  <2>5. hi[k] - lo[k] < hi[n] - lo[n]
    BY <2>2, <2>3, <2>4
  <2> QED BY <2>1, <2>5 DEF k
<1> QED BY <1>3, <1>4

(* Two and three steps down do not lead back either. *)
LEMMA NoWayBack ==
  ASSUME NEW t, NEW pos, Shape(t, pos), NEW n \in Nodes,
         NEW a \in Sides, t.kid[n][a] # NULL,
         NEW b \in Sides, t.kid[t.kid[n][a]][b] # NULL
  PROVE  /\ t.kid[t.kid[n][a]][b] # n
         /\ \A c \in Sides : t.kid[t.kid[t.kid[n][a]][b]][c] # n
<1>1. PICK span \in [Nodes -> Nat] :
        \A m \in Nodes, s \in Sides : t.kid[m][s] # NULL =>
          t.kid[m][s] \in Nodes /\ span[t.kid[m][s]] < span[m]
  BY SpansShrink
<1>2. PICK k \in Nodes : k = t.kid[n][a] /\ span[k] < span[n]
  BY <1>1
<1>3. PICK l \in Nodes : l = t.kid[k][b] /\ span[l] < span[k]
  BY <1>1, <1>2
<1>4. span[l] \in Nat /\ span[k] \in Nat /\ span[n] \in Nat
  BY <1>1
<1>5. l # n
  BY <1>2, <1>3, <1>4
<1>6. ASSUME NEW c \in Sides, t.kid[l][c] = n PROVE FALSE
  <2>1. n # NULL
    BY NullAssumption
  <2>2. span[n] < span[l]
    BY <1>1, <1>6, <2>1
  <2> QED BY <1>2, <1>3, <1>4, <2>2
<1> QED BY <1>2, <1>3, <1>5, <1>6

(* A node x, its child y, that one's inner child z and the parent p of x.  *)
LEMMA Family ==
  ASSUME NEW t, NEW pos, Shape(t, pos), NEW x \in Nodes, NEW d \in Sides, t.kid[x][d] # NULL
  PROVE  \E y \in Nodes, o \in Sides, z \in Nodes \cup {NULL}, p \in Nodes \cup {NULL} :
           /\ y = t.kid[x][d] /\ y # x /\ t.up[y] = x
           /\ o = Other(d) /\ o # d
           /\ z = t.kid[y][o] /\ z # x /\ z # y
           /\ p = t.up[x] /\ p # x /\ p # y
           /\ z # NULL => t.up[z] = y /\ z \in InTree(t)
           /\ p # NULL => p # z /\ p \in InTree(t) /\ \E s \in Sides : t.kid[p][s] = x
           /\ NULL \notin Nodes /\ x \in InTree(t) /\ y \in InTree(t)
<1> DEFINE y == t.kid[x][d]
           o == Other(d)
           z == t.kid[y][o]
           p == t.up[x]
<1>1. /\ y \in Nodes /\ y # x /\ t.up[y] = x /\ o \in Sides /\ o # d /\ d \in {"left", "right"}
      /\ z \in Nodes \cup {NULL} /\ p \in Nodes \cup {NULL} /\ NULL \notin Nodes
      /\ x \in InTree(t) /\ y \in InTree(t)
  BY KidsApart, SidesAre DEF Sides, Shape, Trees
<1>2. z # NULL => z # x /\ z # y /\ t.up[z] = y /\ z \in InTree(t)
  <2>1. z # NULL => z # x
    BY <1>1, NoWayBack
  <2>2. z # NULL => z # y /\ t.up[z] = y /\ z \in InTree(t)
    <3> HIDE DEF y, o
    <3> QED BY <1>1, KidsApart
  <2> QED BY <2>1, <2>2
<1>3. p # NULL => p # x /\ p # y /\ p # z /\ p \in InTree(t)
  <2> SUFFICES ASSUME p # NULL PROVE p # x /\ p # y /\ p # z /\ p \in InTree(t)
    OBVIOUS
  <2>1. PICK s \in Sides : t.kid[p][s] = x
    BY KidsApart
  <2>2. p \in InTree(t) /\ p # x
    BY <1>1, <2>1, KidsApart
  <2>3. p # y
    BY <1>1, <2>1, NoWayBack
  <2>4. z # NULL => t.kid[z][s] # x
    BY <1>1, NoWayBack
  <2>5. p # z
    <3> HIDE DEF z
    <3> QED BY <2>1, <2>4
  <2> QED BY <2>2, <2>3, <2>5
<1>4. /\ y # NULL /\ z # x /\ p # x /\ p # y /\ z # y
  BY <1>1, <1>2, <1>3
<1>5. p # NULL => \E s \in Sides : t.kid[p][s] = x
  BY KidsApart
<1>6. y = t.kid[x][d] /\ o = Other(d) /\ z = t.kid[y][o] /\ p = t.up[x]
  OBVIOUS
<1> HIDE DEF y, o, z, p
<1> QED BY <1>1, <1>2, <1>3, <1>4, <1>5, <1>6

(* A rotation leaves a tree: every node keeps its position.                *)
LEMMA TurnedShape ==
  ASSUME NEW t, NEW pos, Shape(t, pos), NEW u \in Trees,
         NEW x \in Nodes, NEW d \in Sides, t.kid[x][d] # NULL,
         Turned(t, u, x, t.kid[x][d], d),
         \A n \in Nodes \ InTree(t) : ~ u.red[n]
  PROVE  Shape(u, pos) /\ InTree(u) = InTree(t)
<1> DEFINE y == t.kid[x][d]
           o == Other(d)
           z == t.kid[y][o]
           p == t.up[x]
<1>1. /\ y \in Nodes /\ y # x /\ t.up[y] = x /\ o \in Sides /\ o # d /\ d \in {"left", "right"}
      /\ z \in Nodes \cup {NULL} /\ p \in Nodes \cup {NULL} /\ NULL \notin Nodes
      /\ x \in InTree(t) /\ y \in InTree(t)
      /\ z # NULL => z # x /\ z # y /\ t.up[z] = y /\ z \in InTree(t)
      /\ p # NULL => p # x /\ p # y /\ p # z /\ p \in InTree(t)
  BY Family DEF Sides
<1>2. z # NULL => z # x /\ z # y /\ t.up[z] = y /\ z \in InTree(t)
  BY <1>1
<1>3. p # NULL => p # x /\ p # y /\ p # z /\ p \in InTree(t)
  BY <1>1
<1>4. \A n \in Nodes : u.up[n] = IF n = x THEN y ELSE IF n = y THEN p
                                 ELSE IF n = z THEN x ELSE t.up[n]
  BY DEF Turned
<1>5. \A n \in Nodes, s \in Sides :
        u.kid[n][s] = IF n = x /\ s = d THEN z ELSE IF n = y /\ s = o THEN x
                      ELSE IF n = p /\ t.kid[n][s] = x THEN y ELSE t.kid[n][s]
  BY DEF Turned
<1>6. u.root = IF p = NULL THEN y ELSE t.root
  BY DEF Turned
<1>7. p = NULL => t.root = x
  BY <1>1 DEF InTree
<1> HIDE DEF y, o, z, p
<1>8. InTree(u) = InTree(t)
  <2> SUFFICES ASSUME NEW n \in Nodes
               PROVE (n = u.root \/ u.up[n] # NULL) <=> (n = t.root \/ t.up[n] # NULL)
    BY DEF InTree
  <2>1. CASE n \in {x, y, z}
    BY <1>1, <1>2, <1>3, <1>4, <1>6, <1>7, <2>1 DEF InTree, p
  <2>2. CASE n \notin {x, y, z}
    BY <1>1, <1>4, <1>6, <1>7, <2>2
  <2> QED BY <2>1, <2>2
<1>9. LinksAgree(u)
  <2>1. u.root # NULL => u.up[u.root] = NULL
    <3>1. CASE p = NULL
      BY <1>1, <1>4, <1>6, <3>1
    <3>2. CASE p # NULL
      <4>1. t.root # NULL => t.up[t.root] = NULL /\ t.root \in Nodes
        BY DEF Shape, LinksAgree, Trees
      <4>2. t.root # NULL => t.root # x /\ t.root # y /\ t.root # z
        BY <1>1, <1>2, <3>2, <4>1 DEF p
      <4> QED BY <1>4, <1>6, <3>2, <4>1, <4>2
    <3> QED BY <3>1, <3>2
  <2>2. ASSUME NEW n \in Nodes, NEW s \in Sides, u.kid[n][s] # NULL
        PROVE  u.up[u.kid[n][s]] = n
    <3>1. t.kid[n][s] # NULL => t.up[t.kid[n][s]] = n /\ t.kid[n][s] \in Nodes
      BY KidsApart
    <3>2. CASE n = x /\ s = d
      BY <1>1, <1>2, <1>4, <1>5, <2>2, <3>2
    <3>3. CASE n = y /\ s = o
      BY <1>1, <1>4, <1>5, <3>3
    <3>4. CASE ~ (n = x /\ s = d) /\ ~ (n = y /\ s = o) /\ n = p /\ t.kid[n][s] = x
      BY <1>1, <1>3, <1>4, <1>5, <3>4
    <3>5. CASE ~ (n = x /\ s = d) /\ ~ (n = y /\ s = o) /\ ~ (n = p /\ t.kid[n][s] = x)
      <4>1. u.kid[n][s] = t.kid[n][s]
        BY <1>5, <3>5
      <4>2. t.kid[n][s] # y
        <5>1. CASE n # x
          BY <1>1, <2>2, <3>1, <4>1, <5>1
        <5>2. CASE n = x
          <6>1. s = o
            BY <1>1, <3>5, <5>2 DEF Sides, o, Other
          <6> QED BY <1>1, <2>2, <4>1, <5>2, <6>1, KidsApart DEF y, o
        <5> QED BY <5>1, <5>2
      <4>3. z # NULL => t.kid[n][s] # z
        <5>1. CASE n # y
          BY <1>1, <1>2, <2>2, <3>1, <4>1, <5>1
        <5>2. CASE n = y
          <6>1. s = d
            BY <1>1, <3>5, <5>2 DEF Sides, o, Other
          <6> QED BY <1>1, <2>2, <4>1, <5>2, <6>1, KidsApart, SidesAre DEF z, o
        <5> QED BY <5>1, <5>2
      <4>4. t.kid[n][s] # x
        BY <2>2, <3>1, <3>5, <4>1 DEF p
      <4> QED BY <1>4, <2>2, <3>1, <4>1, <4>2, <4>3, <4>4
    <3> QED BY <3>2, <3>3, <3>4, <3>5
  <2>3. ASSUME NEW n \in Nodes, u.up[n] # NULL
        PROVE  \E s \in Sides : u.kid[u.up[n]][s] = n
    <3>1. t.up[n] # NULL => t.up[n] \in Nodes /\ \E s \in Sides : t.kid[t.up[n]][s] = n
      BY KidsApart DEF InTree
    <3>2. CASE n = x
      BY <1>1, <1>4, <1>5, <3>2
    <3>3. CASE n = y
      <4>1. u.up[n] = p /\ p # NULL /\ p \in Nodes
        BY <1>1, <1>4, <2>3, <3>3
      <4>2. PICK s \in Sides : t.kid[p][s] = x
        BY <4>1, KidsApart DEF p
      <4> QED BY <1>3, <1>5, <3>3, <4>1, <4>2
    <3>4. CASE n = z /\ n # x /\ n # y
      BY <1>1, <1>4, <1>5, <3>4
    <3>5. CASE n \notin {x, y, z}
      <4>1. u.up[n] = t.up[n] /\ t.up[n] \in Nodes
        BY <1>4, <2>3, <3>1, <3>5
      <4>2. PICK s \in Sides : t.kid[t.up[n]][s] = n
        BY <2>3, <3>1, <4>1
      <4>3. ~ (t.up[n] = x /\ s = d) /\ ~ (t.up[n] = y /\ s = o)
        BY <3>5, <4>2 DEF y, z
      <4> QED BY <1>5, <3>5, <4>1, <4>2, <4>3
    <3> QED BY <3>2, <3>3, <3>4, <3>5
  <2>4. ASSUME NEW n \in Nodes, u.up[n] # NULL
        PROVE  n \in {u.kid[u.up[n]][s] : s \in Sides}
    BY <2>3, <2>4
  <2> QED BY <2>1, <2>2, <2>4 DEF LinksAgree
<1>10. ASSUME NEW n \in Nodes \ InTree(u) PROVE ~ u.red[n] /\ u.kid[n] = NoKids
  <2>1. t.kid[n] = NoKids /\ n \notin {x, y, p}
    BY <1>1, <1>3, <1>8 DEF Shape
  <2>2. \A s \in Sides : u.kid[n][s] = NULL
    BY <1>5, <2>1 DEF NoKids
  <2> QED BY <1>8, <2>2 DEF Trees, NoKids
<1>11. Ordered(u, pos)
  <2>1. PICK lo, hi \in [Nodes -> Int] : Nested(t, pos, lo, hi)
    BY DEF Shape, Ordered
  <2>2. pos \in [Nodes -> Int]
    BY DEF Shape
  <2> DEFINE lo2 == [n \in Nodes |-> IF n = y THEN lo[x]
                                     ELSE IF n = x /\ d = "left" THEN pos[y] + 1 ELSE lo[n]]
             hi2 == [n \in Nodes |-> IF n = y THEN hi[x]
                                     ELSE IF n = x /\ d = "right" THEN pos[y] - 1 ELSE hi[n]]
  <2>3. lo2 \in [Nodes -> Int] /\ hi2 \in [Nodes -> Int]
    BY <1>1, <2>1, <2>2
  <2>4. /\ lo[x] \in Int /\ hi[x] \in Int /\ pos[x] \in Int
        /\ lo[y] \in Int /\ hi[y] \in Int /\ pos[y] \in Int
    BY <1>1, <2>1, <2>2
  <2>5. ASSUME NEW n \in Nodes
        PROVE  /\ lo2[n] =< pos[n] /\ pos[n] =< hi2[n]
               /\ u.kid[n]["left"] # NULL =>
                    lo2[n] =< lo2[u.kid[n]["left"]] /\ hi2[u.kid[n]["left"]] < pos[n]
               /\ u.kid[n]["right"] # NULL =>
                    pos[n] < lo2[u.kid[n]["right"]] /\ hi2[u.kid[n]["right"]] =< hi2[n]
    <3>1. /\ lo[n] \in Int /\ hi[n] \in Int /\ pos[n] \in Int
          /\ t.kid[n]["left"] # NULL => /\ t.kid[n]["left"] \in Nodes /\ t.up[t.kid[n]["left"]] = n
                                        /\ lo[t.kid[n]["left"]] \in Int
                                             /\ hi[t.kid[n]["left"]] \in Int
          /\ t.kid[n]["right"] # NULL => /\ t.kid[n]["right"] \in Nodes /\ t.up[t.kid[n]["right"]] = n
                                         /\ lo[t.kid[n]["right"]] \in Int
                                              /\ hi[t.kid[n]["right"]] \in Int
          /\ "left" \in Sides /\ "right" \in Sides
      BY <2>1, <2>2, KidsApart DEF Sides
    <3>2. z # NULL => z \in Nodes /\ lo[z] \in Int /\ hi[z] \in Int
      BY <1>1, <2>1
    <3>3. CASE d = "left"
      <4>1. o = "right"
        BY <3>3 DEF o, Other
      <4>2. /\ lo[x] =< lo[y] /\ hi[y] < pos[x] /\ lo[y] =< pos[y] /\ pos[y] =< hi[y]
            /\ lo[x] =< pos[x] /\ pos[x] =< hi[x]
            /\ z # NULL => pos[y] < lo[z] /\ hi[z] =< hi[y]
        BY <1>1, <2>1, <3>3, <4>1 DEF Nested, y, z
      <4>3. CASE n = x
        BY <1>1, <1>2, <1>5, <2>1, <2>4, <3>1, <3>2, <3>3, <4>1, <4>2, <4>3, KidsApart, SidesAre
           DEF Nested
      <4>4. CASE n = y
        BY <1>1, <1>2, <1>5, <2>1, <2>4, <3>1, <3>2, <3>3, <4>1, <4>2, <4>4, KidsApart, SidesAre
           DEF Nested
      <4>5. CASE n \notin {x, y}
        <5>1. ASSUME NEW s \in Sides PROVE t.kid[n][s] # y
          <6>1. t.kid[n][s] # NULL => t.up[t.kid[n][s]] = n
            BY KidsApart
          <6> QED BY <1>1, <4>5, <6>1
        <5>2. \A s \in Sides : u.kid[n][s] = IF n = p /\ t.kid[n][s] = x THEN y ELSE t.kid[n][s]
          BY <1>5, <4>5
        <5>3. \A s \in Sides : t.kid[n][s] = x => n = p
          BY <1>1, KidsApart DEF p
        <5> QED BY <1>1, <2>1, <2>4, <3>1, <3>3, <4>5, <5>1, <5>2, <5>3 DEF Nested
      <4> QED BY <4>3, <4>4, <4>5
    <3>4. CASE d = "right"
      <4>1. o = "left"
        BY <3>4, SidesAre DEF o, Other
      <4>2. /\ hi[y] =< hi[x] /\ pos[x] < lo[y] /\ lo[y] =< pos[y] /\ pos[y] =< hi[y]
            /\ lo[x] =< pos[x] /\ pos[x] =< hi[x]
            /\ z # NULL => lo[y] =< lo[z] /\ hi[z] < pos[y]
        BY <1>1, <2>1, <3>4, <4>1 DEF Nested, y, z
      <4>3. CASE n = x
        BY <1>1, <1>2, <1>5, <2>1, <2>4, <3>1, <3>2, <3>4, <4>1, <4>2, <4>3, KidsApart, SidesAre
           DEF Nested
      <4>4. CASE n = y
        BY <1>1, <1>2, <1>5, <2>1, <2>4, <3>1, <3>2, <3>4, <4>1, <4>2, <4>4, KidsApart, SidesAre
           DEF Nested
      <4>5. CASE n \notin {x, y}
        <5>1. ASSUME NEW s \in Sides PROVE t.kid[n][s] # y
          <6>1. t.kid[n][s] # NULL => t.up[t.kid[n][s]] = n
            BY KidsApart
          <6> QED BY <1>1, <4>5, <6>1
        <5>2. \A s \in Sides : u.kid[n][s] = IF n = p /\ t.kid[n][s] = x THEN y ELSE t.kid[n][s]
          BY <1>5, <4>5
        <5>3. \A s \in Sides : t.kid[n][s] = x => n = p
          BY <1>1, KidsApart DEF p
        <5> QED BY <1>1, <2>1, <2>4, <3>1, <3>4, <4>5, <5>1, <5>2, <5>3 DEF Nested
      <4> QED BY <4>3, <4>4, <4>5
    <3> QED BY <1>1, <3>3, <3>4
  <2> HIDE DEF lo2, hi2
  <2>6. Nested(u, pos, lo2, hi2)
    BY <2>5 DEF Nested
  <2> QED BY <2>3, <2>6 DEF Ordered
<1> QED BY <1>8, <1>9, <1>10, <1>11 DEF Shape

(* The same, with the child named. *)
LEMMA TurnKeepsShape ==
  ASSUME NEW t, NEW pos, Shape(t, pos), NEW u \in Trees,
         NEW x \in Nodes, NEW y \in Nodes, NEW d \in Sides, y = t.kid[x][d],
         Turned(t, u, x, y, d), \A n \in Nodes \ InTree(t) : ~ u.red[n]
  PROVE  Shape(u, pos) /\ InTree(u) = InTree(t)
<1>1. t.kid[x][d] # NULL /\ Turned(t, u, x, t.kid[x][d], d)
  BY NullAssumption
<1> QED BY <1>1, TurnedShape

(* What holds of a node when it holds of its children holds of all nodes.  *)
LEMMA TreeInduction ==
  ASSUME NEW t, NEW pos, Shape(t, pos), NEW S \in SUBSET Nodes,
         \A n \in Nodes :
           (\A s \in Sides : t.kid[n][s] # NULL => t.kid[n][s] \in S) => n \in S
  PROVE  S = Nodes
<1> SUFFICES ASSUME Nodes \ S # {} PROVE FALSE
  OBVIOUS
<1>1. PICK span \in [Nodes -> Nat] :
        \A n \in Nodes, s \in Sides : t.kid[n][s] # NULL =>
          t.kid[n][s] \in Nodes /\ span[t.kid[n][s]] < span[n]
  BY SpansShrink
<1> DEFINE R == {ss \in Nat \X Nat : ss[1] < ss[2]}
           T == {span[n] : n \in Nodes \ S}
<1>2. IsWellFoundedOn(R, Nat)
  BY NatLessThanWellFounded, Zenon DEF OpToRel
<1>3. T \subseteq Nat /\ T # {}
  BY <1>1
<1>4. PICK k \in T : \A j \in T : <<j, k>> \notin R
  <2> HIDE DEF R, T
  <2> QED BY <1>2, <1>3, WFMin
<1>5. PICK n \in Nodes \ S : k = span[n]
  BY <1>4
<1>6. PICK s \in Sides : t.kid[n][s] # NULL /\ t.kid[n][s] \notin S
  BY <1>5
<1>7. t.kid[n][s] \in Nodes \ S /\ span[t.kid[n][s]] < span[n]
  BY <1>1, <1>5, <1>6
<1>8. span[t.kid[n][s]] \in T /\ span[t.kid[n][s]] \in Nat
  BY <1>1, <1>7
<1>9. <<span[t.kid[n][s]], k>> \in R
  BY <1>3, <1>5, <1>7, <1>8
<1> QED BY <1>4, <1>8, <1>9

(* A way from node to node, down or up, and the value at its end.  The     *)
(* value where a way does not end is nobody's.                             *)
LEMMA PathExists ==
  ASSUME NEW next \in [Nodes -> Nodes \cup {NULL}], NEW end
  PROVE  \E f : f = [m \in Nodes |-> IF next[m] = NULL THEN end[m] ELSE f[next[m]]]
<1> DEFINE Closed(S) == \A n \in S : next[n] # NULL => next[n] \in S
           Ends(m) == {x \in Nodes : /\ next[x] = NULL
                                     /\ \A S \in SUBSET Nodes : m \in S /\ Closed(S) => x \in S}
           Target(m) == CHOOSE x \in Ends(m) : TRUE
           f == [m \in Nodes |-> end[Target(m)]]
<1>1. \A m \in Nodes : next[m] # NULL => next[m] \in Nodes
  OBVIOUS
<1>2. ASSUME NEW m \in Nodes, next[m] = NULL PROVE Ends(m) = {m}
  <2>1. Closed({m}) /\ {m} \in SUBSET Nodes
    BY <1>2
  <2>2. m \in Ends(m)
    BY <1>2
  <2>3. \A x \in Ends(m) : x = m
    <3> HIDE DEF Closed
    <3> QED BY <2>1
  <2> QED BY <2>2, <2>3
<1>3. ASSUME NEW m \in Nodes, next[m] # NULL PROVE Ends(m) = Ends(next[m])
  <2> SUFFICES ASSUME NEW x \in Nodes, next[x] = NULL
               PROVE (\A S \in SUBSET Nodes : m \in S /\ Closed(S) => x \in S)
                       <=> (\A S \in SUBSET Nodes : next[m] \in S /\ Closed(S) => x \in S)
    OBVIOUS
  <2>1. ASSUME \A S \in SUBSET Nodes : next[m] \in S /\ Closed(S) => x \in S,
               NEW S \in SUBSET Nodes, m \in S, Closed(S)
        PROVE  x \in S
    BY <1>3, <2>1
  <2>2. ASSUME \A S \in SUBSET Nodes : m \in S /\ Closed(S) => x \in S,
               NEW S \in SUBSET Nodes, next[m] \in S, Closed(S)
        PROVE  x \in S
    <3>1. S \cup {m} \in SUBSET Nodes /\ m \in S \cup {m}
      OBVIOUS
    <3>2. Closed(S \cup {m})
      BY <2>2
    <3>3. x \in S \cup {m}
      <4> HIDE DEF Closed
      <4> QED BY <2>2, <3>1, <3>2
    <3>4. x # m
      BY <1>3
    <3> QED BY <3>3, <3>4
  <2> HIDE DEF Closed
  <2> QED BY <2>1, <2>2
<1>4. \A m \in Nodes : Target(m) = IF next[m] = NULL THEN m ELSE Target(next[m])
  <2> HIDE DEF Ends
  <2> QED BY <1>2, <1>3
<1> HIDE DEF Target
<1>5. \A m \in Nodes : f[m] = IF next[m] = NULL THEN end[m] ELSE f[next[m]]
  BY <1>1, <1>4
<1>6. f = [m \in Nodes |-> f[m]]
  OBVIOUS
<1> HIDE DEF f
<1>7. [m \in Nodes |-> f[m]]
        = [m \in Nodes |-> IF next[m] = NULL THEN end[m] ELSE f[next[m]]]
  BY <1>5
<1> QED BY <1>6, <1>7

(* A way down from every node, which goes on to the child on a side that   *)
(* depends on the node, and the value at its end.                          *)
Way(t, down, end, f) ==
  f = [m \in Nodes |-> IF t.kid[m][down[m]] = NULL THEN end[m] ELSE f[t.kid[m][down[m]]]]

(* Such a way down ends: the recursive functions of RbOps that go down     *)
(* have a value at every node.                                             *)
LEMMA WayExists ==
  ASSUME NEW t, NEW pos, Shape(t, pos), NEW down \in [Nodes -> Sides], NEW end
  PROVE  \E f : Way(t, down, end, f)
<1> DEFINE next == [m \in Nodes |-> t.kid[m][down[m]]]
<1>1. next \in [Nodes -> Nodes \cup {NULL}]
  BY KidsApart
<1>2. PICK f : f = [m \in Nodes |-> IF next[m] = NULL THEN end[m] ELSE f[next[m]]]
  <2> HIDE DEF next
  <2> QED BY <1>1, PathExists
<1>3. \A m \in Nodes : next[m] = t.kid[m][down[m]]
  OBVIOUS
<1> HIDE DEF next
<1>4. Way(t, down, end, f)
  BY <1>2, <1>3 DEF Way
<1> QED BY <1>4

(***************************************************************************)
(* Subtrees, and the nodes from left to right.                             *)
(***************************************************************************)

(* A set of nodes that holds the children of its members. *)
HoldsKids(t, S) == \A m \in S, s \in Sides : t.kid[m][s] # NULL => t.kid[m][s] \in S

(* n and the nodes below it: what every such set with n in it holds.       *)
Subtree(t, n) == {x \in Nodes : \A S \in SUBSET Nodes : n \in S /\ HoldsKids(t, S) => x \in S}

(* A subtree is the smallest such set. *)
LEMMA SubtreeLeast ==
  ASSUME NEW t, NEW n, NEW S \in SUBSET Nodes, n \in S, HoldsKids(t, S)
  PROVE  Subtree(t, n) \subseteq S
BY DEF Subtree

(* A subtree is its top and the subtrees of the top's children. *)
LEMMA SubtreeParts ==
  ASSUME NEW t, NEW pos, Shape(t, pos), NEW n \in Nodes
  PROVE  /\ n \in Subtree(t, n) /\ Subtree(t, n) \subseteq Nodes /\ HoldsKids(t, Subtree(t, n))
         /\ \A x : x \in Subtree(t, n) <=>
              x = n \/ \E s \in Sides : t.kid[n][s] # NULL /\ x \in Subtree(t, t.kid[n][s])
<1>1. \A m \in Nodes, s \in Sides : t.kid[m][s] # NULL => t.kid[m][s] \in Nodes
  BY KidsApart DEF InTree
<1>2. ASSUME NEW m \in Nodes
      PROVE  m \in Subtree(t, m) /\ Subtree(t, m) \subseteq Nodes /\ HoldsKids(t, Subtree(t, m))
  <2>1. m \in Subtree(t, m) /\ Subtree(t, m) \subseteq Nodes
    BY DEF Subtree
  <2>2. ASSUME NEW x \in Subtree(t, m), NEW s \in Sides, t.kid[x][s] # NULL,
               NEW S \in SUBSET Nodes, m \in S, HoldsKids(t, S)
        PROVE  t.kid[x][s] \in S
    <3>1. x \in S
      BY <2>2 DEF Subtree
    <3> QED BY <2>2, <3>1 DEF HoldsKids
  <2> QED BY <1>1, <2>1, <2>2 DEF HoldsKids, Subtree
<1>3. ASSUME NEW x, x = n \/ \E s \in Sides : t.kid[n][s] # NULL /\ x \in Subtree(t, t.kid[n][s])
      PROVE  x \in Subtree(t, n)
  <2>1. CASE x = n
    BY <1>2, <2>1
  <2>2. ASSUME NEW s \in Sides, t.kid[n][s] # NULL, x \in Subtree(t, t.kid[n][s])
        PROVE  x \in Subtree(t, n)
    <3>1. t.kid[n][s] \in Subtree(t, n)
      BY <1>2, <2>2 DEF HoldsKids
    <3>2. Subtree(t, t.kid[n][s]) \subseteq Subtree(t, n)
      BY <1>2, <3>1, SubtreeLeast
    <3> QED BY <2>2, <3>2
  <2> QED BY <1>3, <2>1, <2>2
<1> DEFINE P == {x \in Nodes : x = n \/ \E s \in Sides : t.kid[n][s] # NULL
                                                    /\ x \in Subtree(t, t.kid[n][s])}
<1>4. HoldsKids(t, P)
  <2> SUFFICES ASSUME NEW x \in P, NEW s \in Sides, t.kid[x][s] # NULL PROVE t.kid[x][s] \in P
    BY DEF HoldsKids
  <2>0. t.kid[x][s] \in Nodes
    BY <1>1
  <2>1. CASE x = n
    BY <1>2, <2>0, <2>1
  <2>2. ASSUME NEW d \in Sides, t.kid[n][d] # NULL, x \in Subtree(t, t.kid[n][d])
        PROVE  t.kid[x][s] \in P
    <3>1. HoldsKids(t, Subtree(t, t.kid[n][d]))
      BY <1>1, <1>2, <2>2
    <3>2. t.kid[x][s] \in Subtree(t, t.kid[n][d])
      BY <2>2, <3>1 DEF HoldsKids
    <3> QED BY <2>0, <2>2, <3>2
  <2> QED BY <2>1, <2>2
<1>5. Subtree(t, n) \subseteq P
  <2>1. P \in SUBSET Nodes /\ n \in P
    OBVIOUS
  <2> HIDE DEF P
  <2> QED BY <1>4, <2>1, SubtreeLeast
<1> QED BY <1>2, <1>3, <1>5

(* The interval of a node holds those of its subtree. *)
LEMMA SubtreeSpans ==
  ASSUME NEW t, NEW pos, Shape(t, pos), NEW lo \in [Nodes -> Int], NEW hi \in [Nodes -> Int],
         Nested(t, pos, lo, hi), NEW n \in Nodes, NEW x \in Subtree(t, n)
  PROVE  /\ x \in Nodes /\ lo[n] =< lo[x] /\ hi[x] =< hi[n]
         /\ lo[n] =< pos[x] /\ pos[x] =< hi[n]
<1> DEFINE S == {m \in Nodes : lo[n] =< lo[m] /\ hi[m] =< hi[n]}
<1>1. pos \in [Nodes -> Int] /\ \A m \in Nodes : lo[m] =< pos[m] /\ pos[m] =< hi[m]
  BY DEF Shape, Nested
<1>2. HoldsKids(t, S)
  <2> SUFFICES ASSUME NEW m \in S, NEW s \in Sides, t.kid[m][s] # NULL PROVE t.kid[m][s] \in S
    BY DEF HoldsKids
  <2>1. PICK k \in Nodes : k = t.kid[m][s]
    BY KidsApart DEF InTree
  <2>2. /\ lo[n] \in Int /\ hi[n] \in Int /\ lo[m] \in Int /\ hi[m] \in Int /\ pos[m] \in Int
        /\ lo[k] \in Int /\ hi[k] \in Int /\ lo[m] =< pos[m] /\ pos[m] =< hi[m]
    BY <1>1
  <2>3. (lo[m] =< lo[k] /\ hi[k] < pos[m]) \/ (pos[m] < lo[k] /\ hi[k] =< hi[m])
    BY <2>1 DEF Nested, Sides
  <2>4. lo[n] =< lo[k] /\ hi[k] =< hi[n]
    BY <2>2, <2>3
  <2> QED BY <2>1, <2>4
<1>3. x \in S
  <2>1. n \in S /\ S \in SUBSET Nodes
    OBVIOUS
  <2> HIDE DEF S
  <2> QED BY <1>2, <2>1, SubtreeLeast
<1>4. /\ lo[n] \in Int /\ hi[n] \in Int /\ lo[x] \in Int /\ hi[x] \in Int /\ pos[x] \in Int
      /\ lo[x] =< pos[x] /\ pos[x] =< hi[x]
  BY <1>1, <1>3
<1> QED BY <1>3, <1>4

(* What is below the left child lies before a node, what is below the      *)
(* right child behind it.                                                  *)
LEMMA SubtreeSides ==
  ASSUME NEW t, NEW pos, Shape(t, pos), NEW n \in Nodes, NEW s \in Sides, t.kid[n][s] # NULL,
         NEW x \in Subtree(t, t.kid[n][s])
  PROVE  /\ x \in Nodes /\ pos[x] \in Int /\ pos[n] \in Int
         /\ s = "left" => pos[x] < pos[n]
         /\ s = "right" => pos[n] < pos[x]
<1>1. PICK lo, hi \in [Nodes -> Int] : Nested(t, pos, lo, hi)
  BY DEF Shape, Ordered
<1>2. PICK k \in Nodes : k = t.kid[n][s]
  BY KidsApart DEF InTree
<1>3. x \in Nodes /\ lo[k] =< pos[x] /\ pos[x] =< hi[k]
  BY <1>1, <1>2, SubtreeSpans
<1>4. lo[k] \in Int /\ hi[k] \in Int /\ pos[x] \in Int /\ pos[n] \in Int
  BY <1>2, <1>3, <1>1 DEF Shape
<1>5. (s = "left" => hi[k] < pos[n]) /\ (s = "right" => pos[n] < lo[k])
  BY <1>1, <1>2 DEF Nested
<1> QED BY <1>3, <1>4, <1>5

(* What is below a node of the tree is in the tree. *)
LEMMA SubtreeInTree ==
  ASSUME NEW t, NEW pos, Shape(t, pos), NEW n \in InTree(t)
  PROVE  Subtree(t, n) \subseteq InTree(t)
<1>1. HoldsKids(t, InTree(t)) /\ InTree(t) \in SUBSET Nodes
  BY KidsApart DEF HoldsKids, InTree
<1> QED BY <1>1, SubtreeLeast

(* Parents do not go up for ever: nodes that all have their parents among  *)
(* them are not in a finite tree.                                          *)
LEMMA ParentsEnd ==
  ASSUME NEW t, NEW pos, Shape(t, pos), IsFiniteSet(InTree(t)), NEW B \in SUBSET InTree(t),
         \A m \in B : t.up[m] \in B
  PROVE  B = {}
<1> SUFFICES ASSUME B # {} PROVE FALSE
  OBVIOUS
<1>1. PICK span \in [Nodes -> Nat] :
        \A n \in Nodes, s \in Sides : t.kid[n][s] # NULL =>
          t.kid[n][s] \in Nodes /\ span[t.kid[n][s]] < span[n]
  BY SpansShrink
<1>2. B \subseteq Nodes /\ IsFiniteSet(B)
  BY FS_Subset DEF InTree
<1> DEFINE Above(m) == {x \in B : span[m] =< span[x]}
           R == {ss \in Nat \X Nat : ss[1] < ss[2]}
           T == {Cardinality(Above(m)) : m \in B}
<1>3. \A m \in B : IsFiniteSet(Above(m)) /\ Cardinality(Above(m)) \in Nat
  BY <1>2, FS_Subset, FS_CardinalityType
<1>4. IsWellFoundedOn(R, Nat)
  BY NatLessThanWellFounded, Zenon DEF OpToRel
<1>5. T \subseteq Nat /\ T # {}
  <2> HIDE DEF Above
  <2> QED BY <1>3
<1>6. PICK k \in T : \A j \in T : <<j, k>> \notin R
  <2> HIDE DEF R, T
  <2> QED BY <1>4, <1>5, WFMin
<1>7. PICK m \in B : k = Cardinality(Above(m))
  <2> HIDE DEF Above
  <2> QED BY <1>6
<1>8. PICK p \in B : p = t.up[m] /\ p # NULL
  BY <1>2, NullAssumption
<1>9. span[m] < span[p] /\ span[m] \in Nat /\ span[p] \in Nat
  <2>1. PICK s \in Sides : t.kid[p][s] = m
    BY <1>2, <1>8, KidsApart
  <2>2. m # NULL
    BY <1>2, NullAssumption
  <2> QED BY <1>1, <1>2, <2>1, <2>2
<1>10. Above(p) \subseteq Above(m) /\ m \in Above(m) /\ m \notin Above(p)
  <2>1. \A x \in B : span[x] \in Nat
    BY <1>1, <1>2
  <2> QED BY <1>9, <2>1
<1>11. Cardinality(Above(p)) < Cardinality(Above(m))
  <2> HIDE DEF Above
  <2> QED BY <1>3, <1>10, FS_Subset
<1>12. Cardinality(Above(p)) \in T /\ Cardinality(Above(p)) \in Nat /\ k \in Nat
  <2> HIDE DEF Above
  <2> QED BY <1>3, <1>7
<1>13. <<Cardinality(Above(p)), k>> \in R
  <2> HIDE DEF Above, T
  <2> QED BY <1>7, <1>11, <1>12
<1> QED BY <1>6, <1>12, <1>13

(* All that hangs in a finite tree hangs below the root. *)
LEMMA TreeIsSubtree ==
  ASSUME NEW t, NEW pos, Shape(t, pos), IsFiniteSet(InTree(t))
  PROVE  /\ t.root = NULL => InTree(t) = {}
         /\ t.root # NULL => t.root \in InTree(t) /\ Subtree(t, t.root) = InTree(t)
<1>1. \A m \in InTree(t) : m # t.root => t.up[m] \in InTree(t)
                                          /\ \E s \in Sides : t.kid[t.up[m]][s] = m
  BY KidsApart DEF InTree
<1>2. NULL \notin Nodes /\ InTree(t) \subseteq Nodes
  BY NullAssumption DEF InTree
<1>3. ASSUME t.root = NULL PROVE InTree(t) = {}
  <2>1. \A m \in InTree(t) : t.up[m] \in InTree(t)
    BY <1>1, <1>2, <1>3
  <2> QED BY <2>1, ParentsEnd
<1>4. ASSUME t.root # NULL PROVE t.root \in InTree(t) /\ Subtree(t, t.root) = InTree(t)
  <2>1. t.root \in InTree(t) /\ t.root \in Nodes
    BY <1>4 DEF InTree, Shape, Trees
  <2>2. /\ Subtree(t, t.root) \subseteq InTree(t) /\ t.root \in Subtree(t, t.root)
        /\ HoldsKids(t, Subtree(t, t.root))
    BY <2>1, SubtreeInTree, SubtreeParts
  <2> DEFINE B == InTree(t) \ Subtree(t, t.root)
  <2>3. ASSUME NEW m \in B PROVE t.up[m] \in B
    <3>1. t.up[m] \in InTree(t) /\ \E s \in Sides : t.kid[t.up[m]][s] = m
      BY <1>1, <2>2
    <3>2. m # NULL
      BY <1>2
    <3>3. t.up[m] \notin Subtree(t, t.root)
      BY <2>2, <3>1, <3>2 DEF HoldsKids
    <3> QED BY <3>1, <3>3
  <2>4. B \in SUBSET InTree(t)
    OBVIOUS
  <2>5. B = {}
    <3> HIDE DEF B
    <3> QED BY <2>3, <2>4, ParentsEnd
  <2> QED BY <2>1, <2>2, <2>5
<1> QED BY <1>3, <1>4

(* A node whose position is in the interval of another is below it. *)
LEMMA SpanHolds ==
  ASSUME NEW t, NEW pos, Shape(t, pos), IsFiniteSet(InTree(t)),
         NEW lo \in [Nodes -> Int], NEW hi \in [Nodes -> Int], Nested(t, pos, lo, hi),
         NEW n \in InTree(t), NEW m \in InTree(t), lo[n] =< pos[m], pos[m] =< hi[n]
  PROVE  m \in Subtree(t, n)
<1> DEFINE S == {k \in Nodes : n \in Subtree(t, k) /\ m \in Subtree(t, k) => m \in Subtree(t, n)}
<1>1. ASSUME NEW k \in Nodes, \A s \in Sides : t.kid[k][s] # NULL => t.kid[k][s] \in S,
             n \in Subtree(t, k), m \in Subtree(t, k)
      PROVE  m \in Subtree(t, n)
  <2>1. CASE n = k
    BY <1>1, <2>1
  <2>2. CASE n # k
    <3>1. PICK s \in Sides : t.kid[k][s] # NULL /\ n \in Subtree(t, t.kid[k][s])
      BY <1>1, <2>2, SubtreeParts
    <3>2. PICK c \in Nodes : c = t.kid[k][s]
      BY <3>1, KidsApart DEF InTree
    <3>3. lo[c] =< lo[n] /\ hi[n] =< hi[c] /\ n \in Nodes /\ m \in Nodes
      BY <3>1, <3>2, SubtreeSpans DEF InTree
    <3>4. /\ lo[c] \in Int /\ lo[n] \in Int /\ hi[n] \in Int /\ hi[c] \in Int
          /\ pos[m] \in Int /\ pos[k] \in Int
      BY <3>2, <3>3 DEF Shape
    <3>5. lo[c] =< pos[m] /\ pos[m] =< hi[c]
      BY <3>3, <3>4
    <3>6. (s = "left" => hi[c] < pos[k]) /\ (s = "right" => pos[k] < lo[c]) /\ s \in {"left", "right"}
      BY <3>1, <3>2 DEF Nested, Sides
    <3>7. m # k
      BY <3>4, <3>5, <3>6
    <3>8. PICK e \in Sides : t.kid[k][e] # NULL /\ m \in Subtree(t, t.kid[k][e])
      BY <1>1, <3>7, SubtreeParts
    <3>9. (e = "left" => pos[m] < pos[k]) /\ (e = "right" => pos[k] < pos[m]) /\ e \in {"left", "right"}
      BY <3>8, SubtreeSides DEF Sides
    <3>10. e = s
      BY <3>4, <3>5, <3>6, <3>9
    <3> QED BY <1>1, <3>1, <3>8, <3>10
  <2> QED BY <2>1, <2>2
<1>2. S = Nodes
  <2>1. S \in SUBSET Nodes
    OBVIOUS
  <2>2. ASSUME NEW k \in Nodes, \A s \in Sides : t.kid[k][s] # NULL => t.kid[k][s] \in S
        PROVE  k \in S
    BY <1>1, <2>2
  <2> HIDE DEF S
  <2> QED BY <2>1, <2>2, TreeInduction
<1>3. t.root \in Nodes /\ n \in Subtree(t, t.root) /\ m \in Subtree(t, t.root)
  BY TreeIsSubtree DEF InTree
<1> QED BY <1>2, <1>3

(* No two nodes of a tree have the same position. *)
LEMMA PositionsDiffer ==
  ASSUME NEW t, NEW pos, Shape(t, pos), IsFiniteSet(InTree(t)),
         NEW n \in InTree(t), NEW m \in InTree(t), n # m
  PROVE  pos[n] # pos[m] /\ pos[n] \in Int /\ pos[m] \in Int
<1>1. PICK lo, hi \in [Nodes -> Int] : Nested(t, pos, lo, hi)
  BY DEF Shape, Ordered
<1>2. n \in Nodes /\ m \in Nodes /\ pos[n] \in Int /\ pos[m] \in Int
  BY DEF InTree, Shape
<1>3. SUFFICES ASSUME pos[n] = pos[m] PROVE FALSE
  BY <1>2
<1>4. lo[n] =< pos[m] /\ pos[m] =< hi[n]
  BY <1>1, <1>2, <1>3 DEF Nested
<1>5. m \in Subtree(t, n)
  BY <1>1, <1>4, SpanHolds
<1>6. PICK s \in Sides : t.kid[n][s] # NULL /\ m \in Subtree(t, t.kid[n][s])
  BY <1>2, <1>5, SubtreeParts
<1> QED BY <1>2, <1>3, <1>6, SubtreeSides DEF Sides

(* The members of S in the order of their positions. *)
Sorted(q, pos, S) ==
  /\ q \in Seq(S) /\ \A x \in S : \E i \in 1 .. Len(q) : q[i] = x
  /\ \A i, j \in 1 .. Len(q) : i < j => pos[q[i]] < pos[q[j]]

(* Such a sequence holds each of them once. *)
LEMMA SortedOnce ==
  ASSUME NEW pos, NEW S, \A x \in S : pos[x] \in Int, NEW q, Sorted(q, pos, S)
  PROVE  /\ Len(q) \in Nat /\ \A i \in 1 .. Len(q) : q[i] \in S
         /\ \A i, j \in 1 .. Len(q) : (i < j <=> pos[q[i]] < pos[q[j]]) /\ (q[i] = q[j] <=> i = j)
<1>1. q \in Seq(S) /\ Len(q) \in Nat /\ \A i \in 1 .. Len(q) : q[i] \in S
  BY ElementOfSeq, LenProperties DEF Sorted
<1>2. ASSUME NEW i \in 1 .. Len(q), NEW j \in 1 .. Len(q)
      PROVE  (i < j <=> pos[q[i]] < pos[q[j]]) /\ (q[i] = q[j] <=> i = j)
  <2>1. pos[q[i]] \in Int /\ pos[q[j]] \in Int /\ i \in Int /\ j \in Int
    BY <1>1
  <2>2. (i < j => pos[q[i]] < pos[q[j]]) /\ (j < i => pos[q[j]] < pos[q[i]])
    BY DEF Sorted
  <2> QED BY <2>1, <2>2
<1> QED BY <1>1, <1>2

(* Where two of them agree up to a place, the member there comes no        *)
(* earlier in the other.                                                   *)
LEMMA SortedLater ==
  ASSUME NEW pos, NEW S, \A x \in S : pos[x] \in Int, NEW q, Sorted(q, pos, S),
         NEW r, Sorted(r, pos, S), NEW i \in 1 .. Len(q),
         \A j \in 1 .. i - 1 : j \in 1 .. Len(r) /\ q[j] = r[j]
  PROVE  \E k \in 1 .. Len(r) : k >= i /\ r[k] = q[i]
<1>1. Len(q) \in Nat /\ q[i] \in S /\ \A j \in 1 .. Len(q) : q[i] = q[j] <=> i = j
  <2>1. /\ Len(q) \in Nat /\ \A j \in 1 .. Len(q) : q[j] \in S
        /\ \A j, l \in 1 .. Len(q) : (j < l <=> pos[q[j]] < pos[q[l]]) /\ (q[j] = q[l] <=> j = l)
    BY SortedOnce
  <2> QED BY <2>1
<1>2. Len(r) \in Nat /\ \E k \in 1 .. Len(r) : r[k] = q[i]
  <2>1. Len(r) \in Nat
    BY SortedOnce
  <2> QED BY <1>1, <2>1 DEF Sorted
<1>3. PICK k \in 1 .. Len(r) : r[k] = q[i]
  BY <1>2
<1>4. ASSUME k < i PROVE FALSE
  <2>1. k \in 1 .. i - 1 /\ k \in 1 .. Len(q) /\ k # i
    BY <1>1, <1>2, <1>4
  <2> QED BY <1>1, <1>3, <2>1
<1>5. k >= i
  BY <1>1, <1>2, <1>4
<1> QED BY <1>3, <1>5

(* Every set of numbers that is not empty has a least one. *)
LEMMA LeastNumber ==
  ASSUME NEW N \in SUBSET Nat, N # {}
  PROVE  \E i \in N : \A j \in N : i =< j
<1> DEFINE R == {ss \in Nat \X Nat : ss[1] < ss[2]}
<1>1. IsWellFoundedOn(R, Nat)
  BY NatLessThanWellFounded, Zenon DEF OpToRel
<1>2. PICK i \in N : \A j \in N : <<j, i>> \notin R
  <2> HIDE DEF R
  <2> QED BY <1>1, WFMin
<1>3. \A j \in N : i =< j
  <2> SUFFICES ASSUME NEW j \in N, j < i PROVE FALSE
    OBVIOUS
  <2>1. <<j, i>> \in R
    OBVIOUS
  <2> HIDE DEF R
  <2> QED BY <1>2, <2>1
<1> QED BY <1>3

(* There is only one. *)
LEMMA SortedUnique ==
  ASSUME NEW pos, NEW S, \A x \in S : pos[x] \in Int, NEW q, Sorted(q, pos, S),
         NEW r, Sorted(r, pos, S)
  PROVE  q = r
<1>1. Len(q) \in Nat /\ q \in Seq(S) /\ \A i \in 1 .. Len(q) : q[i] \in S
  BY SortedOnce DEF Sorted
<1>2. Len(r) \in Nat /\ r \in Seq(S) /\ \A i \in 1 .. Len(r) : r[i] \in S
  BY SortedOnce DEF Sorted
<1> DEFINE Same(i) == (i =< Len(q) <=> i =< Len(r)) /\ (i =< Len(q) => q[i] = r[i])
           Bad == {i \in Nat : i >= 1 /\ ~ Same(i)}
<1>3. Bad = {}
  <2> SUFFICES ASSUME Bad # {} PROVE FALSE
    OBVIOUS
  <2>1. PICK i \in Bad : \A j \in Bad : i =< j
    <3>1. Bad \in SUBSET Nat
      OBVIOUS
    <3> HIDE DEF Bad
    <3> QED BY <3>1, LeastNumber
  <2>2. i \in Nat /\ i >= 1 /\ ~ Same(i)
    OBVIOUS
  <2>3. \A j \in 1 .. i - 1 : Same(j)
    <3> SUFFICES ASSUME NEW j \in 1 .. i - 1, ~ Same(j) PROVE FALSE
      OBVIOUS
    <3>1. j \in Bad
      OBVIOUS
    <3> HIDE DEF Bad, Same
    <3> QED BY <2>1, <2>2, <3>1
  <2>4. ASSUME i =< Len(q) PROVE \E k \in 1 .. Len(r) : k >= i /\ r[k] = q[i]
    <3>1. i \in 1 .. Len(q) /\ \A j \in 1 .. i - 1 : j \in 1 .. Len(r) /\ q[j] = r[j]
      BY <1>1, <1>2, <2>2, <2>3, <2>4
    <3> QED BY <3>1, SortedLater
  <2>5. ASSUME i =< Len(r) PROVE \E k \in 1 .. Len(q) : k >= i /\ q[k] = r[i]
    <3>1. i \in 1 .. Len(r) /\ \A j \in 1 .. i - 1 : j \in 1 .. Len(q) /\ r[j] = q[j]
      BY <1>1, <1>2, <2>2, <2>3, <2>5
    <3> HIDE DEF Bad, Same
    <3> QED BY <3>1, SortedLater
  <2>6. (i =< Len(q) <=> i =< Len(r)) /\ i =< Len(q)
    BY <1>1, <1>2, <2>2, <2>4, <2>5
  <2>7. i \in 1 .. Len(q) /\ i \in 1 .. Len(r)
    BY <1>1, <1>2, <2>2, <2>6
  <2>8. PICK k \in 1 .. Len(r) : k >= i /\ r[k] = q[i]
    BY <2>4, <2>6
  <2>9. PICK l \in 1 .. Len(q) : l >= i /\ q[l] = r[i]
    BY <2>5, <2>6
  <2> HIDE DEF Bad
  <2>10. ASSUME i < k PROVE FALSE
    <3>1. pos[r[i]] < pos[r[k]]
      BY <2>7, <2>10 DEF Sorted
    <3>2. pos[q[i]] < pos[q[l]] \/ l = i
      <4>1. l = i \/ i < l
        BY <1>1, <2>2, <2>9
      <4> QED BY <2>7, <4>1 DEF Sorted
    <3>3. pos[q[i]] \in Int /\ pos[r[i]] \in Int
      BY <1>1, <1>2, <2>7
    <3>4. pos[r[i]] < pos[q[i]] /\ (pos[q[i]] < pos[r[i]] \/ q[i] = r[i])
      BY <2>8, <2>9, <3>1, <3>2
    <3> QED BY <3>3, <3>4
  <2>11. k = i
    BY <1>2, <2>2, <2>8, <2>10
  <2> QED BY <2>2, <2>6, <2>8, <2>11
<1> HIDE DEF Bad
<1>4. \A i \in Nat : i >= 1 => Same(i)
  BY <1>3 DEF Bad
<1>5. Len(q) = Len(r)
  <2>1. Len(q) >= 1 => Same(Len(q))
    BY <1>1, <1>4
  <2>2. Len(r) >= 1 => Same(Len(r))
    BY <1>2, <1>4
  <2> QED BY <1>1, <1>2, <2>1, <2>2
<1>6. \A i \in 1 .. Len(q) : q[i] = r[i]
  BY <1>1, <1>4
<1> QED BY <1>1, <1>2, <1>5, <1>6, SeqEqual

(* A member goes between those before it and those behind it. *)
LEMMA SortedAround ==
  ASSUME NEW pos, NEW A, NEW B, NEW n, NEW S, S = A \cup {n} \cup B, \A x \in S : pos[x] \in Int,
         \A x \in A : pos[x] < pos[n], \A x \in B : pos[n] < pos[x],
         NEW a, Sorted(a, pos, A), NEW b, Sorted(b, pos, B)
  PROVE  Sorted(a \o <<n>> \o b, pos, S)
<1> DEFINE k == Len(a)
           l == Len(b)
           w == a \o <<n>> \o b
<1>1. /\ k \in Nat /\ l \in Nat /\ a \in Seq(A) /\ b \in Seq(B)
      /\ \A i \in 1 .. k : a[i] \in A
      /\ \A i \in 1 .. l : b[i] \in B
  BY ElementOfSeq, LenProperties DEF Sorted
<1>2. /\ a \in Seq(S) /\ b \in Seq(S) /\ <<n>> \in Seq(S)
  <2>1. A \subseteq S /\ B \subseteq S /\ n \in S
    OBVIOUS
  <2> QED BY <1>1, <2>1, SeqMonotonic
<1>3. /\ w \in Seq(S) /\ Len(w) = k + 1 + l
      /\ \A i \in 1 .. k : w[i] = a[i]
      /\ w[k + 1] = n
      /\ \A i \in 1 .. l : w[k + 1 + i] = b[i]
  <2> DEFINE v == a \o <<n>>
  <2>1. /\ v \in Seq(S) /\ Len(v) = k + 1
        /\ \A i \in 1 .. k : v[i] = a[i]
        /\ v[k + 1] = n
    BY <1>1, <1>2, ConcatProperties
  <2> HIDE DEF v
  <2>2. /\ v \o b \in Seq(S) /\ Len(v \o b) = k + 1 + l
        /\ \A i \in 1 .. k + 1 + l : (v \o b)[i] = IF i =< k + 1 THEN v[i] ELSE b[i - (k + 1)]
    <3>1. /\ v \o b \in Seq(S) /\ Len(v \o b) = Len(v) + Len(b)
          /\ \A i \in 1 .. Len(v) + Len(b) :
               (v \o b)[i] = IF i =< Len(v) THEN v[i] ELSE b[i - Len(v)]
      BY <1>2, <2>1, ConcatProperties
    <3>2. Len(v) = k + 1 /\ Len(b) = l
      BY <2>1
    <3> HIDE DEF l
    <3> QED BY <3>1, <3>2
  <2>3. \A i \in 1 .. l : k + 1 + i \in 1 .. k + 1 + l /\ ~ (k + 1 + i =< k + 1)
                          /\ (k + 1 + i) - (k + 1) = i
    BY <1>1
  <2>4. \A i \in 1 .. k + 1 : i \in 1 .. k + 1 + l /\ i =< k + 1
    BY <1>1
  <2>5. \A i \in 1 .. k : i \in 1 .. k + 1
    BY <1>1
  <2>6. k + 1 \in 1 .. k + 1
    BY <1>1
  <2>7. w = v \o b
    BY DEF v
  <2> HIDE DEF w, k, l
  <2> QED BY <2>1, <2>2, <2>3, <2>4, <2>5, <2>6, <2>7
<1> HIDE DEF w, k, l
<1>4. ASSUME NEW x \in S PROVE \E i \in 1 .. Len(w) : w[i] = x
  <2>1. CASE x \in A
    <3>1. PICK i \in 1 .. k : a[i] = x
      BY <2>1 DEF Sorted, k
    <3> QED BY <1>1, <1>3, <3>1
  <2>2. CASE x = n
    <3>1. k + 1 \in 1 .. Len(w)
      BY <1>1, <1>3
    <3> QED BY <1>3, <2>2, <3>1
  <2>3. CASE x \in B
    <3>1. PICK i \in 1 .. l : b[i] = x
      BY <2>3 DEF Sorted, l
    <3>2. k + 1 + i \in 1 .. Len(w)
      BY <1>1, <1>3
    <3> QED BY <1>3, <3>1, <3>2
  <2> QED BY <2>1, <2>2, <2>3
<1>5. ASSUME NEW i \in 1 .. Len(w), NEW j \in 1 .. Len(w), i < j PROVE pos[w[i]] < pos[w[j]]
  <2>1. CASE j =< k
    <3>1. i \in 1 .. k /\ j \in 1 .. k
      BY <1>1, <1>3, <1>5, <2>1
    <3>2. pos[a[i]] < pos[a[j]]
      BY <1>5, <3>1 DEF Sorted, k
    <3> QED BY <1>3, <3>1, <3>2
  <2>2. CASE j = k + 1
    <3>1. i \in 1 .. k
      BY <1>1, <1>3, <1>5, <2>2
    <3> QED BY <1>1, <1>3, <2>2, <3>1
  <2>3. CASE j > k + 1
    <3>1. PICK j2 \in 1 .. l : j = k + 1 + j2
      <4>1. j - (k + 1) \in 1 .. l /\ j = k + 1 + (j - (k + 1))
        BY <1>1, <1>3, <2>3
      <4> QED BY <4>1
    <3>2. w[j] = b[j2] /\ w[j] \in B /\ pos[n] < pos[w[j]]
      BY <1>1, <1>3, <3>1
    <3>3. CASE i =< k
      <4>1. i \in 1 .. k
        BY <1>1, <3>3
      <4>2. w[i] \in A
        BY <1>1, <1>3, <4>1
      <4>3. pos[w[i]] < pos[n] /\ pos[w[i]] \in Int /\ pos[n] \in Int /\ pos[w[j]] \in Int
        BY <3>2, <4>2
      <4> QED BY <3>2, <4>3
    <3>4. CASE i = k + 1
      BY <1>3, <3>2, <3>4
    <3>5. CASE i > k + 1
      <4>1. PICK i2 \in 1 .. l : i = k + 1 + i2
        <5>1. i - (k + 1) \in 1 .. l /\ i = k + 1 + (i - (k + 1))
          BY <1>1, <1>3, <3>5
        <5> QED BY <5>1
      <4>2. w[i] = b[i2] /\ i2 < j2
        BY <1>1, <1>3, <1>5, <3>1, <4>1
      <4>3. pos[b[i2]] < pos[b[j2]]
        BY <3>1, <4>1, <4>2 DEF Sorted, l
      <4> QED BY <3>2, <4>2, <4>3
    <3> QED BY <1>1, <3>3, <3>4, <3>5
  <2> QED BY <1>1, <2>1, <2>2, <2>3
<1>6. Sorted(w, pos, S)
  BY <1>3, <1>4, <1>5 DEF Sorted
<1> QED BY <1>6 DEF w

(* Another way to number the members of S gives them the same order. *)
SameOrder(pos, pos2, S) == \A a, b \in S : pos[a] < pos[b] <=> pos2[a] < pos2[b]

(* A stretch of a sorted sequence is one, also where it is numbered anew.  *)
LEMMA SortedStretch ==
  ASSUME NEW pos, NEW S, NEW q, Sorted(q, pos, S), NEW pos2, SameOrder(pos, pos2, S),
         NEW a \in 1 .. Len(q) + 1, NEW b \in 0 .. Len(q), a =< b + 1
  PROVE  Sorted(SubSeq(q, a, b), pos2, {q[j] : j \in a .. b})
<1> DEFINE r == SubSeq(q, a, b)
           T == {q[j] : j \in a .. b}
<1>1. q \in Seq(S) /\ Len(q) \in Nat /\ \A i \in 1 .. Len(q) : q[i] \in S
  BY ElementOfSeq, LenProperties DEF Sorted
<1>2. a \in Nat /\ b \in Nat /\ \A i \in a .. b : i \in 1 .. Len(q)
  BY <1>1
<1>3. Len(r) = b - a + 1 /\ r \in Seq(T) /\ \A i \in 1 .. b - a + 1 : r[i] = q[a + i - 1]
  <2>1. r = [i \in 1 .. b - a + 1 |-> q[a + i - 1]]
    BY <1>1, <1>2
  <2>2. b - a + 1 \in Nat /\ \A i \in 1 .. b - a + 1 : a + i - 1 \in a .. b
    BY <1>2
  <2> HIDE DEF r
  <2>3. \A i \in 1 .. b - a + 1 : q[a + i - 1] \in T
    BY <2>2
  <2> HIDE DEF T
  <2> QED BY <2>1, <2>2, <2>3
<1>4. \A x \in T : \E i \in 1 .. Len(r) : r[i] = x
  <2> SUFFICES ASSUME NEW j \in a .. b PROVE \E i \in 1 .. Len(r) : r[i] = q[j]
    OBVIOUS
  <2>1. j - a + 1 \in 1 .. b - a + 1 /\ a + (j - a + 1) - 1 = j
    BY <1>2
  <2> HIDE DEF r
  <2> QED BY <1>3, <2>1
<1>5. ASSUME NEW i \in 1 .. Len(r), NEW j \in 1 .. Len(r), i < j PROVE pos2[r[i]] < pos2[r[j]]
  <2> HIDE DEF r
  <2>0. i \in 1 .. b - a + 1 /\ j \in 1 .. b - a + 1
    BY <1>3, <1>5
  <2>3. a + i - 1 \in a .. b /\ a + j - 1 \in a .. b /\ a + i - 1 < a + j - 1
    BY <2>0, <1>2, <1>5
  <2>1. a + i - 1 \in 1 .. Len(q) /\ a + j - 1 \in 1 .. Len(q) /\ a + i - 1 < a + j - 1
    BY <2>3, <1>2
  <2>2. pos[q[a + i - 1]] < pos[q[a + j - 1]]
    BY <2>1 DEF Sorted
  <2> QED BY <1>1, <1>3, <2>0, <2>1, <2>2 DEF SameOrder
<1> HIDE DEF r, T
<1>6. Sorted(r, pos2, T)
  BY <1>3, <1>4, <1>5 DEF Sorted
<1> QED BY <1>6 DEF r, T

(* A new member goes between those before it and those behind it. *)
LEMMA SortedInsert ==
  ASSUME NEW pos, NEW S, NEW q, Sorted(q, pos, S), NEW n, NEW pos2, SameOrder(pos, pos2, S),
         \A x \in S \cup {n} : pos2[x] \in Int, NEW i \in 1 .. Len(q) + 1,
         \A j \in 1 .. i - 1 : pos2[q[j]] < pos2[n],
         \A j \in i .. Len(q) : pos2[n] < pos2[q[j]]
  PROVE  Sorted(SubSeq(q, 1, i - 1) \o <<n>> \o SubSeq(q, i, Len(q)), pos2, S \cup {n})
<1> DEFINE A == {q[j] : j \in 1 .. i - 1}
           B == {q[j] : j \in i .. Len(q)}
<1>1. q \in Seq(S) /\ Len(q) \in Nat /\ \A j \in 1 .. Len(q) : q[j] \in S
  BY ElementOfSeq, LenProperties DEF Sorted
<1>2. Sorted(SubSeq(q, 1, i - 1), pos2, A)
  <2>1. 1 \in 1 .. Len(q) + 1 /\ i - 1 \in 0 .. Len(q) /\ 1 =< (i - 1) + 1
    BY <1>1
  <2> QED BY <2>1, SortedStretch
<1>3. Sorted(SubSeq(q, i, Len(q)), pos2, B)
  <2>1. Len(q) \in 0 .. Len(q) /\ i =< Len(q) + 1
    BY <1>1
  <2> QED BY <2>1, SortedStretch
<1>4. S \cup {n} = A \cup {n} \cup B
  <2>1. A \subseteq S /\ B \subseteq S
    BY <1>1
  <2>2. ASSUME NEW x \in S PROVE x \in A \cup B
    <3>1. PICK j \in 1 .. Len(q) : q[j] = x
      BY DEF Sorted
    <3>2. j \in 1 .. i - 1 \/ j \in i .. Len(q)
      BY <1>1
    <3> QED BY <3>1, <3>2
  <2> HIDE DEF A, B
  <2> QED BY <2>1, <2>2
<1>5. (\A x \in A : pos2[x] < pos2[n]) /\ (\A x \in B : pos2[n] < pos2[x])
  OBVIOUS
<1> HIDE DEF A, B
<1> QED BY <1>2, <1>3, <1>4, <1>5, SortedAround

(* A member is taken out. *)
LEMMA SortedRemove ==
  ASSUME NEW pos, NEW S, \A x \in S : pos[x] \in Int, NEW q, Sorted(q, pos, S), NEW i \in 1 .. Len(q),
         NEW pos2, SameOrder(pos, pos2, S \ {q[i]})
  PROVE  Sorted(SubSeq(q, 1, i - 1) \o SubSeq(q, i + 1, Len(q)), pos2, S \ {q[i]})
<1> DEFINE a == SubSeq(q, 1, i - 1)
           b == SubSeq(q, i + 1, Len(q))
           w == a \o b
           l == Len(q)
           T == S \ {q[i]}
<1>1. /\ q \in Seq(S) /\ l \in Nat /\ \A j \in 1 .. l : q[j] \in S
      /\ \A j, k \in 1 .. l : (j < k <=> pos[q[j]] < pos[q[k]]) /\ (q[j] = q[k] <=> j = k)
  <2>1. q \in Seq(S)
    BY DEF Sorted
  <2> QED BY <2>1, SortedOnce
<1>2. i \in Nat /\ i >= 1 /\ i =< l
  BY <1>1
<1>3. \A j \in 1 .. l : j # i => q[j] \in T
  BY <1>1
<1>4. /\ a \in Seq(T) /\ Len(a) = i - 1 /\ \A j \in 1 .. i - 1 : a[j] = q[j]
  <2>1. a = [j \in 1 .. i - 1 |-> q[j]]
    BY <1>1, <1>2
  <2>2. \A j \in 1 .. i - 1 : q[j] \in T
    BY <1>2, <1>3, <1>1
  <2> HIDE DEF a, T
  <2> QED BY <1>2, <2>1, <2>2
<1>5. /\ b \in Seq(T) /\ Len(b) = l - i /\ \A j \in 1 .. l - i : b[j] = q[i + j]
  <2>1. b = [j \in 1 .. l - i |-> q[i + j]]
    <3>1. b = [j \in 1 .. l - (i + 1) + 1 |-> q[(i + 1) + j - 1]]
      BY <1>1, <1>2
    <3>2. l - (i + 1) + 1 = l - i /\ \A j \in 1 .. l - i : (i + 1) + j - 1 = i + j
      BY <1>1, <1>2
    <3> HIDE DEF b
    <3> QED BY <3>1, <3>2
  <2>2. \A j \in 1 .. l - i : i + j \in 1 .. l /\ i + j # i
    BY <1>1, <1>2
  <2>3. \A j \in 1 .. l - i : q[i + j] \in T
    BY <1>3, <2>2
  <2>4. l - i \in Nat
    BY <1>1, <1>2
  <2> HIDE DEF b, T
  <2> QED BY <2>1, <2>3, <2>4
<1> HIDE DEF a, b, T, l
<1>6. /\ w \in Seq(T) /\ Len(w) = l - 1
      /\ \A j \in 1 .. l - 1 : w[j] = IF j < i THEN q[j] ELSE q[j + 1]
  <2>1. /\ w \in Seq(T) /\ Len(w) = Len(a) + Len(b)
        /\ \A j \in 1 .. Len(a) + Len(b) : w[j] = IF j =< Len(a) THEN a[j] ELSE b[j - Len(a)]
    BY <1>4, <1>5, ConcatProperties
  <2>2. Len(a) = i - 1 /\ Len(b) = l - i /\ Len(a) + Len(b) = l - 1
    BY <1>1, <1>2, <1>4, <1>5
  <2> HIDE DEF w
  <2>3. ASSUME NEW j \in 1 .. l - 1 PROVE w[j] = IF j < i THEN q[j] ELSE q[j + 1]
    <3>1. w[j] = IF j =< i - 1 THEN a[j] ELSE b[j - (i - 1)]
      BY <2>1, <2>2
    <3>2. CASE j < i
      <4>1. j \in 1 .. i - 1 /\ j =< i - 1
        BY <1>1, <1>2, <3>2
      <4> QED BY <1>4, <3>1, <3>2, <4>1
    <3>3. CASE ~ j < i
      <4>1. j - (i - 1) \in 1 .. l - i /\ ~ j =< i - 1 /\ i + (j - (i - 1)) = j + 1
        BY <1>1, <1>2, <3>3
      <4> QED BY <1>5, <3>1, <3>3, <4>1
    <3> QED BY <3>2, <3>3
  <2> QED BY <2>1, <2>2, <2>3
<1> HIDE DEF w
<1>7. ASSUME NEW x \in T PROVE \E j \in 1 .. Len(w) : w[j] = x
  <2>1. PICK k \in 1 .. l : q[k] = x
    BY DEF Sorted, T, l
  <2>2. k # i
    BY <2>1 DEF T
  <2>3. CASE k < i
    <3>1. k \in 1 .. l - 1
      BY <1>1, <1>2, <2>3
    <3> QED BY <1>6, <2>1, <2>3, <3>1
  <2>4. CASE i < k
    <3>1. k - 1 \in 1 .. l - 1 /\ ~ k - 1 < i /\ (k - 1) + 1 = k
      BY <1>1, <1>2, <2>4
    <3> QED BY <1>6, <2>1, <3>1
  <2> QED BY <1>1, <1>2, <2>2, <2>3, <2>4
<1>8. ASSUME NEW j \in 1 .. Len(w), NEW k \in 1 .. Len(w), j < k PROVE pos2[w[j]] < pos2[w[k]]
  <2> DEFINE u(m) == IF m < i THEN m ELSE m + 1
  <2>1. /\ u(j) \in 1 .. l /\ u(k) \in 1 .. l /\ u(j) < u(k) /\ u(j) # i /\ u(k) # i
        /\ w[j] = q[u(j)] /\ w[k] = q[u(k)]
    BY <1>1, <1>2, <1>6, <1>8
  <2> HIDE DEF u
  <2>2. pos[q[u(j)]] < pos[q[u(k)]] /\ q[u(j)] \in T /\ q[u(k)] \in T
    BY <1>1, <1>3, <2>1
  <2> QED BY <2>1, <2>2 DEF SameOrder, T
<1>9. Sorted(w, pos2, T)
  BY <1>6, <1>7, <1>8 DEF Sorted
<1> QED BY <1>9 DEF w, a, b, T, l

(* A member is exchanged for another in its place. *)
LEMMA SortedExchange ==
  ASSUME NEW pos, NEW S, \A x \in S : pos[x] \in Int, NEW q, Sorted(q, pos, S), NEW i \in 1 .. Len(q),
         NEW w, w \notin S, NEW pos2, pos2[w] = pos[q[i]], \A x \in S : pos2[x] = pos[x]
  PROVE  Sorted([q EXCEPT ![i] = w], pos2, (S \ {q[i]}) \cup {w})
<1> DEFINE r == [q EXCEPT ![i] = w]
           T == (S \ {q[i]}) \cup {w}
           l == Len(q)
<1>1. /\ q \in Seq(S) /\ l \in Nat /\ \A j \in 1 .. l : q[j] \in S
      /\ \A j, k \in 1 .. l : (j < k <=> pos[q[j]] < pos[q[k]]) /\ (q[j] = q[k] <=> j = k)
  <2>1. q \in Seq(S)
    BY DEF Sorted
  <2> QED BY <2>1, SortedOnce
<1>2. r = [j \in 1 .. l |-> IF j = i THEN w ELSE q[j]]
  <2>1. q = [j \in 1 .. l |-> q[j]]
    BY <1>1
  <2> QED BY <2>1
<1>3. \A j \in 1 .. l : r[j] \in T /\ r[j] = IF j = i THEN w ELSE q[j]
  BY <1>1, <1>2
<1> HIDE DEF r, T
<1>4. r \in Seq(T) /\ Len(r) = l
  BY <1>1, <1>2, <1>3
<1>5. \A x \in T : \E j \in 1 .. Len(r) : r[j] = x
  <2> SUFFICES ASSUME NEW x \in T PROVE \E j \in 1 .. l : r[j] = x
    BY <1>4
  <2>1. CASE x = w
    BY <1>3, <2>1
  <2>2. CASE x \in S /\ x # q[i]
    <3>1. PICK j \in 1 .. l : q[j] = x
      BY <2>2 DEF Sorted
    <3> QED BY <1>3, <2>2, <3>1
  <2> QED BY <2>1, <2>2 DEF T
<1>6. \A j \in 1 .. l : pos2[r[j]] = pos[q[j]]
  BY <1>1, <1>3
<1>7. \A j, k \in 1 .. Len(r) : j < k => pos2[r[j]] < pos2[r[k]]
  BY <1>1, <1>4, <1>6
<1>8. Sorted(r, pos2, T)
  BY <1>4, <1>5, <1>7 DEF Sorted
<1> QED BY <1>8 DEF r, T

(* The subtree at the end of a link, which may be null. *)
Part(t, n) == IF n = NULL THEN {} ELSE Subtree(t, n)

(* The sequence of a node, from those of its children. *)
LEMMA SortedJoin ==
  ASSUME NEW t, NEW pos, Shape(t, pos), NEW n \in Nodes,
         NEW a, Sorted(a, pos, Part(t, t.kid[n]["left"])),
         NEW b, Sorted(b, pos, Part(t, t.kid[n]["right"]))
  PROVE  Sorted(a \o <<n>> \o b, pos, Part(t, n))
<1> DEFINE A == Part(t, t.kid[n]["left"])
           B == Part(t, t.kid[n]["right"])
           S == A \cup {n} \cup B
<1>1. n # NULL /\ pos[n] \in Int /\ pos \in [Nodes -> Int] /\ "left" \in Sides /\ "right" \in Sides
  BY NullAssumption DEF Shape, Sides
<1>2. \A x \in A : x \in Nodes /\ pos[x] < pos[n]
  BY <1>1, SubtreeSides DEF Part
<1>3. \A x \in B : x \in Nodes /\ pos[n] < pos[x]
  BY <1>1, SubtreeSides DEF Part
<1>4. Part(t, n) = S
  <2>1. ASSUME NEW x PROVE x \in Subtree(t, n) <=> x \in S
    <3>1. x \in Subtree(t, n) <=>
            x = n \/ \E s \in Sides : t.kid[n][s] # NULL /\ x \in Subtree(t, t.kid[n][s])
      BY SubtreeParts
    <3> QED BY <3>1 DEF Sides, Part
  <2> QED BY <1>1, <2>1 DEF Part
<1>5. \A x \in S : pos[x] \in Int
  BY <1>1, <1>2, <1>3
<1>6. Sorted(a, pos, A) /\ Sorted(b, pos, B)
  OBVIOUS
<1> HIDE DEF A, B
<1>7. Sorted(a \o <<n>> \o b, pos, S)
  BY <1>2, <1>3, <1>5, <1>6, SortedAround
<1> QED BY <1>4, <1>7

(* InOrder reads the nodes of the tree by their positions. *)
LEMMA InOrderSorted ==
  ASSUME NEW t, NEW pos, Shape(t, pos), IsFiniteSet(InTree(t))
  PROVE  Sorted(InOrder(t), pos, InTree(t))
<1> DEFINE Links == Nodes \cup {NULL}
           Rest(h) == [n \in Links |->
             IF n = NULL THEN <<>> ELSE h[t.kid[n]["left"]] \o <<n>> \o h[t.kid[n]["right"]]]
           Good(n, q) == Sorted(q, pos, Part(t, n))
           f == [n \in Links |-> IF n = NULL THEN <<>> ELSE CHOOSE q : Good(n, q)]
<1>1. /\ NULL \notin Nodes /\ pos \in [Nodes -> Int] /\ "left" \in Sides /\ "right" \in Sides
      /\ \A n \in Nodes, s \in Sides : t.kid[n][s] \in Links
  BY NullAssumption, KidsApart DEF Shape, Sides
<1>2. \A n \in Links : \A x \in Part(t, n) : x \in Nodes /\ pos[x] \in Int
  <2>1. \A n \in Nodes : Subtree(t, n) \subseteq Nodes
    BY DEF Subtree
  <2> QED BY <1>1, <2>1 DEF Part
<1>3. Good(NULL, <<>>) /\ \A q : Good(NULL, q) => q = <<>>
  <2>1. <<>> \in Seq({}) /\ Len(<<>>) = 0
    OBVIOUS
  <2>2. Sorted(<<>>, pos, {})
    BY <2>1 DEF Sorted
  <2>3. Part(t, NULL) = {}
    BY DEF Part
  <2>4. \A q : Sorted(q, pos, {}) => q = <<>>
    BY <2>2, SortedUnique
  <2> QED BY <2>2, <2>3, <2>4
<1>4. \A n \in Nodes : \A a, b : Good(t.kid[n]["left"], a) /\ Good(t.kid[n]["right"], b)
                               => Good(n, a \o <<n>> \o b)
  BY SortedJoin
<1> HIDE DEF Good
<1>5. ASSUME NEW n \in Links, NEW q, NEW r, Good(n, q), Good(n, r) PROVE q = r
  BY <1>2, <1>5, SortedUnique DEF Good
<1>6. \A n \in Nodes : \E q : Good(n, q)
  <2> DEFINE S == {n \in Nodes : \E q : Good(n, q)}
  <2>1. ASSUME NEW n \in Nodes, \A s \in Sides : t.kid[n][s] # NULL => t.kid[n][s] \in S
        PROVE  n \in S
    <3>1. \A s \in Sides : \E q : Good(t.kid[n][s], q)
      BY <1>3, <2>1
    <3> QED BY <1>1, <1>4, <3>1
  <2>2. S \in SUBSET Nodes
    OBVIOUS
  <2>3. S = Nodes
    <3> HIDE DEF S
    <3> QED BY <2>1, <2>2, TreeInduction
  <2> QED BY <2>3
<1>7. \A n \in Links : Good(n, f[n])
  BY <1>1, <1>3, <1>6
<1> HIDE DEF f
<1>8. \A n \in Links : f[n] = Rest(f)[n]
  <2> SUFFICES ASSUME NEW n \in Links PROVE f[n] = Rest(f)[n]
    OBVIOUS
  <2>1. CASE n = NULL
    BY <1>3, <1>7, <2>1
  <2>2. CASE n # NULL
    <3>1. Good(n, f[t.kid[n]["left"]] \o <<n>> \o f[t.kid[n]["right"]])
      BY <1>1, <1>4, <1>7, <2>2
    <3> QED BY <1>5, <1>7, <2>2, <3>1
  <2> QED BY <2>1, <2>2
<1>9. f = Rest(f)
  <2>1. f = [n \in Links |-> f[n]]
    BY DEF f
  <2>2. [n \in Links |-> f[n]] = [n \in Links |-> Rest(f)[n]]
    <3> HIDE DEF Rest, Links
    <3> QED BY <1>8
  <2>3. [n \in Links |-> Rest(f)[n]] = Rest(f)
    OBVIOUS
  <2> QED BY <2>1, <2>2, <2>3
<1>10. PICK h : h = Rest(h) /\ h = CHOOSE seq : seq = Rest(seq)
  <2> HIDE DEF Rest
  <2> QED BY <1>9
<1>11. InOrder(t) = h[t.root]
  BY <1>10, Zenon DEF InOrder
<1>12. h[NULL] = <<>> /\ \A n \in Nodes :
         h[n] = h[t.kid[n]["left"]] \o <<n>> \o h[t.kid[n]["right"]]
  BY <1>1, <1>10
<1>13. \A n \in Nodes : Good(n, h[n])
  <2> DEFINE S == {n \in Nodes : Good(n, h[n])}
  <2>1. ASSUME NEW n \in Nodes, \A s \in Sides : t.kid[n][s] # NULL => t.kid[n][s] \in S
        PROVE  n \in S
    <3>1. \A s \in Sides : Good(t.kid[n][s], h[t.kid[n][s]])
      BY <1>3, <1>12, <2>1
    <3>2. Good(n, h[t.kid[n]["left"]] \o <<n>> \o h[t.kid[n]["right"]])
      BY <1>1, <1>4, <3>1
    <3>3. h[n] = h[t.kid[n]["left"]] \o <<n>> \o h[t.kid[n]["right"]]
      BY <1>12
    <3> HIDE DEF Rest
    <3>4. Good(n, h[n])
      BY <3>2, <3>3, Zenon
    <3> QED BY <3>4
  <2>2. S \in SUBSET Nodes
    OBVIOUS
  <2>3. S = Nodes
    <3> HIDE DEF S
    <3> QED BY <2>1, <2>2, TreeInduction
  <2> QED BY <2>3
<1>14. t.root \in Links /\ Part(t, t.root) = InTree(t)
  <2>1. t.root \in Links
    BY DEF Shape, Trees
  <2> QED BY <2>1, TreeIsSubtree DEF Part
<1>15. Good(t.root, h[t.root])
  BY <1>3, <1>12, <1>13, <1>14
<1> QED BY <1>11, <1>14, <1>15 DEF Good

(* The keys rise from left to right, or stay. *)
KeysRise(t, pos, key) == \A a, b \in InTree(t) : pos[a] < pos[b] => key[a] =< key[b]

(* A new node below p on side s comes behind the keys up to its own.       *)
PlacedRight(t, pos, key, n, p, s) ==
  \A m \in InTree(t) :
    key[m] =< key[n] <=> pos[m] < pos[p] \/ (s = "right" /\ m = p)

(* The search ends where there is no child yet, at the place of its key.   *)
LEMMA PlaceFree ==
  ASSUME NEW t, NEW pos, Shape(t, pos), IsFiniteSet(InTree(t)), t.root # NULL,
         NEW key \in [Nodes -> Int], KeysRise(t, pos, key), NEW n \in Nodes
  PROVE  \E p \in InTree(t), s \in Sides :
           Place(t, key, n) = <<p, s>> /\ t.kid[p][s] = NULL /\ PlacedRight(t, pos, key, n, p, s)
<1> DEFINE down == [m \in Nodes |-> IF key[n] < key[m] THEN "left" ELSE "right"]
           end  == [m \in Nodes |-> <<m, down[m]>>]
           Rest(f) == [m \in Nodes |->
             LET k == t.kid[m][IF key[n] < key[m] THEN "left" ELSE "right"]
             IN IF k = NULL THEN <<m, IF key[n] < key[m] THEN "left" ELSE "right">> ELSE f[k]]
<1>1. down \in [Nodes -> Sides]
  BY DEF Sides
<1>2. PICK f : f = Rest(f) /\ f = CHOOSE place : place = Rest(place)
  <2>1. PICK f : Way(t, down, end, f)
    <3> HIDE DEF down, end
    <3> QED BY <1>1, WayExists
  <2>2. f = Rest(f)
    BY <2>1 DEF Way
  <2> HIDE DEF Rest
  <2> QED BY <2>2
<1>3. Place(t, key, n) = f[t.root]
  BY <1>2, Zenon DEF Place, PlaceBy
<1> DEFINE Turns(m) == \A x \in InTree(t) \ Subtree(t, m) :
             (pos[x] < pos[m] => key[x] =< key[n]) /\ (pos[m] < pos[x] => key[n] < key[x])
           Found(m, at) == \E p \in InTree(t), s \in Sides :
             at = <<p, s>> /\ t.kid[p][s] = NULL /\ PlacedRight(t, pos, key, n, p, s)
           S == {m \in Nodes : m \in InTree(t) /\ Turns(m) => Found(m, f[m])}
<1>4. ASSUME NEW m \in InTree(t), Turns(m), \A s \in Sides : t.kid[m][s] # NULL => t.kid[m][s] \in S
      PROVE  Found(m, f[m])
  <2> DEFINE d == IF key[n] < key[m] THEN "left" ELSE "right"
  <2>1. f[m] = IF t.kid[m][d] = NULL THEN <<m, d>> ELSE f[t.kid[m][d]]
    <3>1. f[m] = Rest(f)[m]
      BY <1>2
    <3> QED BY <3>1 DEF InTree
  <2>2. /\ d \in Sides /\ m \in Nodes /\ pos \in [Nodes -> Int] /\ InTree(t) \subseteq Nodes
        /\ (d = "left" <=> key[n] < key[m]) /\ (d = "right" <=> ~ key[n] < key[m])
    BY DEF Sides, InTree, Shape
  <2> HIDE DEF d
  <2>3. ASSUME NEW x \in InTree(t), x # m
        PROVE  /\ pos[x] < pos[m] \/ pos[m] < pos[x]
               /\ ~ (pos[x] < pos[m] /\ pos[m] < pos[x])
               /\ pos[x] < pos[m] /\ d = "right" => key[x] =< key[n]
               /\ pos[m] < pos[x] /\ d = "left" => key[n] < key[x]
    <3>1. pos[x] # pos[m] /\ pos[x] \in Int /\ pos[m] \in Int
      BY <2>2, <2>3, PositionsDiffer
    <3>2. key[x] \in Int /\ key[m] \in Int /\ key[n] \in Int
      BY <2>2
    <3>3. (pos[x] < pos[m] => key[x] =< key[m]) /\ (pos[m] < pos[x] => key[m] =< key[x])
      BY DEF KeysRise
    <3> QED BY <2>2, <3>1, <3>2, <3>3
  <2>4. CASE t.kid[m][d] = NULL
    <3>1. ASSUME NEW x \in InTree(t) PROVE key[x] =< key[n] <=> pos[x] < pos[m] \/ (d = "right" /\ x = m)
      <4>1. key[x] \in Int /\ key[m] \in Int /\ key[n] \in Int /\ pos[m] \in Int
        BY <2>2
      <4>2. CASE x = m
        BY <2>2, <4>1, <4>2
      <4>3. CASE x # m /\ x \in Subtree(t, m)
        <5>1. PICK e \in Sides : t.kid[m][e] # NULL /\ x \in Subtree(t, t.kid[m][e])
          BY <2>2, <4>3, SubtreeParts
        <5>2. e # d /\ (e = "left" => pos[x] < pos[m]) /\ (e = "right" => pos[m] < pos[x])
          BY <2>2, <2>4, <5>1, SubtreeSides
        <5> QED BY <2>2, <2>3, <4>1, <4>3, <5>1, <5>2 DEF Sides
      <4>4. CASE x \notin Subtree(t, m)
        <5>1. x # m
          BY <2>2, <4>4, SubtreeParts
        <5>2. (pos[x] < pos[m] => key[x] =< key[n]) /\ (pos[m] < pos[x] => key[n] < key[x])
          BY <1>4, <4>4
        <5> QED BY <2>2, <2>3, <4>1, <5>1, <5>2
      <4> QED BY <4>2, <4>3, <4>4
    <3>2. PlacedRight(t, pos, key, n, m, d)
      BY <3>1 DEF PlacedRight
    <3> QED BY <2>1, <2>2, <2>4, <3>2
  <2>5. CASE t.kid[m][d] # NULL
    <3>1. PICK k \in InTree(t) : k = t.kid[m][d] /\ k # NULL /\ k \in S /\ k # m
      BY <1>4, <2>2, <2>5, KidsApart
    <3>2. k \in Nodes /\ k \in Subtree(t, k)
      BY <2>2, SubtreeParts
    <3>3. (d = "left" => pos[k] < pos[m]) /\ (d = "right" => pos[m] < pos[k])
            /\ pos[k] \in Int /\ pos[m] \in Int
      BY <2>2, <3>1, <3>2, SubtreeSides
    <3>4. ASSUME NEW x \in InTree(t) \ Subtree(t, k)
          PROVE  (pos[x] < pos[k] => key[x] =< key[n]) /\ (pos[k] < pos[x] => key[n] < key[x])
      <4>1. pos[x] \in Int /\ key[x] \in Int /\ key[m] \in Int /\ key[n] \in Int
        BY <2>2
      <4>2. CASE x = m
        BY <2>2, <3>3, <4>1, <4>2 DEF Sides
      <4>3. CASE x # m /\ x \in Subtree(t, m)
        <5>1. PICK e \in Sides : t.kid[m][e] # NULL /\ x \in Subtree(t, t.kid[m][e])
          BY <2>2, <4>3, SubtreeParts
        <5>2. e # d /\ (e = "left" => pos[x] < pos[m]) /\ (e = "right" => pos[m] < pos[x])
          BY <2>2, <3>1, <5>1, SubtreeSides
        <5>3. (d = "left" => pos[m] < pos[x] /\ key[n] < key[x])
                /\ (d = "right" => pos[x] < pos[m] /\ key[x] =< key[n])
          BY <2>2, <2>3, <4>3, <5>1, <5>2 DEF Sides
        <5> QED BY <2>2, <3>3, <4>1, <5>3 DEF Sides
      <4>4. CASE x \notin Subtree(t, m)
        <5>1. (pos[x] < pos[m] => key[x] =< key[n]) /\ (pos[m] < pos[x] => key[n] < key[x])
          BY <1>4, <4>4
        <5>2. PICK lo, hi \in [Nodes -> Int] : Nested(t, pos, lo, hi)
          BY DEF Shape, Ordered
        <5>3. k \in Subtree(t, m)
          BY <2>2, <3>1, SubtreeParts DEF HoldsKids
        <5>4. lo[m] =< pos[k] /\ pos[k] =< hi[m] /\ lo[m] =< pos[m] /\ pos[m] =< hi[m]
          BY <2>2, <5>2, <5>3, SubtreeSpans DEF Nested
        <5>5. ~ (lo[m] =< pos[x] /\ pos[x] =< hi[m])
          BY <4>4, <5>2, SpanHolds
        <5>6. lo[m] \in Int /\ hi[m] \in Int
          BY <2>2, <5>2
        <5> QED BY <3>3, <4>1, <5>1, <5>4, <5>5, <5>6
      <4> QED BY <4>2, <4>3, <4>4
    <3>5. Found(k, f[k])
      <4>1. Turns(k)
        BY <3>4
      <4> HIDE DEF Turns, Found
      <4> QED BY <3>1, <4>1
    <3> QED BY <2>1, <2>5, <3>1, <3>5
  <2> QED BY <2>4, <2>5
<1>5. S = Nodes
  <2>1. S \in SUBSET Nodes
    OBVIOUS
  <2>2. ASSUME NEW m \in Nodes, \A s \in Sides : t.kid[m][s] # NULL => t.kid[m][s] \in S
        PROVE  m \in S
    <3> SUFFICES ASSUME m \in InTree(t), Turns(m) PROVE Found(m, f[m])
      OBVIOUS
    <3> HIDE DEF S, Turns, Found
    <3> QED BY <1>4, <2>2
  <2> HIDE DEF S
  <2> QED BY <2>1, <2>2, TreeInduction
<1>6. t.root \in InTree(t) /\ t.root \in Nodes /\ Turns(t.root)
  BY TreeIsSubtree DEF InTree
<1>7. Found(t.root, f[t.root])
  <2> HIDE DEF Turns, Found
  <2> QED BY <1>5, <1>6
<1> QED BY <1>3, <1>7

(***************************************************************************)
(* Heights in black nodes.                                                 *)
(***************************************************************************)
(* The height of the child on a side of n, which may be missing. *)
KidHeight(t, bh, n, s) == IF t.kid[n][s] = NULL THEN 0 ELSE bh[t.kid[n][s]]

(* With the gap counted: one black is missing below q on side e.           *)
SideHeight(t, bh, q, e, n, s) ==
  KidHeight(t, bh, n, s) + (IF n = q /\ s = e THEN 1 ELSE 0)

(* bh counts the black nodes on every path down from a node, and both      *)
(* sides of each node agree, with the gap counted.                         *)
Even(t, bh, q, e) ==
  \A n \in Nodes :
    /\ SideHeight(t, bh, q, e, n, "left") = SideHeight(t, bh, q, e, n, "right")
    /\ bh[n] = SideHeight(t, bh, q, e, n, "left") + (IF t.red[n] THEN 0 ELSE 1)

(* There are such heights: all paths down hold the same number of black    *)
(* nodes, but for one less below q on side e.                              *)
Balanced(t, q, e) == \E bh \in [Nodes -> Nat] : Even(t, bh, q, e)

(* BlackHeight is defined, and counts what Even says. *)
LEMMA BalancedHeight ==
  ASSUME NEW t, NEW pos, Shape(t, pos), NEW q, NEW e, Balanced(t, q, e)
  PROVE  BlackHeight(t, <<q, e>>) # -1
<1> DEFINE gap == <<q, e>>
           side(h, n, s) ==
             LET k == t.kid[n][s]
             IN (IF k = NULL THEN 0 ELSE h[k]) + (IF gap = <<n, s>> THEN 1 ELSE 0)
           Rest(h) == [n \in Nodes |->
             LET l == side(h, n, "left")
                 r == side(h, n, "right")
             IN IF l # r \/ l < 0 THEN -1 ELSE l + (IF t.red[n] THEN 0 ELSE 1)]
<1>1. PICK bh \in [Nodes -> Nat] : Even(t, bh, q, e)
  BY DEF Balanced
<1>2. ASSUME NEW n \in Nodes
      PROVE  /\ side(bh, n, "left") \in Nat /\ side(bh, n, "left") = side(bh, n, "right")
             /\ bh[n] = side(bh, n, "left") + (IF t.red[n] THEN 0 ELSE 1)
  <2>1. \A s \in Sides : t.kid[n][s] # NULL => bh[t.kid[n][s]] \in Nat
    BY <1>1, KidsApart
  <2>2. side(bh, n, "left") \in Nat
    BY <2>1 DEF Sides
  <2>3. \A s \in Sides : side(bh, n, s) = SideHeight(t, bh, q, e, n, s)
    BY DEF SideHeight, KidHeight
  <2> HIDE DEF side
  <2> QED BY <1>1, <2>2, <2>3 DEF Even, Sides
<1>3. bh = Rest(bh)
  <2> HIDE DEF side
  <2> QED BY <1>1, <1>2
<1>4. PICK h : h = Rest(h) /\ h = CHOOSE height : height = Rest(height)
  <2> HIDE DEF Rest
  <2> QED BY <1>3
<1>5. BlackHeight(t, <<q, e>>) = IF t.root = NULL THEN 0 ELSE h[t.root]
  BY <1>4, Zenon DEF BlackHeight
<1> DEFINE S == {n \in Nodes : h[n] = bh[n]}
<1>6. ASSUME NEW n \in Nodes, \A s \in Sides : t.kid[n][s] # NULL => t.kid[n][s] \in S
      PROVE  n \in S
  <2>1. \A s \in Sides : side(h, n, s) = side(bh, n, s)
    BY <1>6
  <2>2. h[n] = Rest(h)[n]
    BY <1>4
  <2> HIDE DEF side
  <2>3. h[n] = bh[n]
    BY <1>2, <2>1, <2>2 DEF Sides
  <2> QED BY <2>3
<1>7. S = Nodes
  <2> HIDE DEF S
  <2>1. S \in SUBSET Nodes
    BY DEF S
  <2> QED BY <1>6, <2>1, TreeInduction
<1>8. t.root # NULL => t.root \in Nodes
  BY DEF Shape, Trees
<1> QED BY <1>1, <1>5, <1>7, <1>8

(* The leftmost node below m: itself, or the left child of its parent.     *)
LEMMA LeftDeepEnds ==
  ASSUME NEW t, NEW pos, Shape(t, pos), NEW lo \in [Nodes -> Int], NEW hi \in [Nodes -> Int],
         Nested(t, pos, lo, hi), NEW m \in InTree(t)
  PROVE  /\ LeftDeep(t, m) \in InTree(t) /\ t.kid[LeftDeep(t, m)]["left"] = NULL
         /\ lo[m] =< lo[LeftDeep(t, m)]
         /\ \/ LeftDeep(t, m) = m
            \/ /\ t.up[LeftDeep(t, m)] \in InTree(t)
               /\ t.kid[t.up[LeftDeep(t, m)]]["left"] = LeftDeep(t, m)
<1> DEFINE down == [k \in Nodes |-> "left"]
           end  == [k \in Nodes |-> k]
           Rest(f) == [k \in Nodes |->
             IF t.kid[k]["left"] = NULL THEN k ELSE f[t.kid[k]["left"]]]
<1>1. down \in [Nodes -> Sides]
  BY DEF Sides
<1>2. PICK f : f = Rest(f) /\ f = CHOOSE deep : deep = Rest(deep)
  <2>1. PICK f : Way(t, down, end, f)
    <3> HIDE DEF down, end
    <3> QED BY <1>1, WayExists
  <2>2. f = Rest(f)
    BY <2>1 DEF Way
  <2> HIDE DEF Rest
  <2> QED BY <2>2
<1>3. LeftDeep(t, m) = f[m]
  BY <1>2, Zenon DEF LeftDeep
<1> DEFINE P(k, e) == /\ e \in InTree(t) /\ t.kid[e]["left"] = NULL /\ lo[k] =< lo[e]
                      /\ e = k \/ (t.up[e] \in InTree(t) /\ t.kid[t.up[e]]["left"] = e)
           S == {k \in Nodes : k \in InTree(t) => P(k, f[k])}
<1>4. ASSUME NEW k \in Nodes, \A s \in Sides : t.kid[k][s] # NULL => t.kid[k][s] \in S
      PROVE  k \in S
  <2> SUFFICES ASSUME k \in InTree(t) PROVE P(k, f[k])
    OBVIOUS
  <2>1. CASE t.kid[k]["left"] = NULL
    <3>1. f[k] = k
      BY <1>2, <2>1
    <3>2. lo[k] =< lo[k]
      OBVIOUS
    <3> QED BY <2>1, <3>1, <3>2
  <2>2. CASE t.kid[k]["left"] # NULL
    <3>1. PICK l \in Nodes : l = t.kid[k]["left"]
      BY <2>2, KidsApart DEF Sides
    <3>2. f[k] = f[l]
      BY <1>2, <2>2, <3>1
    <3>3. l \in InTree(t) /\ t.up[l] = k
      BY <2>2, <3>1, KidsApart DEF Sides
    <3>4. P(l, f[l])
      BY <1>4, <2>2, <3>1, <3>3 DEF Sides
    <3>5. lo[k] =< lo[l]
      BY <2>2, <3>1 DEF Nested
    <3>6. lo[k] \in Int /\ lo[l] \in Int /\ lo[f[l]] \in Int
      BY <3>1, <3>4 DEF InTree
    <3>7. lo[k] =< lo[f[l]]
      BY <3>4, <3>5, <3>6
    <3> QED BY <3>1, <3>2, <3>3, <3>4, <3>7
  <2> QED BY <2>1, <2>2
<1>5. S = Nodes
  <2> HIDE DEF S
  <2>1. S \in SUBSET Nodes
    BY DEF S
  <2> QED BY <1>4, <2>1, TreeInduction
<1>6. m \in Nodes
  BY DEF InTree
<1> QED BY <1>3, <1>5, <1>6

(***************************************************************************)
(* The ends of a subtree.                                                  *)
(***************************************************************************)

(* The recursion of Extreme, which ends because the tree does. *)
LEMMA ExtremeStep ==
  ASSUME NEW t, NEW pos, Shape(t, pos), NEW s \in Sides, NEW m \in Nodes
  PROVE  Extreme(t, m, s) = IF t.kid[m][s] = NULL THEN m ELSE Extreme(t, t.kid[m][s], s)
<1> DEFINE down == [k \in Nodes |-> s]
           end  == [k \in Nodes |-> k]
           Rest(f) == [k \in Nodes |-> IF t.kid[k][s] = NULL THEN k ELSE f[t.kid[k][s]]]
<1>1. down \in [Nodes -> Sides] /\ NULL \notin Nodes /\ t.kid[m][s] \in Nodes \cup {NULL}
  BY NullAssumption, KidsApart
<1>2. PICK f : f = Rest(f) /\ f = CHOOSE deep : deep = Rest(deep)
  <2>1. PICK f : Way(t, down, end, f)
    <3> HIDE DEF down, end
    <3> QED BY <1>1, WayExists
  <2>2. f = Rest(f)
    BY <2>1 DEF Way
  <2> HIDE DEF Rest
  <2> QED BY <2>2
<1>3. \A k \in Nodes : Extreme(t, k, s) = f[k]
  <2> SUFFICES ASSUME NEW k \in Nodes PROVE Extreme(t, k, s) = f[k]
    OBVIOUS
  <2>1. k # NULL
    BY <1>1
  <2> QED BY <1>2, <2>1, Zenon DEF Extreme
<1>4. f[m] = IF t.kid[m][s] = NULL THEN m ELSE f[t.kid[m][s]]
  BY <1>2
<1> HIDE DEF Rest
<1> QED BY <1>1, <1>3, <1>4

(* The deepest node on the left is the end on the left. *)
LEMMA LeftDeepIsExtreme ==
  ASSUME NEW t, NEW n \in Nodes
  PROVE  LeftDeep(t, n) = Extreme(t, n, "left")
<1> DEFINE f == CHOOSE deep : deep = [m \in Nodes |->
                   IF t.kid[m]["left"] = NULL THEN m ELSE deep[t.kid[m]["left"]]]
<1>1. n # NULL
  BY NullAssumption
<1>2. LeftDeep(t, n) = f[n]
  BY Zenon DEF LeftDeep
<1>3. Extreme(t, n, "left") = IF n = NULL THEN NULL ELSE f[n]
  BY Zenon DEF Extreme
<1> HIDE DEF f
<1> QED BY <1>1, <1>2, <1>3

(* The end of a subtree on a side is in it, and the rest lies on the other *)
(* side of it.                                                             *)
LEMMA ExtremeIsEnd ==
  ASSUME NEW t, NEW pos, Shape(t, pos), NEW s \in Sides, NEW n \in Nodes
  PROVE  /\ Extreme(t, n, s) \in Subtree(t, n) /\ t.kid[Extreme(t, n, s)][s] = NULL
         /\ \A x \in Subtree(t, n) : x # Extreme(t, n, s) =>
              /\ s = "left" => pos[Extreme(t, n, s)] < pos[x]
              /\ s = "right" => pos[x] < pos[Extreme(t, n, s)]
<1> DEFINE Before(a, b) == (s = "left" => pos[a] < pos[b]) /\ (s = "right" => pos[b] < pos[a])
           P(k, e) == /\ e \in Subtree(t, k) /\ t.kid[e][s] = NULL
                      /\ \A x \in Subtree(t, k) : x # e => Before(e, x)
           S == {k \in Nodes : P(k, Extreme(t, k, s))}
<1>1. /\ \A k \in Nodes, e \in Sides : t.kid[k][e] # NULL => t.kid[k][e] \in Nodes
      /\ pos \in [Nodes -> Int] /\ s \in {"left", "right"}
  BY KidsApart DEF Shape, Sides
<1>2. ASSUME NEW k \in Nodes, \A e \in Sides : t.kid[k][e] # NULL => t.kid[k][e] \in S
      PROVE  P(k, Extreme(t, k, s))
  <2>1. /\ k \in Subtree(t, k) /\ Subtree(t, k) \subseteq Nodes
        /\ \A x : x \in Subtree(t, k) <=>
             x = k \/ \E e \in Sides : t.kid[k][e] # NULL /\ x \in Subtree(t, t.kid[k][e])
    BY SubtreeParts
  <2>2. \A e \in Sides : t.kid[k][e] # NULL => \A x \in Subtree(t, t.kid[k][e]) :
          /\ e = "left" => pos[x] < pos[k]
          /\ e = "right" => pos[k] < pos[x]
    BY SubtreeSides
  <2>3. CASE t.kid[k][s] = NULL
    <3>1. Extreme(t, k, s) = k
      BY <2>3, ExtremeStep
    <3>2. ASSUME NEW x \in Subtree(t, k), x # k PROVE Before(k, x)
      <4>1. PICK e \in Sides : t.kid[k][e] # NULL /\ x \in Subtree(t, t.kid[k][e])
        BY <2>1, <3>2
      <4>2. e # s /\ e \in {"left", "right"}
        BY <2>3, <4>1 DEF Sides
      <4> QED BY <1>1, <2>2, <4>1, <4>2
    <3> HIDE DEF Before
    <3> QED BY <2>1, <2>3, <3>1, <3>2
  <2>4. CASE t.kid[k][s] # NULL
    <3>1. PICK c \in Nodes : c = t.kid[k][s] /\ c \in S
      BY <1>1, <1>2, <2>4
    <3>2. PICK z : z = Extreme(t, k, s) /\ z = Extreme(t, c, s)
      BY <2>4, <3>1, ExtremeStep
    <3>3. P(c, z)
      BY <3>1, <3>2
    <3>4. z \in Subtree(t, k) /\ z \in Nodes
      BY <2>1, <2>4, <3>1, <3>3
    <3>5. (s = "left" => pos[z] < pos[k]) /\ (s = "right" => pos[k] < pos[z])
      BY <2>2, <2>4, <3>1, <3>3
    <3>6. ASSUME NEW x \in Subtree(t, k), x # z PROVE Before(z, x)
      <4>1. CASE x = k
        BY <3>5, <4>1
      <4>2. CASE x # k
        <5>1. PICK e \in Sides : t.kid[k][e] # NULL /\ x \in Subtree(t, t.kid[k][e])
          BY <2>1, <4>2
        <5>2. CASE e = s
          BY <3>1, <3>3, <3>6, <5>1, <5>2
        <5>3. CASE e # s
          <6>1. (e = "left" => pos[x] < pos[k]) /\ (e = "right" => pos[k] < pos[x])
            BY <2>2, <5>1
          <6>2. pos[x] \in Int /\ pos[k] \in Int /\ pos[z] \in Int /\ e \in {"left", "right"}
            BY <1>1, <2>1, <3>4 DEF Sides
          <6> QED BY <1>1, <3>5, <5>3, <6>1, <6>2
        <5> QED BY <5>2, <5>3
      <4> QED BY <4>1, <4>2
    <3> HIDE DEF Before
    <3> QED BY <3>2, <3>3, <3>4, <3>6
  <2> HIDE DEF P
  <2> QED BY <2>3, <2>4
<1>3. S = Nodes
  <2>1. S \in SUBSET Nodes
    OBVIOUS
  <2>2. ASSUME NEW k \in Nodes, \A e \in Sides : t.kid[k][e] # NULL => t.kid[k][e] \in S
        PROVE  k \in S
    BY <1>2, <2>2
  <2> HIDE DEF S
  <2> QED BY <2>1, <2>2, TreeInduction
<1> QED BY <1>3

(* Every node of a finite tree that lies behind n is either behind all of  *)
(* n's right subtree or in it.                                             *)
LEMMA BehindSubtree ==
  ASSUME NEW t, NEW pos, Shape(t, pos), IsFiniteSet(InTree(t)), NEW n \in InTree(t),
         NEW k \in Nodes, k = t.kid[n]["right"], NEW x \in InTree(t), pos[n] < pos[x]
  PROVE  x = Extreme(t, k, "left") \/ pos[Extreme(t, k, "left")] < pos[x]
<1> DEFINE z == Extreme(t, k, "left")
<1>1. "right" \in Sides /\ "left" \in Sides /\ k # NULL /\ n \in Nodes /\ x \in Nodes
  BY NullAssumption DEF Sides, InTree
<1>2. PICK lo, hi \in [Nodes -> Int] : Nested(t, pos, lo, hi)
  BY DEF Shape, Ordered
<1>3. z \in Subtree(t, k) /\ \A y \in Subtree(t, k) : y # z => pos[z] < pos[y]
  BY <1>1, ExtremeIsEnd
<1> HIDE DEF z
<1>4. z \in Subtree(t, n) /\ z \in Nodes
  <2>1. z \in Subtree(t, t.kid[n]["right"]) /\ t.kid[n]["right"] # NULL
    BY <1>1, <1>3
  <2> QED BY <1>1, <2>1, SubtreeParts
<1>5. pos[z] =< hi[n]
  BY <1>1, <1>2, <1>4, SubtreeSpans
<1>6. lo[n] =< pos[n]
  BY <1>1, <1>2 DEF Nested
<1>7. /\ pos[z] \in Int /\ pos[x] \in Int /\ pos[n] \in Int
      /\ lo[n] \in Int /\ hi[n] \in Int
  BY <1>1, <1>2, <1>4 DEF Shape
<1>8. SUFFICES ASSUME pos[x] =< pos[z] PROVE x = z
  BY <1>7 DEF z
<1>9. x \in Subtree(t, n)
  <2>1. lo[n] =< pos[x] /\ pos[x] =< hi[n]
    BY <1>5, <1>6, <1>7, <1>8
  <2> QED BY <1>2, <2>1, SpanHolds
<1>10. x # n
  BY <1>7
<1>11. PICK e \in Sides : t.kid[n][e] # NULL /\ x \in Subtree(t, t.kid[n][e])
  BY <1>1, <1>9, <1>10, SubtreeParts
<1>12. e # "left"
  <2>1. e = "left" => pos[x] < pos[n]
    BY <1>1, <1>11, SubtreeSides
  <2> QED BY <1>7, <2>1
<1>13. x \in Subtree(t, k)
  BY <1>11, <1>12 DEF Sides
<1> QED BY <1>3, <1>7, <1>8, <1>13

(***************************************************************************)
(* What the functions do to a tree, node by node.                          *)
(***************************************************************************)

(* n gets the parent p and the colour c. *)
IsPainted(t, n, p, c, u) ==
  /\ u \in Trees /\ u.root = t.root /\ u.kid = t.kid
  /\ \A m \in Nodes : /\ u.up[m] = IF m = n THEN p ELSE t.up[m]
                      /\ (u.red[m] <=> IF m = n THEN c ELSE t.red[m])

(* rb_set_parent_color does. *)
LEMMA Painted ==
  ASSUME NEW t \in Trees, NEW n \in Nodes, NEW p \in Nodes \cup {NULL}, NEW c \in BOOLEAN
  PROVE  IsPainted(t, n, p, c, rb_set_parent_color(t, n, p, c))
BY DEF rb_set_parent_color, Trees, IsPainted

(* So does the code that asks first whether there is a node. *)
LEMMA PaintedIfThere ==
  ASSUME NEW t \in Trees, NEW n \in Nodes \cup {NULL}, NEW p \in Nodes \cup {NULL},
           NEW c \in BOOLEAN
  PROVE  IsPainted(t, n, p, c, PaintIfThere(t, n, p, c))
<1>1. CASE n = NULL
  BY <1>1, NullAssumption DEF PaintIfThere, IsPainted
<1>2. CASE n # NULL
  BY <1>2, Painted DEF PaintIfThere
<1> QED BY <1>1, <1>2

(* a gets the child v on side c. *)
IsKidSet(t, a, c, v, u) ==
  /\ u \in Trees /\ u.root = t.root /\ u.up = t.up /\ u.red = t.red
  /\ \A n \in Nodes, s \in Sides : u.kid[n][s] = IF n = a /\ s = c THEN v ELSE t.kid[n][s]

(* A store to rb_left or rb_right does. *)
LEMMA KidSet ==
  ASSUME NEW t \in Trees, NEW a \in Nodes, NEW c \in Sides, NEW v \in Nodes \cup {NULL}
  PROVE  IsKidSet(t, a, c, v, SetKid(t, a, c, v))
BY DEF SetKid, Trees, IsKidSet

(* Two such stores, to two nodes. *)
IsKidsSet(t, a, c, v, b, e, w, u) ==
  /\ u \in Trees /\ u.root = t.root /\ u.up = t.up /\ u.red = t.red
  /\ \A n \in Nodes, s \in Sides : u.kid[n][s] =
       IF n = a /\ s = c THEN v ELSE IF n = b /\ s = e THEN w ELSE t.kid[n][s]

(* One store after the other does not disturb it. *)
LEMMA KidsSet ==
  ASSUME NEW t \in Trees, NEW a \in Nodes, NEW b \in Nodes, NEW c \in Sides, NEW e \in Sides,
         NEW v \in Nodes \cup {NULL}, NEW w \in Nodes \cup {NULL}, a # b
  PROVE  IsKidsSet(t, a, c, v, b, e, w, SetKid(SetKid(t, a, c, v), b, e, w))
BY DEF SetKid, Trees, IsKidsSet

(* new stands where old stood, below p or as the root. *)
IsChildChanged(t, old, new, p, u) ==
  /\ u \in Trees /\ u.up = t.up /\ u.red = t.red
  /\ u.root = IF p = NULL THEN new ELSE t.root
  /\ \A n \in Nodes, s \in Sides : u.kid[n][s] =
       IF n = p /\ t.kid[n][s] = old THEN new ELSE t.kid[n][s]

(* __rb_change_child does, when old is a child of p or the root. *)
LEMMA ChildChanged ==
  ASSUME NEW t \in Trees, NEW old \in Nodes, NEW new \in Nodes \cup {NULL},
         NEW p \in Nodes \cup {NULL}, p # NULL => \E s \in Sides : t.kid[p][s] = old,
         p # NULL => t.kid[p]["left"] # t.kid[p]["right"]
  PROVE  IsChildChanged(t, old, new, p, change_child(t, old, new, p))
<1>1. CASE p = NULL
  BY <1>1, NullAssumption DEF change_child, Trees, IsChildChanged
<1>2. CASE p # NULL
  BY <1>2 DEF change_child, SetKid, Trees, Sides, IsChildChanged
<1> QED BY <1>1, <1>2

(* r has the new children of x and y, and the new parent of the inner one; *)
(* u in addition the colours of x and y.                                   *)
HalfTurned(t, r, x, y, d) ==
  /\ r \in Trees /\ r.root = t.root
  /\ \A n \in Nodes \ {y} : r.up[n] = IF n = t.kid[y][Other(d)] THEN x ELSE t.up[n]
  /\ \A n \in Nodes, s \in Sides : r.kid[n][s] =
       IF n = x /\ s = d THEN t.kid[y][Other(d)]
       ELSE IF n = y /\ s = Other(d) THEN x ELSE t.kid[n][s]

(* Both: t turned, with the colours that __rb_rotate_set_parents gives. *)
Rotated(t, r, u, x, y, d, c) ==
  /\ u \in Trees /\ Turned(t, u, x, y, d)
  /\ \A n \in Nodes : u.red[n] <=> IF n = x THEN c ELSE IF n = y THEN r.red[x] ELSE r.red[n]

(* With the three links of a rotation and its inner child's parent set,    *)
(* rotate_set_parents completes it.                                        *)
LEMMA RotationTurns ==
  ASSUME NEW t, NEW pos, Shape(t, pos), NEW x \in Nodes, NEW y \in Nodes, NEW d \in Sides,
         y = t.kid[x][d], NEW r, HalfTurned(t, r, x, y, d), NEW c \in BOOLEAN,
         NEW u, u = rotate_set_parents(r, x, y, c)
  PROVE  Rotated(t, r, u, x, y, d, c)
<1>0. /\ r \in Trees /\ r.root = t.root
      /\ \A n \in Nodes \ {y} : r.up[n] = IF n = t.kid[y][Other(d)] THEN x ELSE t.up[n]
      /\ \A n \in Nodes, s \in Sides : r.kid[n][s] =
           IF n = x /\ s = d THEN t.kid[y][Other(d)]
           ELSE IF n = y /\ s = Other(d) THEN x ELSE t.kid[n][s]
  BY DEF HalfTurned
<1>1. y # NULL
  BY NullAssumption
<1>2. PICK o \in Sides, z \in Nodes \cup {NULL}, p \in Nodes \cup {NULL} :
        /\ y # x /\ o = Other(d) /\ o # d /\ z = t.kid[y][o] /\ z # x /\ z # y
        /\ p = t.up[x] /\ p # x /\ p # y /\ (p # NULL => p # z /\ \E s \in Sides : t.kid[p][s] = x)
  BY <1>1, Family
<1> DEFINE v  == rb_set_parent_color(r, y, p, r.red[x])
           v2 == rb_set_parent_color(v, x, y, c)
<1>3. r.up[x] = p /\ r.red[x] \in BOOLEAN /\ t.up[y] = x
  BY <1>0, <1>1, <1>2, KidsApart DEF Trees
<1>4. IsPainted(r, y, p, r.red[x], v)
  BY <1>0, <1>3, Painted
<1>5. IsPainted(v, x, y, c, v2)
  <2>1. v \in Trees
    BY <1>4 DEF IsPainted
  <2> HIDE DEF v
  <2> QED BY <2>1, Painted
<1>6. u = change_child(v2, x, y, p)
  BY <1>3 DEF rotate_set_parents
<1> HIDE DEF v, v2
<1>7. p # NULL => \A s \in Sides : v2.kid[p][s] = t.kid[p][s]
  BY <1>0, <1>2, <1>4, <1>5 DEF IsPainted
<1>8. p # NULL => /\ \E s \in Sides : v2.kid[p][s] = x
                  /\ v2.kid[p]["left"] # v2.kid[p]["right"]
  <2> SUFFICES ASSUME p # NULL
               PROVE (\E s \in Sides : t.kid[p][s] = x) /\ t.kid[p]["left"] # t.kid[p]["right"]
    BY <1>7 DEF Sides
  <2>1. PICK s \in Sides : t.kid[p][s] = x
    BY <1>2
  <2>2. t.kid[p][s] # t.kid[p][Other(s)]
    BY <2>1, NullAssumption, KidsApart
  <2> QED BY <2>1, <2>2 DEF Sides, Other
<1>9. IsChildChanged(v2, x, y, p, u)
  <2>1. v2 \in Trees
    BY <1>5 DEF IsPainted
  <2> QED BY <1>6, <1>8, <2>1, ChildChanged
<1>10. Turned(t, u, x, y, d)
  <2>1. u.root = IF p = NULL THEN y ELSE t.root
    BY <1>0, <1>4, <1>5, <1>9 DEF IsPainted, IsChildChanged
  <2>2. \A n \in Nodes : u.up[n] = IF n = x THEN y ELSE IF n = y THEN p ELSE IF n = z THEN x
          ELSE t.up[n]
    BY <1>0, <1>2, <1>4, <1>5, <1>9 DEF IsPainted, IsChildChanged
  <2>3. \A n \in Nodes, s \in Sides :
          u.kid[n][s] = IF n = x /\ s = d THEN z ELSE IF n = y /\ s = o THEN x
                        ELSE IF n = p /\ t.kid[n][s] = x THEN y ELSE t.kid[n][s]
    BY <1>0, <1>2, <1>4, <1>5, <1>9 DEF IsPainted, IsChildChanged
  <2>4. u.up \in [Nodes -> Nodes \cup {NULL}] /\ u.kid \in [Nodes -> [Sides -> Nodes \cup {NULL}]]
    BY <1>9 DEF Trees, IsChildChanged
  <2>5. u.up = [n \in Nodes |-> IF n = x THEN y ELSE IF n = y THEN p ELSE IF n = z THEN x ELSE t.up[n]]
    BY <2>2, <2>4
  <2> DEFINE k == [n \in Nodes |-> [s \in Sides |->
          IF n = x /\ s = d THEN z ELSE IF n = y /\ s = o THEN x
          ELSE IF n = p /\ t.kid[n][s] = x THEN y ELSE t.kid[n][s]]]
  <2>6. u.kid = k
    <3>1. \A n \in Nodes : u.kid[n] = k[n]
      BY <2>3, <2>4
    <3> HIDE DEF k
    <3>2. k = [n \in Nodes |-> k[n]]
      BY DEF k
    <3> QED BY <2>4, <3>1, <3>2
  <2> QED BY <1>2, <2>1, <2>5, <2>6 DEF Turned
<1>11. \A n \in Nodes : (u.red[n] <=> IF n = x THEN c ELSE IF n = y THEN r.red[x] ELSE r.red[n])
  BY <1>0, <1>4, <1>5, <1>9 DEF IsPainted, IsChildChanged
<1> QED BY <1>9, <1>10, <1>11 DEF IsChildChanged, Rotated

(* All of t but the pointers from the place above p and to it, on which a  *)
(* rotation does not depend.                                               *)
SameBut(t, r, x, d, S) ==
  /\ r \in Trees /\ r.root = t.root /\ r.red = t.red
  /\ \A n \in Nodes \ S : r.up[n] = t.up[n]
  /\ \A n \in Nodes, s \in Sides : n # x \/ s # d => r.kid[n][s] = t.kid[n][s]

(* The grandparent g turned below its child p; g is red, p has its colour  *)
(* and the child handed over is black.                                     *)
GparentTurned(t, u, g, p, d) ==
  /\ u \in Trees /\ Turned(t, u, g, p, d)
  /\ \A n \in Nodes : u.red[n] <=>
       IF n = g THEN TRUE ELSE IF n = p THEN t.red[g]
       ELSE n # t.kid[p][Other(d)] /\ t.red[n]

(* Case 3 of __rb_insert does, from any tree t0 that differs from t only   *)
(* where the turn stores anew.                                             *)
LEMMA RotateGparent ==
  ASSUME NEW t, NEW pos, Shape(t, pos), NEW g \in Nodes, NEW p \in Nodes, NEW d \in Sides,
         p = t.kid[g][d], NEW t0, SameBut(t, t0, g, d, {p}),
         NEW u, u = InsertRotateGparent(t0, p, g, d)
  PROVE  GparentTurned(t, u, g, p, d)
<1>1. PICK o \in Sides, z \in Nodes \cup {NULL} :
        p # g /\ o = Other(d) /\ o # d /\ z = t.kid[p][o] /\ z # g /\ z # p
  BY Family, NullAssumption
<1>2. t0 \in Trees /\ t0.kid[p][o] = z
  BY <1>1 DEF SameBut
<1> DEFINE t1 == SetKid(SetKid(t0, g, d, z), p, o, g)
           t2 == PaintIfThere(t1, z, g, FALSE)
<1>3. IsKidsSet(t0, g, d, z, p, o, g, t1)
  BY <1>1, <1>2, KidsSet
<1>4. IsPainted(t1, z, g, FALSE, t2)
  <2>1. t1 \in Trees
    BY <1>3 DEF IsKidsSet
  <2> HIDE DEF t1
  <2> QED BY <2>1, PaintedIfThere
<1>5. u = rotate_set_parents(t2, g, p, TRUE)
  BY <1>1, <1>2 DEF InsertRotateGparent
<1> HIDE DEF t1, t2
<1>6. /\ t2 \in Trees /\ t2.root = t.root
      /\ \A n \in Nodes \ {p} : t2.up[n] = IF n = z THEN g ELSE t.up[n]
      /\ \A n \in Nodes : t2.red[n] <=> n # z /\ t.red[n]
      /\ \A n \in Nodes, s \in Sides : t2.kid[n][s] =
           IF n = g /\ s = d THEN z ELSE IF n = p /\ s = o THEN g ELSE t.kid[n][s]
  BY <1>3, <1>4 DEF IsKidsSet, IsPainted, SameBut
<1>7. HalfTurned(t, t2, g, p, d)
  BY <1>1, <1>6 DEF HalfTurned
<1>8. Rotated(t, t2, u, g, p, d, TRUE)
  BY <1>5, <1>7, RotationTurns
<1> QED BY <1>1, <1>6, <1>8 DEF Rotated, GparentTurned

(***************************************************************************)
(* Rotations and heights.                                                  *)
(***************************************************************************)

(* The height of a place, empty or not, is a number. *)
LEMMA HeightsNat ==
  ASSUME NEW t, NEW pos, Shape(t, pos), NEW bh \in [Nodes -> Nat]
  PROVE  \A n \in Nodes, s \in Sides : KidHeight(t, bh, n, s) \in Nat
BY KidsApart DEF KidHeight

(* A rotation hands subtrees over whole. *)
HandedOver(t, u, x, y, d, bh, bh2) ==
  /\ \A n \in Nodes \ {x, y}, s \in Sides : KidHeight(u, bh2, n, s) = KidHeight(t, bh, n, s)
  /\ KidHeight(u, bh2, x, d) = KidHeight(t, bh, y, Other(d))
  /\ KidHeight(u, bh2, x, Other(d)) = KidHeight(t, bh, x, Other(d))
  /\ KidHeight(u, bh2, y, d) = KidHeight(t, bh2, y, d)
  /\ KidHeight(u, bh2, y, Other(d)) = bh2[x]
  /\ \A n \in Nodes \ {x, y}, s \in Sides : u.kid[n][s] =
       IF t.kid[n][s] = x THEN y ELSE t.kid[n][s]
  /\ u.kid[x][d] = t.kid[y][Other(d)] /\ u.kid[x][Other(d)] = t.kid[x][Other(d)]
  /\ u.kid[y][d] = t.kid[y][d] /\ u.kid[y][Other(d)] = x

(* The heights below x and y after a turn are those of the subtrees handed *)
(* over, whatever the new heights of x and y are.                          *)
LEMMA TurnedHeights ==
  ASSUME NEW t, NEW pos, Shape(t, pos), NEW u \in Trees,
         NEW x \in Nodes, NEW y \in Nodes, NEW d \in Sides, y = t.kid[x][d],
         Turned(t, u, x, y, d), NEW bh, NEW bh2, bh2[y] = bh[x],
         \A n \in Nodes \ {x, y, t.kid[y][d]} : bh2[n] = bh[n]
  PROVE  HandedOver(t, u, x, y, d, bh, bh2)
<1>1. PICK o \in Sides, z \in Nodes \cup {NULL}, p \in Nodes \cup {NULL} :
        /\ y # x /\ t.up[y] = x /\ o = Other(d) /\ o # d
        /\ z = t.kid[y][o] /\ z # x /\ z # y
        /\ p = t.up[x] /\ p # x /\ p # y /\ NULL \notin Nodes
        /\ z # NULL => t.up[z] = y
  BY Family, NullAssumption
<1>2. \A n \in Nodes, s \in Sides :
        u.kid[n][s] = IF n = x /\ s = d THEN z ELSE IF n = y /\ s = o THEN x
                      ELSE IF n = p /\ t.kid[n][s] = x THEN y ELSE t.kid[n][s]
  BY <1>1 DEF Turned
<1>3. PICK w \in Nodes \cup {NULL} : w = t.kid[y][d] /\ (w # NULL => t.up[w] = y)
  BY <1>1, KidsApart
<1>4. ASSUME NEW n \in Nodes, NEW s \in Sides, t.kid[n][s] = x PROVE n = p
  BY <1>1, <1>4, KidsApart
<1>5. \A n \in Nodes \ {x, y}, s \in Sides : u.kid[n][s] =
        IF t.kid[n][s] = x THEN y ELSE t.kid[n][s]
  BY <1>1, <1>2, <1>4
<1>6. ASSUME NEW n \in Nodes \ {x, y}, NEW s \in Sides
      PROVE  KidHeight(u, bh2, n, s) = KidHeight(t, bh, n, s)
  <2>1. CASE t.kid[n][s] = x
    BY <1>1, <1>5, <2>1 DEF KidHeight
  <2>2. CASE t.kid[n][s] # x
    <3>1. t.kid[n][s] # NULL => t.kid[n][s] \in Nodes /\ t.kid[n][s] \notin {x, y, w}
      BY <1>1, <1>3, <2>2, KidsApart
    <3>2. t.kid[n][s] # NULL => bh2[t.kid[n][s]] = bh[t.kid[n][s]]
      BY <1>3, <3>1
    <3> QED BY <1>5, <2>2, <3>2 DEF KidHeight
  <2> QED BY <2>1, <2>2
<1>7. u.kid[x][d] = z /\ u.kid[y][o] = x
  BY <1>1, <1>2
<1>8. u.kid[x][o] = t.kid[x][o] /\ u.kid[y][d] = t.kid[y][d]
  BY <1>1, <1>2
<1>9. KidHeight(u, bh2, x, d) = KidHeight(t, bh, y, o)
  <2>1. z # NULL => z \in Nodes /\ z \notin {x, y, w}
    BY <1>1, <1>3, KidsApart
  <2> QED BY <1>1, <1>3, <1>7, <2>1 DEF KidHeight
<1>10. KidHeight(u, bh2, x, o) = KidHeight(t, bh, x, o)
  <2>1. t.kid[x][o] # NULL => t.kid[x][o] \in Nodes /\ t.kid[x][o] \notin {x, y, w}
    BY <1>1, <1>3, KidsApart
  <2> QED BY <1>3, <1>8, <2>1 DEF KidHeight
<1>11. KidHeight(u, bh2, y, d) = KidHeight(t, bh2, y, d) /\ KidHeight(u, bh2, y, o) = bh2[x]
  BY <1>1, <1>7, <1>8 DEF KidHeight
<1> QED BY <1>1, <1>5, <1>6, <1>7, <1>8, <1>9, <1>10, <1>11 DEF HandedOver

(***************************************************************************)
(* What holds of a tree whatever is done to it: its shape, no pair of red  *)
(* nodes but for the children in S, even heights but for the gap.          *)
(***************************************************************************)

(* A red node hangs below a black one, but for those in S. *)
NoRedPair(t, S) == \A m \in Nodes \ S : t.red[m] => t.up[m] \in Nodes /\ ~ t.red[t.up[m]]

(* A red-black tree but for the red nodes S and the gap below q on side e. *)
Firm(t, pos, S, q, e) == Shape(t, pos) /\ NoRedPair(t, S) /\ Balanced(t, q, e)

(* u differs from t in colours only. *)
SameLinks(t, u) == u \in Trees /\ u.root = t.root /\ u.up = t.up /\ u.kid = t.kid

(* Colours do not matter to the shape. *)
LEMMA Recoloured ==
  ASSUME NEW t, NEW pos, Shape(t, pos), NEW u, SameLinks(t, u),
         \A n \in Nodes \ InTree(t) : ~ u.red[n]
  PROVE  Shape(u, pos) /\ InTree(u) = InTree(t)
<1>1. InTree(u) = InTree(t)
  BY DEF InTree, SameLinks
<1>2. LinksAgree(u)
  BY DEF Shape, LinksAgree, SameLinks
<1>3. Ordered(u, pos)
  BY DEF Shape, Ordered, Nested, SameLinks
<1> QED BY <1>1, <1>2, <1>3 DEF Shape, SameLinks

(* Without a gap. *)
LEMMA NoGapHeights ==
  ASSUME NEW t, NEW pos, Shape(t, pos), NEW bh \in [Nodes -> Nat], Even(t, bh, NULL, "left")
  PROVE  \A n \in Nodes, s \in Sides :
           KidHeight(t, bh, n, s) \in Nat
             /\ bh[n] = KidHeight(t, bh, n, s) + (IF t.red[n] THEN 0 ELSE 1)
<1> SUFFICES ASSUME NEW n \in Nodes, NEW s \in Sides
             PROVE KidHeight(t, bh, n, s) \in Nat
                     /\ bh[n] = KidHeight(t, bh, n, s) + (IF t.red[n] THEN 0 ELSE 1)
  OBVIOUS
<1>1. KidHeight(t, bh, n, s) \in Nat /\ n # NULL
  BY HeightsNat, NullAssumption
<1>2. SideHeight(t, bh, NULL, "left", n, s) = KidHeight(t, bh, n, s)
  BY <1>1 DEF SideHeight
<1>3. bh[n] = SideHeight(t, bh, NULL, "left", n, s) + (IF t.red[n] THEN 0 ELSE 1)
  BY DEF Even, Sides
<1> QED BY <1>1, <1>2, <1>3

(* And heights that add up on both sides of all nodes leave none. *)
LEMMA EvenWithoutGap ==
  ASSUME NEW t, NEW pos, Shape(t, pos), NEW bh \in [Nodes -> Nat],
         \A n \in Nodes, s \in Sides :
           bh[n] = KidHeight(t, bh, n, s) + (IF t.red[n] THEN 0 ELSE 1)
  PROVE  Balanced(t, NULL, "left")
<1>1. ASSUME NEW n \in Nodes, NEW s \in Sides
      PROVE  KidHeight(t, bh, n, s) \in Nat
               /\ SideHeight(t, bh, NULL, "left", n, s) = KidHeight(t, bh, n, s)
  <2>1. KidHeight(t, bh, n, s) \in Nat /\ n # NULL
    BY HeightsNat, NullAssumption
  <2> QED BY <2>1 DEF SideHeight
<1>2. ASSUME NEW n \in Nodes
      PROVE  /\ SideHeight(t, bh, NULL, "left", n, "left") = SideHeight(t, bh, NULL, "left", n, "right")
             /\ bh[n] = SideHeight(t, bh, NULL, "left", n, "left") + (IF t.red[n] THEN 0 ELSE 1)
  <2>1. "left" \in Sides /\ "right" \in Sides /\ bh[n] \in Nat
    BY DEF Sides
  <2>2. /\ bh[n] = KidHeight(t, bh, n, "left") + (IF t.red[n] THEN 0 ELSE 1)
        /\ bh[n] = KidHeight(t, bh, n, "right") + (IF t.red[n] THEN 0 ELSE 1)
    BY <2>1
  <2>3. KidHeight(t, bh, n, "left") \in Nat /\ KidHeight(t, bh, n, "right") \in Nat
    BY <1>1, <2>1
  <2>4. KidHeight(t, bh, n, "left") = KidHeight(t, bh, n, "right")
    BY <2>1, <2>2, <2>3
  <2> QED BY <1>1, <2>1, <2>2, <2>4
<1>3. Even(t, bh, NULL, "left")
  BY <1>2 DEF Even
<1> QED BY <1>3 DEF Balanced

(***************************************************************************)
(* __rb_insert.                                                            *)
(***************************************************************************)

(* The red node has come up to the root, which __rb_insert paints black. *)
LEMMA RootPainted ==
  ASSUME NEW t, NEW pos, NEW n \in Nodes, Firm(t, pos, {n}, NULL, "left"), t.red[n],
         t.up[n] = NULL, NEW u, IsPainted(t, n, NULL, FALSE, u)
  PROVE  Firm(u, pos, {}, NULL, "left") /\ InTree(u) = InTree(t)
<1>1. Shape(t, pos) /\ t \in Trees
  BY DEF Firm, Shape
<1>2. SameLinks(t, u)
  <2>1. u.up = t.up
    BY <1>1 DEF IsPainted, Trees
  <2> QED BY <2>1 DEF IsPainted, SameLinks
<1>3. Shape(u, pos) /\ InTree(u) = InTree(t)
  <2>1. \A m \in Nodes \ InTree(t) : ~ u.red[m]
    BY <1>1 DEF IsPainted, Shape
  <2> QED BY <1>1, <1>2, <2>1, Recoloured
<1>4. NoRedPair(u, {})
  BY <1>2 DEF NoRedPair, IsPainted, Firm, SameLinks
<1>5. PICK bh \in [Nodes -> Nat] : Even(t, bh, NULL, "left")
  BY DEF Firm, Balanced
<1> DEFINE bh2 == [bh EXCEPT ![n] = bh[n] + 1]
<1>6. bh2 \in [Nodes -> Nat]
  BY <1>5
<1>7. ASSUME NEW m \in Nodes, NEW s \in Sides
      PROVE  bh2[m] = KidHeight(u, bh2, m, s) + (IF u.red[m] THEN 0 ELSE 1)
  <2>1. t.kid[m][s] # n /\ (t.kid[m][s] # NULL => t.kid[m][s] \in Nodes)
    BY <1>1, KidsApart
  <2>2. KidHeight(u, bh2, m, s) = KidHeight(t, bh, m, s)
    BY <1>2, <2>1 DEF KidHeight, SameLinks
  <2>3. KidHeight(t, bh, m, s) \in Nat /\ bh[m] = KidHeight(t, bh, m,
        s) + (IF t.red[m] THEN 0 ELSE 1)
    BY <1>1, <1>5, NoGapHeights
  <2>4. u.red[m] <=> IF m = n THEN FALSE ELSE t.red[m]
    BY DEF IsPainted
  <2> QED BY <2>2, <2>3, <2>4
<1>8. Balanced(u, NULL, "left")
  <2> HIDE DEF bh2
  <2> QED BY <1>3, <1>6, <1>7, EvenWithoutGap
<1> QED BY <1>3, <1>4, <1>8 DEF Firm

(* The red node has a black parent: nothing is left to repair. *)
LEMMA BlackParent ==
  ASSUME NEW t, NEW pos, NEW n \in Nodes, Firm(t, pos, {n}, NULL, "left"),
         t.up[n] \in Nodes, ~ t.red[t.up[n]]
  PROVE  Firm(t, pos, {}, NULL, "left")
BY DEF Firm, NoRedPair

(* The parent and the uncle turn black, the grandparent red. *)
Flipped(t, u, p, g, uncle) ==
  /\ SameLinks(t, u)
  /\ \A m \in Nodes : u.red[m] <=>
       IF m = g THEN TRUE ELSE m # p /\ m # uncle /\ t.red[m]

(* p and uncle are the children of g. *)
Brothers(t, g, p, uncle, d) == p = t.kid[g][d] /\ uncle = t.kid[g][Other(d)]

(* Case 1 of __rb_insert flips these colours and goes on at g. *)
LEMMA FlipPaints ==
  ASSUME NEW t, NEW pos, Shape(t, pos), NEW g \in Nodes, NEW d \in Sides,
         NEW p \in Nodes, NEW uncle \in Nodes, Brothers(t, g, p, uncle, d)
  PROVE  \E u : Flipped(t, u, p, g, uncle) /\ InsertFlip(t, p, g, uncle) = Loop(u, g, t.up[g], TRUE)
<1>1. /\ t.up[p] = g /\ t.up[uncle] = g /\ p # g /\ uncle # g /\ p # uncle
      /\ t \in Trees /\ t.up[g] \in Nodes \cup {NULL}
  <2>1. p # NULL /\ uncle # NULL /\ Other(d) \in Sides
    BY NullAssumption, SidesAre
  <2>2. t.up[p] = g /\ t.up[uncle] = g /\ p # g /\ uncle # g /\ p # uncle
    BY <2>1, KidsApart DEF Brothers
  <2> QED BY <2>2 DEF Shape, Trees
<1> DEFINE t1 == rb_set_parent_color(t, uncle, g, FALSE)
           t2 == rb_set_parent_color(t1, p, g, FALSE)
           gg == t2.up[g]
           t3 == rb_set_parent_color(t2, g, gg, TRUE)
<1>2. IsPainted(t, uncle, g, FALSE, t1)
  BY <1>1, Painted
<1>3. IsPainted(t1, p, g, FALSE, t2)
  <2>1. t1 \in Trees
    BY <1>2 DEF IsPainted
  <2> HIDE DEF t1
  <2> QED BY <2>1, Painted
<1>4. InsertFlip(t, p, g, uncle) = Loop(t3, g, gg, TRUE)
  BY DEF InsertFlip
<1>5. gg = t.up[g] /\ t2 \in Trees
  <2> HIDE DEF t1, t2
  <2> QED BY <1>1, <1>2, <1>3 DEF IsPainted
<1>6. IsPainted(t2, g, gg, TRUE, t3)
  <2> HIDE DEF t2, gg
  <2> QED BY <1>1, <1>5, Painted
<1> HIDE DEF t1, t2, t3, gg
<1>7. Flipped(t, t3, p, g, uncle)
  <2>1. /\ t3 \in Trees /\ t3.root = t.root /\ t3.kid = t.kid
        /\ \A m \in Nodes : t3.up[m] = t.up[m]
    BY <1>1, <1>2, <1>3, <1>5, <1>6 DEF IsPainted
  <2>2. t3.up = t.up
    BY <1>1, <2>1 DEF Trees
  <2>3. \A m \in Nodes : t3.red[m] <=> IF m = g THEN TRUE ELSE m # p /\ m # uncle /\ t.red[m]
    BY <1>1, <1>2, <1>3, <1>5, <1>6 DEF IsPainted
  <2> QED BY <2>1, <2>2, <2>3 DEF Flipped, SameLinks
<1> QED BY <1>4, <1>5, <1>7

(* The flip moves the pair of red nodes up to g and leaves all heights     *)
(* even.                                                                   *)
LEMMA FlipRepairs ==
  ASSUME NEW t, NEW pos, NEW n \in Nodes, Firm(t, pos, {n}, NULL, "left"),
         NEW g \in Nodes, NEW d \in Sides, NEW p \in Nodes, NEW uncle \in Nodes,
         Brothers(t, g, p, uncle, d), t.up[n] = p,
         t.red[p], t.red[uncle], ~ t.red[g],
         NEW u, Flipped(t, u, p, g, uncle)
  PROVE  Firm(u, pos, {g}, NULL, "left") /\ InTree(u) = InTree(t)
<1>1. Shape(t, pos) /\ t \in Trees /\ NoRedPair(t, {n})
  BY DEF Firm, Shape
<1>2. /\ t.up[p] = g /\ t.up[uncle] = g /\ p # g /\ uncle # g /\ p # uncle
      /\ g \in InTree(t) /\ p \in InTree(t)
  <2>1. p # NULL /\ uncle # NULL /\ Other(d) \in Sides
    BY NullAssumption, SidesAre
  <2> QED BY <1>1, <2>1, KidsApart DEF Brothers
<1>3. Shape(u, pos) /\ InTree(u) = InTree(t)
  <2>1. SameLinks(t, u)
    BY DEF Flipped
  <2>2. \A m \in Nodes \ InTree(t) : ~ u.red[m]
    BY <1>1, <1>2 DEF Flipped, Shape
  <2> QED BY <1>1, <2>1, <2>2, Recoloured
<1>4. NoRedPair(u, {g})
  <2> SUFFICES ASSUME NEW m \in Nodes \ {g}, u.red[m] PROVE u.up[m] \in Nodes /\ ~ u.red[u.up[m]]
    BY DEF NoRedPair
  <2>1. t.red[m] /\ m # p /\ m # uncle /\ u.up = t.up
    BY DEF Flipped, SameLinks
  <2>2. CASE m = n
    BY <1>2, <2>1, <2>2 DEF Flipped
  <2>3. CASE m # n
    <3>1. t.up[m] \in Nodes /\ ~ t.red[t.up[m]]
      BY <1>1, <2>1, <2>3 DEF NoRedPair
    <3>2. t.up[m] # g
      <4> SUFFICES ASSUME t.up[m] = g PROVE FALSE
        OBVIOUS
      <4>1. g # NULL
        BY NullAssumption
      <4>2. PICK s \in Sides : t.kid[g][s] = m
        BY <1>1, <4>1, KidsApart
      <4> QED BY <2>1, <4>2 DEF Sides, Other, Brothers
    <3> QED BY <2>1, <3>1, <3>2 DEF Flipped
  <2> QED BY <2>2, <2>3
<1>5. PICK bh \in [Nodes -> Nat] : Even(t, bh, NULL, "left")
  BY DEF Firm, Balanced
<1> DEFINE bh2 == [m \in Nodes |-> IF m = p \/ m = uncle THEN bh[m] + 1 ELSE bh[m]]
<1>6. bh2 \in [Nodes -> Nat]
  BY <1>5
<1>7. ASSUME NEW m \in Nodes, NEW s \in Sides
      PROVE  bh2[m] = KidHeight(u, bh2, m, s) + (IF u.red[m] THEN 0 ELSE 1)
  <2>1. KidHeight(t, bh, m, s) \in Nat
          /\ bh[m] = KidHeight(t, bh, m, s) + (IF t.red[m] THEN 0 ELSE 1)
    BY <1>1, <1>5, NoGapHeights
  <2>2. u.red[m] <=> IF m = g THEN TRUE ELSE m # p /\ m # uncle /\ t.red[m]
    BY DEF Flipped
  <2>3. u.kid = t.kid
    BY DEF Flipped, SameLinks
  <2>4. CASE m = g
    <3>1. t.kid[g][s] \in {p, uncle} /\ t.kid[g][s] # NULL /\ t.kid[g][s] \in Nodes
      BY NullAssumption DEF Sides, Other, Brothers
    <3>2. bh2[t.kid[g][s]] = bh[t.kid[g][s]] + 1 /\ bh2[g] = bh[g] /\ bh[t.kid[g][s]] \in Nat
      BY <1>2, <1>5, <3>1
    <3> QED BY <2>1, <2>2, <2>3, <2>4, <3>1, <3>2 DEF KidHeight
  <2>5. CASE m # g
    <3>1. t.kid[m][s] # NULL => t.kid[m][s] \in Nodes /\ t.kid[m][s] # p /\ t.kid[m][s] # uncle
      BY <1>1, <1>2, <2>5, KidsApart
    <3>2. KidHeight(u, bh2, m, s) = KidHeight(t, bh, m, s)
      BY <2>3, <3>1 DEF KidHeight
    <3> QED BY <1>2, <1>5, <2>1, <2>2, <2>5, <3>2
  <2> QED BY <2>4, <2>5
<1>8. Balanced(u, NULL, "left")
  <2> HIDE DEF bh2
  <2> QED BY <1>3, <1>6, <1>7, EvenWithoutGap
<1> QED BY <1>3, <1>4, <1>8 DEF Firm

(* n is the outer grandchild of g, and the uncle is black. *)
Outside(t, n, p, g, d) ==
  /\ p = t.kid[g][d] /\ n = t.kid[p][d] /\ t.red[n] /\ t.red[p] /\ ~ t.red[g]
  /\ ~ IsRed(t, t.kid[g][Other(d)])

(* A rotation with p below its grandparent g then ends the repair: the     *)
(* tree is red-black again.                                                *)
LEMMA GparentRepairs ==
  ASSUME NEW t, NEW pos, NEW n \in Nodes, Firm(t, pos, {n}, NULL, "left"),
         NEW g \in Nodes, NEW d \in Sides, NEW p \in Nodes, Outside(t, n, p, g, d),
         NEW u, GparentTurned(t, u, g, p, d)
  PROVE  Firm(u, pos, {}, NULL, "left") /\ InTree(u) = InTree(t)
<1>1. Shape(t, pos) /\ t \in Trees /\ NoRedPair(t, {n})
  BY DEF Firm, Shape
<1>2. /\ u \in Trees /\ Turned(t, u, g, p, d) 
      /\ \A m \in Nodes : u.red[m] <=>
           IF m = g THEN TRUE ELSE IF m = p THEN t.red[g]
           ELSE m # t.kid[p][Other(d)] /\ t.red[m]
  BY DEF GparentTurned
<1>0. /\ p = t.kid[g][d] /\ n = t.kid[p][d] /\ t.red[n] /\ t.red[p] /\ ~ t.red[g]
      /\ ~ IsRed(t, t.kid[g][Other(d)])
  BY DEF Outside
<1>3. PICK o \in Sides, z \in Nodes \cup {NULL}, q \in Nodes \cup {NULL} :
        /\ p # g /\ t.up[p] = g /\ o = Other(d) /\ o # d
        /\ z = t.kid[p][o] /\ z # g /\ z # p
        /\ q = t.up[g] /\ q # g /\ q # p /\ NULL \notin Nodes
        /\ z # NULL => t.up[z] = p /\ z \in InTree(t)
        /\ g \in InTree(t) /\ p \in InTree(t)
  BY <1>0, <1>1, Family, NullAssumption
<1>4. t.up[n] = p /\ n # p /\ n # g /\ n # z /\ n \in InTree(t)
  <2>1. n \in Nodes /\ n # NULL
    BY <1>3
  <2>2. t.up[n] = p /\ n # p /\ n \in InTree(t) /\ n # t.kid[p][Other(d)]
    <3>1. \A m \in Nodes, s \in Sides : t.kid[m][s] # NULL =>
            /\ t.kid[m][s] \in InTree(t) /\ t.up[t.kid[m][s]] = m /\ t.kid[m][s] # m
            /\ t.kid[m][s] # t.kid[m][Other(s)]
      BY <1>1, KidsApart
    <3> QED BY <1>0, <2>1, <3>1
  <2> QED BY <1>0, <1>3, <2>2
<1>5. \A m \in Nodes : u.red[m] <=> m = g \/ (m # p /\ m # z /\ t.red[m])
  BY <1>0, <1>2, <1>3
<1>6. z # NULL => ~ t.red[z]
  BY <1>0, <1>1, <1>3, <1>4 DEF NoRedPair
<1>7. \A m \in Nodes : u.red[m] <=> m = g \/ (m # p /\ t.red[m])
  BY <1>3, <1>5, <1>6
<1>8. Shape(u, pos) /\ InTree(u) = InTree(t)
  <2>1. \A m \in Nodes \ InTree(t) : ~ u.red[m]
    BY <1>1, <1>3, <1>7 DEF Shape
  <2> QED BY <1>0, <1>1, <1>2, <1>3, <2>1, TurnKeepsShape
<1>9. \A m \in Nodes : u.up[m] = IF m = g THEN p ELSE IF m = p THEN q
                                 ELSE IF m = z THEN g ELSE t.up[m]
  BY <1>2, <1>3 DEF Turned
<1>10. NoRedPair(u, {})
  <2> SUFFICES ASSUME NEW m \in Nodes, u.red[m] PROVE u.up[m] \in Nodes /\ ~ u.red[u.up[m]]
    BY DEF NoRedPair
  <2>1. CASE m = g
    BY <1>3, <1>7, <1>9, <2>1
  <2>2. CASE m = n
    BY <1>3, <1>4, <1>7, <1>9, <2>2
  <2>3. CASE m # g /\ m # n
    <3>1. m # p /\ t.red[m]
      BY <1>7, <2>3
    <3>2. m # z
      BY <1>3, <1>6, <3>1
    <3>3. u.up[m] = t.up[m] /\ t.up[m] \in Nodes /\ ~ t.red[t.up[m]]
      BY <1>1, <1>9, <2>3, <3>1, <3>2 DEF NoRedPair
    <3>4. t.up[m] # g
      <4> SUFFICES ASSUME t.up[m] = g PROVE FALSE
        OBVIOUS
      <4>1. PICK s \in Sides : t.kid[g][s] = m
        BY <1>1, <1>3, KidsApart
      <4>2. s = o
        BY <1>0, <1>3, <3>1, <4>1 DEF Sides
      <4> QED BY <1>0, <1>3, <3>1, <4>1, <4>2 DEF IsRed
    <3> QED BY <1>7, <3>3, <3>4
  <2> QED BY <2>1, <2>2, <2>3
<1>11. PICK bh \in [Nodes -> Nat] : Even(t, bh, NULL, "left")
  BY DEF Firm, Balanced
<1> DEFINE bh2 == [m \in Nodes |-> IF m = p THEN bh[g] ELSE IF m = g THEN bh[p] ELSE bh[m]]
<1>12. bh2 \in [Nodes -> Nat]
  BY <1>3, <1>11
<1>13. bh2[p] = bh[g] /\ bh2[g] = bh[p] /\ \A m \in Nodes \ {g, p, t.kid[p][d]} : bh2[m] = bh[m]
  BY <1>3
<1>20. \A m \in Nodes \ {g, p} : bh2[m] = bh[m]
  BY <1>3
<1> HIDE DEF bh2
<1>14. /\ \A m \in Nodes \ {g, p}, s \in Sides : KidHeight(u, bh2, m, s) = KidHeight(t, bh, m, s)
       /\ KidHeight(u, bh2, g, d) = KidHeight(t, bh, p, o)
       /\ KidHeight(u, bh2, g, o) = KidHeight(t, bh, g, o)
       /\ KidHeight(u, bh2, p, d) = KidHeight(t, bh2, p, d)
       /\ KidHeight(u, bh2, p, o) = bh2[g]
  <2>1. HandedOver(t, u, g, p, d, bh, bh2)
    BY <1>0, <1>1, <1>2, <1>13, TurnedHeights
  <2> QED BY <1>3, <2>1 DEF HandedOver
<1>15. \A m \in Nodes, s \in Sides :
         /\ KidHeight(t, bh, m, s) \in Nat
         /\ bh[m] = KidHeight(t, bh, m, s) + (IF t.red[m] THEN 0 ELSE 1)
  BY <1>1, <1>11, NoGapHeights
<1>16. KidHeight(t, bh, g, d) = bh[p] /\ KidHeight(t, bh, p, d) = bh[n] /\ KidHeight(t, bh2, p,
      d) = bh[n]
  BY <1>0, <1>3, <1>4, <1>20 DEF KidHeight
<1>17. /\ bh[g] \in Nat /\ bh[p] \in Nat /\ bh[n] \in Nat
       /\ bh[g] = bh[p] + 1 /\ bh[p] = bh[n] /\ KidHeight(t, bh, p, o) = bh[p]
       /\ KidHeight(t, bh, g, o) = bh[p]
  <2>1. bh[g] = KidHeight(t, bh, g, d) + 1 /\ bh[g] = KidHeight(t, bh, g, o) + 1
    BY <1>0, <1>3, <1>15
  <2>2. bh[p] = KidHeight(t, bh, p, d) + 0 /\ bh[p] = KidHeight(t, bh, p, o) + 0
    <3>1. \A s \in Sides : bh[p] = KidHeight(t, bh, p, s) + 0
      BY <1>0, <1>15
    <3> QED BY <1>3, <3>1
  <2>3. KidHeight(t, bh, g, o) \in Nat /\ KidHeight(t, bh, p, o) \in Nat
    BY <1>3, <1>15
  <2> QED BY <1>11, <1>16, <2>1, <2>2, <2>3
<1>18. ASSUME NEW m \in Nodes, NEW s \in Sides
       PROVE  bh2[m] = KidHeight(u, bh2, m, s) + (IF u.red[m] THEN 0 ELSE 1)
  <2>1. CASE m = g
    <3>1. KidHeight(u, bh2, g, s) = bh[p]
      BY <1>3, <1>14, <1>17 DEF Sides
    <3> QED BY <1>7, <1>13, <1>17, <2>1, <3>1
  <2>2. CASE m = p
    <3>1. KidHeight(u, bh2, p, s) = bh[p]
      BY <1>3, <1>13, <1>14, <1>16, <1>17 DEF Sides
    <3>2. ~ u.red[p]
      BY <1>0, <1>3, <1>7
    <3> QED BY <1>13, <1>17, <2>2, <3>1, <3>2
  <2>3. CASE m # g /\ m # p
    BY <1>7, <1>20, <1>14, <1>15, <2>3
  <2> QED BY <2>1, <2>2, <2>3
<1>19. Balanced(u, NULL, "left")
  BY <1>8, <1>12, <1>18, EvenWithoutGap
<1> QED BY <1>8, <1>10, <1>19 DEF Firm

(* The inner child n changes places with its parent p; g's pointer to p    *)
(* stays. u is what is left when g has n for its child already.            *)
InnerTurned(t, r, u, n, p, g, d) ==
  /\ u \in Trees /\ Turned(t, u, p, n, Other(d)) /\ SameBut(u, r, g, d, {n})
  /\ \A m \in Nodes : u.red[m] <=> m # t.kid[n][d] /\ t.red[m]

(* The nodes round such a turn, from the top. *)
Chain(t, g, p, n, z, d, o) ==
  /\ o = Other(d) /\ o # d /\ d \in Sides /\ o \in Sides
  /\ p = t.kid[g][d] /\ n = t.kid[p][o] /\ z = t.kid[n][d] /\ z \in Nodes \cup {NULL}
  /\ n # p /\ p # g /\ g # n /\ z # n /\ z # p /\ z # g
  /\ t.up[p] = g /\ t.up[n] = p /\ (z # NULL => t.up[z] = n)
  /\ g \in InTree(t) /\ p \in InTree(t) /\ n \in InTree(t)
  /\ t.kid[g][o] # p /\ t.kid[g][o] \in Nodes \cup {NULL} /\ NULL \notin Nodes

(* The shape puts the nodes round a turn there. *)
LEMMA ChainOf ==
  ASSUME NEW t, NEW pos, Shape(t, pos), NEW g \in Nodes, NEW p \in Nodes, NEW n \in Nodes,
         NEW d \in Sides, NEW o \in Sides, o # d,
         p = t.kid[g][d], n = t.kid[p][o], NEW z, z = t.kid[n][d]
  PROVE  Chain(t, g, p, n, z, d, o)
<1>1. o = Other(d) /\ p # NULL /\ n # NULL /\ g # NULL /\ NULL \notin Nodes
  BY NullAssumption DEF Sides, Other
<1>10. Other(o) = d
  BY DEF Sides, Other
<1>2. /\ \A m \in Nodes, s \in Sides : t.kid[m][s] \in Nodes \cup {NULL}
      /\ \A m \in Nodes, s \in Sides : t.kid[m][s] # NULL =>
           /\ t.up[t.kid[m][s]] = m /\ t.kid[m][s] # m /\ m \in InTree(t)
           /\ t.kid[m][s] \in InTree(t) /\ t.kid[m][s] # t.kid[m][Other(s)]
  BY KidsApart
<1>3. z \in Nodes \cup {NULL} /\ t.kid[g][o] \in Nodes \cup {NULL}
  BY <1>2
<1>4. /\ t.up[p] = g /\ p # g /\ g \in InTree(t) /\ p \in InTree(t) /\ t.kid[g][o] # p
  BY <1>1, <1>2
<1>5. t.up[n] = p /\ n # p /\ n \in InTree(t)
  BY <1>1, <1>2
<1>6. z # NULL => t.up[z] = n /\ z # n
  <2> SUFFICES ASSUME z # NULL PROVE t.up[z] = n /\ z # n
    OBVIOUS
  <2>1. t.kid[n][d] = z /\ t.kid[n][d] # NULL
    OBVIOUS
  <2>2. t.up[t.kid[n][d]] = n /\ t.kid[n][d] # n
    BY <1>2, <2>1
  <2> QED BY <2>1, <2>2
<1>7. z # p
  <2>1. z # NULL => t.kid[n][d] # p
    BY <1>1, <1>10, NoWayBack
  <2> QED BY <1>1, <2>1
<1>8. g # n
  BY <1>1, NoWayBack
<1>9. z # g
  <2>1. \A c \in Sides : t.kid[t.kid[t.kid[g][d]][o]][c] # g
    BY <1>1, NoWayBack
  <2> QED BY <2>1
<1> QED BY <1>1, <1>3, <1>4, <1>5, <1>6, <1>7, <1>8, <1>9 DEF Chain

(* Case 2 of __rb_insert turns n above p.  It leaves the pointers that     *)
(* Case 3 sets anyway, so r is the turned tree u but for them.             *)
LEMMA RotateParent ==
  ASSUME NEW t, NEW pos, Shape(t, pos), NEW g \in Nodes, NEW p \in Nodes, NEW n \in Nodes,
         NEW z \in Nodes \cup {NULL}, NEW d \in Sides, NEW o \in Sides,
         Chain(t, g, p, n, z, d, o), t.red[n], t.red[p],
         NEW r, r = InsertRotateParent(t, n, p, d)
  PROVE  \E u : InnerTurned(t, r, u, n, p, g, d)
<1>1. o # d /\ n # p /\ p # g /\ g # n /\ z # n /\ z # p /\ z # g /\ NULL \notin Nodes
  BY DEF Chain
<1>2. t \in Trees
  BY DEF Shape
<1>3. o = Other(d) /\ Other(o) = d
  BY <1>1 DEF Sides, Other
<1>4. t.kid[n][d] = z /\ t.kid[p][o] = n
  BY DEF Chain
<1> DEFINE t1 == SetKid(SetKid(t, p, o, z), n, d, p)
           t2 == PaintIfThere(t1, z, p, FALSE)
<1>5. IsKidsSet(t, p, o, z, n, d, p, t1)
  BY <1>1, <1>2, KidsSet
<1>6. IsPainted(t1, z, p, FALSE, t2)
  <2>1. t1 \in Trees
    BY <1>5 DEF IsKidsSet
  <2> HIDE DEF t1
  <2> QED BY <2>1, PaintedIfThere
<1>7. r = rb_set_parent_color(t2, p, n, TRUE)
  BY <1>3, <1>4 DEF InsertRotateParent
<1>8. IsPainted(t2, p, n, TRUE, r)
  <2>1. t2 \in Trees
    BY <1>6 DEF IsPainted
  <2> HIDE DEF t2
  <2> QED BY <1>7, <2>1, Painted
<1> HIDE DEF t1, t2
<1>9. /\ r \in Trees /\ r.root = t.root
      /\ \A m \in Nodes : r.up[m] = IF m = p THEN n ELSE IF m = z THEN p ELSE t.up[m]
      /\ \A m \in Nodes, s \in Sides : r.kid[m][s] =
           IF m = p /\ s = o THEN z ELSE IF m = n /\ s = d THEN p ELSE t.kid[m][s]
  BY <1>1, <1>5, <1>6, <1>8 DEF IsKidsSet, IsPainted
<1>10. \A m \in Nodes : r.red[m] <=> m # z /\ t.red[m]
  BY <1>1, <1>5, <1>6, <1>8 DEF IsKidsSet, IsPainted
<1>11. HalfTurned(t, t2, p, n, o)
  <2>1. t.kid[n][Other(o)] = z
    BY <1>3, <1>4
  <2>2. /\ t2 \in Trees /\ t2.root = t.root
        /\ \A m \in Nodes : t2.up[m] = IF m = z THEN p ELSE t.up[m]
        /\ \A m \in Nodes, s \in Sides : t2.kid[m][s] =
             IF m = p /\ s = o THEN z ELSE IF m = n /\ s = d THEN p ELSE t.kid[m][s]
    BY <1>1, <1>5, <1>6 DEF IsKidsSet, IsPainted
  <2> QED BY <1>3, <2>1, <2>2 DEF HalfTurned
<1>20. \A m \in Nodes : t2.red[m] <=> m # z /\ t.red[m]
  BY <1>1, <1>5, <1>6 DEF IsKidsSet, IsPainted
<1> DEFINE u == rotate_set_parents(t2, p, n, TRUE)
<1>12. Rotated(t, t2, u, p, n, o, TRUE)
  BY <1>4, <1>11, RotationTurns
<1> HIDE DEF u
<1>13. u \in Trees /\ Turned(t, u, p, n, o)
  BY <1>12 DEF Rotated
<1>14. r.red[p] /\ t2.red[p] /\ t2.red[n] /\ \A m \in Nodes : t2.red[m] <=> r.red[m]
  BY <1>1, <1>10, <1>20
<1>15. \A m \in Nodes : u.red[m] <=> r.red[m]
  BY <1>12, <1>14 DEF Rotated
<1>16. u.red = r.red
  <2>1. u.red \in [Nodes -> BOOLEAN] /\ r.red \in [Nodes -> BOOLEAN]
    BY <1>9, <1>13 DEF Trees
  <2> QED BY <1>15, <2>1
<1>17. SameBut(u, r, g, d, {n})
  <2>1. t.up[p] = g /\ g # NULL
    BY <1>1 DEF Chain
  <2>2. t.kid[n][Other(o)] = z
    BY <1>3, <1>4
  <2>3. u.root = t.root
    BY <1>13, <2>1 DEF Turned
  <2>4. \A m \in Nodes \ {n} : u.up[m] = r.up[m]
    BY <1>9, <1>13, <2>2 DEF Turned
  <2>5. \A s \in Sides : t.kid[g][s] = p => s = d
    BY DEF Sides, Chain
  <2>6. \A m \in Nodes, s \in Sides : u.kid[m][s] =
          IF m = p /\ s = o THEN z ELSE IF m = n /\ s = d THEN p
          ELSE IF m = g /\ t.kid[m][s] = p THEN n ELSE t.kid[m][s]
    BY <1>3, <1>13, <2>1, <2>2 DEF Turned
  <2>7. \A m \in Nodes, s \in Sides : m # g \/ s # d => r.kid[m][s] = u.kid[m][s]
    BY <1>9, <2>5, <2>6
  <2> QED BY <1>9, <1>16, <2>3, <2>4, <2>7 DEF SameBut
<1>18. \A m \in Nodes : u.red[m] <=> m # t.kid[n][d] /\ t.red[m]
  BY <1>4, <1>10, <1>15
<1>19. InnerTurned(t, r, u, n, p, g, d)
  BY <1>3, <1>13, <1>17, <1>18 DEF InnerTurned
<1> QED BY <1>19

(* n is the inner grandchild of g, and the uncle is black. *)
Inside(t, n, p, g, d, o) ==
  t.red[n] /\ t.red[p] /\ ~ t.red[g] /\ ~ IsRed(t, t.kid[g][o])

(* Then p is the outer child that is left to repair. *)
LEMMA ParentTurns ==
  ASSUME NEW t, NEW pos, NEW n \in Nodes, Firm(t, pos, {n}, NULL, "left"),
         NEW g \in Nodes, NEW p \in Nodes, NEW z \in Nodes \cup {NULL},
         NEW d \in Sides, NEW o \in Sides, Chain(t, g, p, n, z, d, o),
         Inside(t, n, p, g, d, o), NEW r, NEW u, InnerTurned(t, r, u, n, p, g, d)
  PROVE  /\ Firm(u, pos, {p}, NULL, "left") /\ InTree(u) = InTree(t)
         /\ Outside(u, p, n, g, d)
<1>1. Shape(t, pos) /\ t \in Trees /\ NoRedPair(t, {n})
  BY DEF Firm, Shape
<1>2. t.red[n] /\ t.red[p] /\ ~ t.red[g] /\ ~ IsRed(t, t.kid[g][o])
  BY DEF Inside
<1>3. /\ o # d /\ n # p /\ p # g /\ g # n /\ z # n /\ z # p /\ z # g /\ NULL \notin Nodes
      /\ p \in InTree(t) /\ n \in InTree(t)
  BY DEF Chain
<1>4. o = Other(d) /\ Other(o) = d
  BY <1>3 DEF Sides, Other
<1>5. t.kid[n][d] = z /\ t.kid[p][o] = n /\ t.up[p] = g
  BY DEF Chain
<1>6. u \in Trees /\ Turned(t, u, p, n, o) /\ \A m \in Nodes : u.red[m] <=> m # z /\ t.red[m]
  BY <1>4, <1>5 DEF InnerTurned
<1>7. z # NULL => ~ t.red[z]
  <2>1. z # NULL => t.up[z] = n
    BY DEF Chain
  <2> QED BY <1>1, <1>2, <1>3, <2>1 DEF NoRedPair
<1>8. \A m \in Nodes : u.red[m] <=> t.red[m]
  BY <1>3, <1>6, <1>7
<1>9. Shape(u, pos) /\ InTree(u) = InTree(t)
  <2>1. \A m \in Nodes \ InTree(t) : ~ u.red[m]
    BY <1>1, <1>8 DEF Shape
  <2> QED BY <1>1, <1>5, <1>6, <2>1, TurnKeepsShape
<1>10. t.kid[n][Other(o)] = z
  BY <1>4, <1>5
<1>11. \A m \in Nodes : u.up[m] = IF m = p THEN n ELSE IF m = n THEN g
                                 ELSE IF m = z THEN p ELSE t.up[m]
  BY <1>5, <1>6, <1>10 DEF Turned
<1>12. \A m \in Nodes, s \in Sides : u.kid[m][s] =
            IF m = p /\ s = o THEN z ELSE IF m = n /\ s = d THEN p
            ELSE IF m = g /\ t.kid[m][s] = p THEN n ELSE t.kid[m][s]
  BY <1>4, <1>5, <1>6, <1>10 DEF Turned
<1>13. NoRedPair(u, {p})
  <2> SUFFICES ASSUME NEW m \in Nodes, m # p, u.red[m] PROVE u.up[m] \in Nodes /\ ~ u.red[u.up[m]]
    BY DEF NoRedPair
  <2>1. CASE m = n
    BY <1>2, <1>3, <1>8, <1>11, <2>1
  <2>2. CASE m # n
    <3>1. t.red[m] /\ m # z
      BY <1>6
    <3>2. u.up[m] = t.up[m] /\ t.up[m] \in Nodes /\ ~ t.red[t.up[m]]
      BY <1>1, <1>11, <2>2, <3>1 DEF NoRedPair
    <3> QED BY <1>8, <3>2
  <2> QED BY <2>1, <2>2
<1>14. PICK bh \in [Nodes -> Nat] : Even(t, bh, NULL, "left")
  BY DEF Firm, Balanced
<1>15. \A m \in Nodes, s \in Sides :
         /\ KidHeight(t, bh, m, s) \in Nat
         /\ bh[m] = KidHeight(t, bh, m, s) + (IF t.red[m] THEN 0 ELSE 1)
  BY <1>1, <1>14, NoGapHeights
<1>16. \A s \in Sides : KidHeight(t, bh, p, s) = bh[p] /\ KidHeight(t, bh, n, s) = bh[n]
  BY <1>2, <1>15
<1>17. bh[n] = bh[p] /\ bh[n] \in Nat /\ bh[p] \in Nat
  <2>1. KidHeight(t, bh, p, o) = bh[n]
    BY <1>3, <1>5 DEF KidHeight
  <2>2. bh[n] \in Nat /\ bh[p] \in Nat
    BY <1>14
  <2> QED BY <1>16, <2>1, <2>2
<1>18. HandedOver(t, u, p, n, o, bh, bh)
  BY <1>1, <1>5, <1>6, <1>17, TurnedHeights
<1>19. \A s \in Sides : s = d \/ s = o
  BY <1>3 DEF Sides
<1>20. \A s \in Sides : KidHeight(u, bh, p, s) = bh[p] /\ KidHeight(u, bh, n, s) = bh[p]
  BY <1>4, <1>16, <1>17, <1>18, <1>19 DEF HandedOver
<1>21. ASSUME NEW m \in Nodes, NEW s \in Sides
       PROVE  bh[m] = KidHeight(u, bh, m, s) + (IF u.red[m] THEN 0 ELSE 1)
  <2>1. CASE m \in {p, n}
    <3>1. u.red[m] /\ bh[m] = bh[p] /\ KidHeight(u, bh, m, s) = bh[p]
      BY <1>2, <1>8, <1>17, <1>20, <2>1
    <3> QED BY <1>17, <3>1
  <2>2. CASE m \notin {p, n}
    BY <1>8, <1>15, <1>18, <2>2 DEF HandedOver
  <2> QED BY <2>1, <2>2
<1>22. Balanced(u, NULL, "left")
  BY <1>9, <1>14, <1>21, EvenWithoutGap
<1>23. Outside(u, p, n, g, d)
  <2>1. t.kid[g][d] = p /\ t.kid[g][o] # p /\ t.kid[g][o] \in Nodes \cup {NULL}
    BY DEF Chain
  <2>2. u.kid[g][d] = n /\ u.kid[n][d] = p /\ u.kid[g][o] = t.kid[g][o]
    BY <1>3, <1>12, <2>1
  <2> QED BY <1>2, <1>4, <1>8, <2>1, <2>2 DEF Outside, IsRed
<1> QED BY <1>9, <1>13, <1>22, <1>23 DEF Firm

(* One iteration: the loop goes on at a red node, or the tree is whole.    *)
GoesOn(t, pos, l) ==
  /\ InTree(l.t) = InTree(t)
  /\ IF l.more THEN /\ l.node \in Nodes /\ l.t.red[l.node] /\ l.parent = l.t.up[l.node]
                    /\ Firm(l.t, pos, {l.node}, NULL, "left")
                    /\ \E g, p, uncle \in Nodes :
                         Flipped(t, l.t, p, g, uncle) /\ p # uncle /\ t.red[p] /\ t.red[uncle]
     ELSE Firm(l.t, pos, {}, NULL, "left")

(* The fields of what an iteration returns. *)
IsLoop(l, t, n, p, more) == l.t = t /\ l.node = n /\ l.parent = p /\ (l.more <=> more)

(* Loop sets them so. *)
LEMMA LoopFields ==
  ASSUME NEW t, NEW n, NEW p, NEW more \in BOOLEAN
  PROVE  IsLoop(Loop(t, n, p, more), t, n, p, more)
BY DEF Loop, IsLoop

(* An iteration of the loop of __rb_insert, from its invariant, leaves the *)
(* invariant or a red-black tree.                                          *)
LEMMA InsertIterates ==
  ASSUME NEW t, NEW pos, NEW n \in Nodes, Firm(t, pos, {n}, NULL, "left"), t.red[n],
         NEW l, l = InsertIteration(Loop(t, n, t.up[n], TRUE))
  PROVE  GoesOn(t, pos, l)
<1>1. Shape(t, pos) /\ t \in Trees /\ NoRedPair(t, {n})
  BY DEF Firm, Shape
<1>2. PICK p \in Nodes \cup {NULL} : p = t.up[n]
  BY <1>1 DEF Trees
<1>3. CASE p = NULL
  <2>1. PICK u : u = rb_set_parent_color(t, n, NULL, FALSE) /\ l = Loop(u, n, NULL, FALSE)
    BY <1>2, <1>3 DEF InsertIteration, Loop
  <2>2. IsPainted(t, n, NULL, FALSE, u)
    BY <1>1, <2>1, Painted
  <2>3. Firm(u, pos, {}, NULL, "left") /\ InTree(u) = InTree(t)
    BY <1>2, <1>3, <2>2, RootPainted
  <2>4. IsLoop(l, u, n, NULL, FALSE)
    BY <2>1, LoopFields
  <2>5. l.t = u /\ ~ l.more
    BY <2>4 DEF IsLoop
  <2> QED BY <2>3, <2>5 DEF GoesOn
<1>4. CASE p # NULL /\ ~ t.red[p]
  <2>1. l = Loop(t, n, p, FALSE)
    BY <1>2, <1>4 DEF InsertIteration, Loop
  <2>2. Firm(t, pos, {}, NULL, "left")
    BY <1>2, <1>4, BlackParent
  <2> QED BY <2>1, <2>2 DEF GoesOn, Loop
<1>5. CASE p # NULL /\ t.red[p]
  <2>1. p \in Nodes
    BY <1>5
  <2>2. n # p /\ \E s \in Sides : t.kid[p][s] = n
    BY <1>1, <1>2, <1>5, KidsApart
  <2>3. PICK g \in Nodes : g = t.up[p] /\ ~ t.red[g] /\ g # NULL
    BY <1>1, <1>5, <2>1, <2>2, NullAssumption DEF NoRedPair
  <2>4. PICK d \in Sides : d = IF p # t.kid[g]["right"] THEN "left" ELSE "right"
    BY DEF Sides
  <2>5. t.kid[g][d] = p
    <3>1. PICK s \in Sides : t.kid[g][s] = p
      BY <1>1, <2>1, <2>3, KidsApart
    <3> QED BY <2>4, <3>1 DEF Sides
  <2>6. PICK o \in Sides : o = Other(d) /\ o # d
    BY SidesAre
  <2>7. PICK uncle \in Nodes \cup {NULL} : uncle = t.kid[g][o]
    BY <1>1, KidsApart
  <2> DEFINE inner == n = t.kid[p][Other(d)]
             top == IF inner THEN n ELSE p
             t1 == IF inner THEN InsertRotateParent(t, n, p, d) ELSE t
  <2>8. l = IF IsRed(t, uncle) THEN InsertFlip(t, p, g, uncle)
            ELSE Loop(InsertRotateGparent(t1, top, g, d), n, top, FALSE)
    <3>1. l = InsertIteration([t |-> t, node |-> n, parent |-> p, more |-> TRUE])
      BY <1>2 DEF Loop
    <3> QED BY <1>5, <2>3, <2>4, <2>6, <2>7, <3>1 DEF InsertIteration
  <2> HIDE DEF inner, top, t1
  <2>9. CASE IsRed(t, uncle)
    <3>1. uncle \in Nodes /\ t.red[uncle]
      BY <2>9 DEF IsRed
    <3>2. l = InsertFlip(t, p, g, uncle)
      BY <2>8, <2>9
    <3>3. Brothers(t, g, p, uncle, d)
      BY <2>5, <2>6, <2>7 DEF Brothers
    <3>4. PICK u : Flipped(t, u, p, g, uncle) /\ InsertFlip(t, p, g, uncle) = Loop(u, g, t.up[g],
          TRUE)
      BY <1>1, <2>1, <3>1, <3>3, FlipPaints
    <3>5. Firm(u, pos, {g}, NULL, "left") /\ InTree(u) = InTree(t)
      BY <1>2, <1>5, <2>1, <2>3, <3>1, <3>3, <3>4, FlipRepairs
    <3>6. u.red[g] /\ u.up = t.up
      BY <3>4 DEF Flipped, SameLinks
    <3>7. IsLoop(l, u, g, t.up[g], TRUE)
      BY <3>2, <3>4, LoopFields
    <3>8. l.t = u /\ l.more /\ l.node = g /\ l.parent = t.up[g]
      BY <3>7 DEF IsLoop
    <3>9. p # uncle
      <4>1. t.kid[g][d] # NULL /\ t.kid[g][Other(d)] = uncle
        BY <1>5, <2>5, <2>6, <2>7
      <4> QED BY <1>1, <2>3, <2>5, <4>1, KidsApart
    <3> QED BY <1>5, <2>1, <2>3, <3>1, <3>4, <3>5, <3>6, <3>8, <3>9 DEF GoesOn
  <2>10. CASE ~ IsRed(t, uncle) /\ n # t.kid[p][o]
    <3>1. n = t.kid[p][d]
      BY <2>2, <2>6, <2>10 DEF Sides
    <3>2. ~ inner /\ top = p /\ t1 = t
      BY <2>6, <2>10 DEF inner, top, t1
    <3>3. PICK u : u = InsertRotateGparent(t, p, g, d) /\ l = Loop(u, n, p, FALSE)
      BY <2>8, <2>10, <3>2
    <3>4. Outside(t, n, p, g, d)
      BY <1>5, <2>3, <2>5, <2>6, <2>7, <2>10, <3>1 DEF Outside
    <3>5. SameBut(t, t, g, d, {p})
      BY <1>1 DEF SameBut
    <3>6. GparentTurned(t, u, g, p, d)
      BY <1>1, <2>1, <2>5, <3>3, <3>5, RotateGparent
    <3>7. Firm(u, pos, {}, NULL, "left") /\ InTree(u) = InTree(t)
      BY <2>1, <3>4, <3>6, GparentRepairs
    <3> QED BY <3>3, <3>7 DEF GoesOn, Loop
  <2>11. CASE ~ IsRed(t, uncle) /\ n = t.kid[p][o]
    <3>1. inner /\ top = n /\ t1 = InsertRotateParent(t, n, p, d)
      BY <2>6, <2>11 DEF inner, top, t1
    <3>2. PICK v : v = InsertRotateGparent(t1, n, g, d) /\ l = Loop(v, n, n, FALSE)
      BY <2>8, <2>11, <3>1
    <3>3. PICK z \in Nodes \cup {NULL} : z = t.kid[n][d]
      BY <1>1, KidsApart
    <3>4. Chain(t, g, p, n, z, d, o)
      BY <1>1, <2>1, <2>5, <2>6, <2>11, <3>3, ChainOf
    <3>5. PICK u : InnerTurned(t, t1, u, n, p, g, d)
      BY <1>1, <1>5, <2>1, <3>1, <3>4, RotateParent
    <3>6. Inside(t, n, p, g, d, o)
      BY <1>5, <2>3, <2>7, <2>11 DEF Inside
    <3>7. Firm(u, pos, {p}, NULL, "left") /\ InTree(u) = InTree(t) /\ Outside(u, p, n, g, d)
      BY <2>1, <3>4, <3>5, <3>6, ParentTurns
    <3>8. SameBut(u, t1, g, d, {n}) /\ n = u.kid[g][d] /\ Shape(u, pos)
      BY <3>5, <3>7 DEF InnerTurned, Outside, Firm
    <3>9. GparentTurned(u, v, g, n, d)
      BY <3>2, <3>8, RotateGparent
    <3>10. Firm(v, pos, {}, NULL, "left") /\ InTree(v) = InTree(u)
      BY <2>1, <3>7, <3>9, GparentRepairs
    <3> QED BY <3>2, <3>7, <3>10 DEF GoesOn, Loop
  <2> QED BY <2>9, <2>10, <2>11
<1> QED BY <1>3, <1>4, <1>5

(* A node is linked where there was none. *)
IsLinked(t, u, n, p, s) ==
  /\ u \in Trees /\ u.root = IF p = NULL THEN n ELSE t.root
  /\ \A m \in Nodes : /\ u.up[m] = IF m = n THEN p ELSE t.up[m]
                      /\ (u.red[m] <=> m = n \/ t.red[m])
  /\ \A m \in Nodes, e \in Sides : u.kid[m][e] =
       IF m = p /\ e = s THEN n ELSE t.kid[m][e]

(* rb_link_node, which makes it red as the zeroed parent pointer of a new  *)
(* node is.                                                                *)
LEMMA NodeLinked ==
  ASSUME NEW t \in Trees, NEW n \in Nodes, NEW p \in Nodes \cup {NULL}, NEW s \in Sides, p # n,
         t.kid[n] = NoKids
  PROVE  IsLinked(t, rb_link_node(t, n, p, s), n, p, s)
<1> DEFINE t1 == [t EXCEPT !.up[n] = p, !.red[n] = TRUE, !.kid[n] = NoKids]
<1>1. /\ t1 \in Trees /\ t1.root = t.root
      /\ \A m \in Nodes : /\ t1.up[m] = IF m = n THEN p ELSE t.up[m]
                          /\ (t1.red[m] <=> m = n \/ t.red[m])
      /\ \A m \in Nodes, e \in Sides : t1.kid[m][e] = t.kid[m][e]
  BY DEF Trees, NoKids
<1>2. rb_link_node(t, n, p, s) = IF p = NULL THEN [t1 EXCEPT !.root = n] ELSE SetKid(t1, p, s, n)
  BY DEF rb_link_node
<1> HIDE DEF t1
<1>3. CASE p = NULL
  <2>1. PICK u : u = [t1 EXCEPT !.root = n] /\ u = rb_link_node(t, n, p, s)
    BY <1>2, <1>3
  <2>2. u \in Trees /\ u.root = n /\ u.up = t1.up /\ u.red = t1.red /\ u.kid = t1.kid
    BY <1>1, <2>1 DEF Trees
  <2> QED BY <1>1, <1>3, <2>1, <2>2, NullAssumption DEF IsLinked
<1>4. CASE p # NULL
  <2>1. PICK u : u = SetKid(t1, p, s, n) /\ u = rb_link_node(t, n, p, s)
    BY <1>2, <1>4
  <2>2. IsKidSet(t1, p, s, n, u)
    BY <1>1, <1>4, <2>1, KidSet
  <2> QED BY <1>1, <1>4, <2>1, <2>2 DEF IsLinked, IsKidSet
<1> QED BY <1>3, <1>4

(* The others move apart, and n comes next to p on side s. *)
MakesRoom(pos, pos2, n, p, s) ==
  /\ \A m \in Nodes : m # n => pos2[m] = 2 * pos[m]
  /\ p # NULL => pos2[n] = IF s = "left" THEN 2 * pos[p] - 1 ELSE 2 * pos[p] + 1

(* A new leaf is red: heights stay even, and its own parent may be red.    *)
(* It takes the position before or after that of its parent and the others *)
(* make room.                                                              *)
LEMMA LinkingFirm ==
  ASSUME NEW t, NEW pos, Firm(t, pos, {}, NULL, "left"), NEW n \in Nodes, n \notin InTree(t),
         NEW p \in Nodes \cup {NULL}, NEW s \in Sides,
         p = NULL => t.root = NULL, p # NULL => p \in InTree(t) /\ t.kid[p][s] = NULL,
         NEW u, IsLinked(t, u, n, p, s)
  PROVE  \E pos2 : /\ Firm(u, pos2, {n}, NULL, "left") /\ InTree(u) = InTree(t) \cup {n}
                   /\ MakesRoom(pos, pos2, n, p, s)
<1>1. Shape(t, pos) /\ t \in Trees /\ NoRedPair(t, {}) /\ LinksAgree(t) /\ pos \in [Nodes -> Int]
  BY DEF Firm, Shape
<1>2. t.up[n] = NULL /\ n # t.root /\ ~ t.red[n] /\ t.kid[n] = NoKids /\ p # n /\ NULL \notin Nodes
  BY <1>1, NullAssumption DEF InTree, Shape
<1>3. \A m \in Nodes, e \in Sides : t.kid[m][e] # n /\ t.kid[m][e] \in Nodes \cup {NULL}
  BY <1>1, <1>2, KidsApart
<1>19. /\ \A m \in Nodes, e \in Sides : t.kid[m][e] # NULL => t.up[t.kid[m][e]] = m
       /\ \A m \in Nodes : t.up[m] # NULL => \E e \in Sides : t.kid[t.up[m]][e] = m
  BY <1>1, KidsApart
<1>4. /\ u \in Trees /\ u.root = IF p = NULL THEN n ELSE t.root
      /\ \A m \in Nodes : /\ u.up[m] = IF m = n THEN p ELSE t.up[m]
                          /\ (u.red[m] <=> m = n \/ t.red[m])
      /\ \A m \in Nodes, e \in Sides : u.kid[m][e] =
           IF m = p /\ e = s THEN n ELSE t.kid[m][e]
  BY DEF IsLinked
<1>5. \A e \in Sides : u.kid[n][e] = NULL
  BY <1>2, <1>4 DEF NoKids
<1>6. InTree(u) = InTree(t) \cup {n}
  BY <1>2, <1>4 DEF InTree
<1>7. LinksAgree(u)
  <2>1. u.root # NULL => u.up[u.root] = NULL
    <3>1. t.root # NULL => t.up[t.root] = NULL /\ t.root \in Nodes
      BY <1>1 DEF LinksAgree, Trees
    <3> QED BY <1>2, <1>4, <3>1
  <2>2. ASSUME NEW m \in Nodes, NEW e \in Sides, u.kid[m][e] # NULL
        PROVE  u.up[u.kid[m][e]] = m
    <3>1. CASE m = p /\ e = s
      BY <1>4, <3>1
    <3>2. CASE ~ (m = p /\ e = s)
      <4>1. u.kid[m][e] = t.kid[m][e] /\ t.kid[m][e] \in Nodes /\ t.kid[m][e] # n
        BY <1>3, <1>4, <2>2, <3>2
      <4>2. t.up[t.kid[m][e]] = m
        BY <1>2, <1>19, <4>1
      <4> QED BY <1>4, <4>1, <4>2
    <3> QED BY <3>1, <3>2
  <2>3. ASSUME NEW m \in Nodes, u.up[m] # NULL
        PROVE  m \in {u.kid[u.up[m]][e] : e \in Sides}
    <3>1. CASE m = n
      BY <1>4, <2>3, <3>1
    <3>2. CASE m # n
      <4>1. PICK q \in Nodes : q = t.up[m] /\ q = u.up[m]
        BY <1>1, <1>4, <2>3, <3>2 DEF Trees
      <4>2. PICK e \in Sides : t.kid[q][e] = m
        BY <1>2, <1>19, <4>1
      <4>3. u.kid[q][e] = m
        BY <1>2, <1>4, <4>1, <4>2
      <4> QED BY <4>1, <4>3
    <3> QED BY <3>1, <3>2
  <2> QED BY <2>1, <2>2, <2>3 DEF LinksAgree
<1>8. \A m \in Nodes \ InTree(u) : ~ u.red[m] /\ u.kid[m] = NoKids
  <2> SUFFICES ASSUME NEW m \in Nodes \ InTree(u) PROVE ~ u.red[m] /\ u.kid[m] = NoKids
    OBVIOUS
  <2>1. ~ t.red[m] /\ t.kid[m] = NoKids /\ m # n /\ m # p
    BY <1>1, <1>2, <1>6 DEF Shape
  <2>2. u.kid[m] \in [Sides -> Nodes \cup {NULL}] /\ \A e \in Sides : u.kid[m][e] = NULL
    BY <1>4, <2>1 DEF NoKids, Trees
  <2> QED BY <1>4, <2>1, <2>2 DEF NoKids
<1>9. PICK lo, hi \in [Nodes -> Int] : Nested(t, pos, lo, hi)
  BY <1>1 DEF Shape, Ordered
<1> DEFINE at == IF p = NULL THEN 0 ELSE IF s = "left" THEN 2 * pos[p] - 1 ELSE 2 * pos[p] + 1
           pos2 == [m \in Nodes |-> IF m = n THEN at ELSE 2 * pos[m]]
           lo2  == [m \in Nodes |-> IF m = n THEN at ELSE 2 * lo[m] - 1]
           hi2  == [m \in Nodes |-> IF m = n THEN at ELSE 2 * hi[m] + 1]
<1>10. at \in Int
  BY <1>1
<1>11. pos2 \in [Nodes -> Int] /\ lo2 \in [Nodes -> Int] /\ hi2 \in [Nodes -> Int]
  <2> HIDE DEF at
  <2> QED BY <1>1, <1>9, <1>10
<1>12. Nested(u, pos2, lo2, hi2)
  <2> SUFFICES ASSUME NEW m \in Nodes
               PROVE  /\ lo2[m] =< pos2[m] /\ pos2[m] =< hi2[m]
                      /\ u.kid[m]["left"] # NULL =>
                           lo2[m] =< lo2[u.kid[m]["left"]] /\ hi2[u.kid[m]["left"]] < pos2[m]
                      /\ u.kid[m]["right"] # NULL =>
                           pos2[m] < lo2[u.kid[m]["right"]] /\ hi2[u.kid[m]["right"]] =< hi2[m]
    BY DEF Nested
  <2>1. CASE m = n
    <3>1. u.kid[n]["left"] = NULL /\ u.kid[n]["right"] = NULL
      BY <1>5 DEF Sides
    <3>2. lo2[n] = at /\ pos2[n] = at /\ hi2[n] = at
      OBVIOUS
    <3> HIDE DEF at, lo2, pos2, hi2
    <3> QED BY <1>10, <2>1, <3>1, <3>2
  <2>2. CASE m # n
    <3>1. /\ lo2[m] = 2 * lo[m] - 1 /\ pos2[m] = 2 * pos[m] /\ hi2[m] = 2 * hi[m] + 1
          /\ lo[m] \in Int /\ pos[m] \in Int /\ hi[m] \in Int
          /\ lo[m] =< pos[m] /\ pos[m] =< hi[m]
      BY <1>1, <1>9, <2>2 DEF Nested
    <3>2. ASSUME u.kid[m]["left"] # NULL
          PROVE  lo2[m] =< lo2[u.kid[m]["left"]] /\ hi2[u.kid[m]["left"]] < pos2[m]
      <4>1. CASE m = p /\ s = "left"
        <5>1. u.kid[m]["left"] = n /\ lo2[n] = 2 * pos[m] - 1 /\ hi2[n] = 2 * pos[m] - 1
          BY <1>2, <1>4, <4>1 DEF Sides
        <5> HIDE DEF lo2, pos2, hi2
        <5> QED BY <3>1, <5>1
      <4>2. CASE ~ (m = p /\ s = "left")
        <5>1. PICK k \in Nodes : k = t.kid[m]["left"] /\ k # n /\ k = u.kid[m]["left"]
          BY <1>3, <1>4, <3>2, <4>2 DEF Sides
        <5>2. /\ lo2[k] = 2 * lo[k] - 1 /\ hi2[k] = 2 * hi[k] + 1
              /\ lo[k] \in Int /\ hi[k] \in Int /\ lo[m] =< lo[k] /\ hi[k] < pos[m]
          BY <1>2, <1>9, <5>1 DEF Nested
        <5> HIDE DEF lo2, pos2, hi2
        <5> QED BY <3>1, <5>1, <5>2
      <4> QED BY <4>1, <4>2
    <3>3. ASSUME u.kid[m]["right"] # NULL
          PROVE  pos2[m] < lo2[u.kid[m]["right"]] /\ hi2[u.kid[m]["right"]] =< hi2[m]
      <4>1. CASE m = p /\ s = "right"
        <5>1. u.kid[m]["right"] = n /\ lo2[n] = 2 * pos[m] + 1 /\ hi2[n] = 2 * pos[m] + 1
          BY <1>2, <1>4, <4>1, SidesAre DEF Sides
        <5> HIDE DEF lo2, pos2, hi2
        <5> QED BY <3>1, <5>1
      <4>2. CASE ~ (m = p /\ s = "right")
        <5>1. PICK k \in Nodes : k = t.kid[m]["right"] /\ k # n /\ k = u.kid[m]["right"]
          BY <1>3, <1>4, <3>3, <4>2 DEF Sides
        <5>2. /\ lo2[k] = 2 * lo[k] - 1 /\ hi2[k] = 2 * hi[k] + 1
              /\ lo[k] \in Int /\ hi[k] \in Int /\ pos[m] < lo[k] /\ hi[k] =< hi[m]
          BY <1>2, <1>9, <5>1 DEF Nested
        <5> HIDE DEF lo2, pos2, hi2
        <5> QED BY <3>1, <5>1, <5>2
      <4> QED BY <4>1, <4>2
    <3> HIDE DEF lo2, pos2, hi2
    <3>4. lo2[m] =< pos2[m] /\ pos2[m] =< hi2[m]
      BY <3>1
    <3> QED BY <3>2, <3>3, <3>4
  <2> QED BY <2>1, <2>2
<1>13. Shape(u, pos2)
  <2> HIDE DEF pos2, lo2, hi2
  <2> QED BY <1>4, <1>7, <1>8, <1>11, <1>12 DEF Shape, Ordered
<1>14. NoRedPair(u, {n})
  <2> SUFFICES ASSUME NEW m \in Nodes, m # n, u.red[m] PROVE u.up[m] \in Nodes /\ ~ u.red[u.up[m]]
    BY DEF NoRedPair
  <2>1. t.red[m] /\ u.up[m] = t.up[m] /\ t.up[m] \in Nodes /\ ~ t.red[t.up[m]]
    BY <1>1, <1>4 DEF NoRedPair
  <2>2. t.up[m] # n
    BY <1>1, <1>2, <1>3, <2>1, KidsApart DEF InTree
  <2> QED BY <1>4, <2>1, <2>2
<1>15. PICK bh \in [Nodes -> Nat] : Even(t, bh, NULL, "left")
  BY DEF Firm, Balanced
<1> DEFINE bh2 == [bh EXCEPT ![n] = 0]
<1>16. bh2 \in [Nodes -> Nat]
  BY <1>15
<1>17. ASSUME NEW m \in Nodes, NEW e \in Sides
       PROVE  bh2[m] = KidHeight(u, bh2, m, e) + (IF u.red[m] THEN 0 ELSE 1)
  <2>1. KidHeight(t, bh, m, e) \in Nat
          /\ bh[m] = KidHeight(t, bh, m, e) + (IF t.red[m] THEN 0 ELSE 1)
    BY <1>1, <1>15, NoGapHeights
  <2>2. CASE m = n
    BY <1>4, <1>5, <1>15, <2>2 DEF KidHeight
  <2>3. CASE m # n
    <3>1. KidHeight(u, bh2, m, e) = KidHeight(t, bh, m, e)
      <4>1. CASE m = p /\ e = s
        <5>1. u.kid[m][e] = n /\ t.kid[m][e] = NULL /\ n # NULL /\ bh2[n] = 0
          BY <1>2, <1>4, <1>15, <4>1
        <5> HIDE DEF bh2
        <5> QED BY <5>1 DEF KidHeight
      <4>2. CASE ~ (m = p /\ e = s)
        BY <1>3, <1>4, <1>15, <4>2 DEF KidHeight
      <4> QED BY <4>1, <4>2
    <3> QED BY <1>4, <1>15, <2>1, <2>3, <3>1
  <2> QED BY <2>2, <2>3
<1>18. Balanced(u, NULL, "left")
  <2> HIDE DEF bh2, pos2
  <2> QED BY <1>13, <1>16, <1>17, EvenWithoutGap
<1>20. MakesRoom(pos, pos2, n, p, s)
  BY DEF MakesRoom
<1> HIDE DEF pos2
<1> QED BY <1>6, <1>13, <1>14, <1>18, <1>20 DEF Firm

(***************************************************************************)
(* Inserting by a key, from the search to the end of the loop.             *)
(***************************************************************************)

(* The red nodes. *)
Reds(t) == {m \in Nodes : t.red[m]}

(* The flip of case 1 makes one of two red nodes' parents red for them.    *)
LEMMA FlipLessRed ==
  ASSUME IsFiniteSet(Nodes), NEW t, NEW u, NEW p \in Nodes, NEW g \in Nodes, NEW uncle \in Nodes,
         Flipped(t, u, p, g, uncle), p # uncle, t.red[p], t.red[uncle]
  PROVE  /\ Cardinality(Reds(t)) \in Nat /\ Cardinality(Reds(u)) \in Nat
         /\ Cardinality(Reds(u)) < Cardinality(Reds(t))
<1> DEFINE A == Reds(t) \ {p, uncle}
<1>1. Reds(u) \subseteq A \cup {g} /\ A \subseteq Nodes
  BY DEF Reds, Flipped
<1>2. Reds(t) = (A \cup {p}) \cup {uncle} /\ p \notin A /\ uncle \notin A \cup {p}
  BY DEF Reds
<1>3. IsFiniteSet(A)
  <2> HIDE DEF A
  <2> QED BY <1>1, FS_Subset
<1> HIDE DEF A
<1>4. /\ IsFiniteSet(A \cup {p}) /\ IsFiniteSet(A \cup {g}) /\ Cardinality(A) \in Nat
      /\ Cardinality(A \cup {p}) = Cardinality(A) + 1
      /\ Cardinality(A \cup {g}) =< Cardinality(A) + 1
  <2>1. Cardinality(A) \in Nat
    BY <1>3, FS_CardinalityType
  <2>2. IsFiniteSet(A \cup {p}) /\ Cardinality(A \cup {p}) = Cardinality(A) + 1
    BY <1>2, <1>3, FS_AddElement
  <2>3. /\ IsFiniteSet(A \cup {g})
        /\ Cardinality(A \cup {g}) = Cardinality(A) \/ Cardinality(A \cup {g}) = Cardinality(A) + 1
    BY <1>3, FS_AddElement
  <2> QED BY <2>1, <2>2, <2>3
<1>5. Cardinality(Reds(t)) = Cardinality(A \cup {p}) + 1
  BY <1>2, <1>4, FS_AddElement
<1>6. Cardinality(Reds(u)) =< Cardinality(A \cup {g}) /\ IsFiniteSet(Reds(u))
  BY <1>1, <1>4, FS_Subset
<1>7. Cardinality(Reds(u)) \in Nat /\ Cardinality(A \cup {g}) \in Nat
  BY <1>4, <1>6, FS_CardinalityType
<1> QED BY <1>4, <1>5, <1>6, <1>7

(* Induction over the natural numbers, for a set of them.                  *)
LEMMA CountingUp ==
  ASSUME NEW S, 0 \in S, \A n \in Nat : n \in S => n + 1 \in S
  PROVE  Nat \subseteq S
<1> SUFFICES ASSUME Nat \ S # {} PROVE FALSE
  OBVIOUS
<1>1. PICK x \in Nat \ S : \A y \in Nat \ S : x =< y
  <2>1. Nat \ S \subseteq Nat
    OBVIOUS
  <2> QED BY <2>1, LeastNumber
<1>2. x # 0 /\ x - 1 \in Nat /\ x - 1 < x /\ (x - 1) + 1 = x
  BY <1>1
<1>3. x - 1 \in S
  BY <1>1, <1>2
<1> QED BY <1>1, <1>2, <1>3

(* One turn of rb_insert_color's loop, if there is one. *)
Turned1(l) == IF l.more THEN InsertIteration(l) ELSE l

(* n turns of it. *)
LoopRun(start, n, f) == f = [i \in 0 .. n |-> IF i = 0 THEN start ELSE Turned1(f[i - 1])]

(* A loop can be followed for any number of turns. *)
LEMMA LoopRuns ==
  ASSUME NEW start, NEW c \in Nat
  PROVE  \E run : LoopRun(start, c, run)
<1> DEFINE Run(n, f) == LoopRun(start, n, f)
           S == {n \in Nat : \E f : Run(n, f)}
<1>1. 0 \in S
  <2>1. Run(0, [i \in 0 .. 0 |-> start])
    BY DEF LoopRun
  <2> QED BY <2>1
<1>2. ASSUME NEW n \in Nat, n \in S PROVE n + 1 \in S
  <2>1. PICK f : Run(n, f)
    BY <1>2
  <2> DEFINE e == [i \in 0 .. n + 1 |-> IF i = n + 1 THEN Turned1(f[n]) ELSE f[i]]
  <2>2. ASSUME NEW i \in 0 .. n + 1
        PROVE  e[i] = IF i = 0 THEN start ELSE Turned1(e[i - 1])
    <3>1. CASE i = n + 1
      <4>1. i # 0 /\ i - 1 = n /\ e[i] = Turned1(f[n]) /\ e[i - 1] = f[n]
        BY <3>1
      <4> QED BY <4>1
    <3>2. CASE i # n + 1
      <4>1. i \in 0 .. n /\ e[i] = f[i] /\ (i # 0 => i - 1 \in 0 .. n /\ e[i - 1] = f[i - 1])
        BY <3>2
      <4>2. f[i] = IF i = 0 THEN start ELSE Turned1(f[i - 1])
        BY <2>1, <4>1 DEF LoopRun
      <4> QED BY <4>1, <4>2
    <3> QED BY <3>1, <3>2
  <2>3. e = [i \in 0 .. n + 1 |-> e[i]]
    OBVIOUS
  <2> HIDE DEF e
  <2>4. Run(n + 1, e)
    BY <2>2, <2>3 DEF LoopRun
  <2> QED BY <2>4
<1>3. Nat \subseteq S
  <2> HIDE DEF S
  <2> QED BY <1>1, <1>2, CountingUp
<1> QED BY <1>3

(* The loop ends: each of its turns but the last leaves fewer red nodes.   *)
LEMMA InsertionEnds ==
  ASSUME IsFiniteSet(Nodes), NEW t, NEW pos, NEW n \in Nodes,
         Firm(t, pos, {n}, NULL, "left"), t.red[n], NEW u, u = rb_insert_color(t, n)
  PROVE  Firm(u, pos, {}, NULL, "left") /\ InTree(u) = InTree(t)
<1> DEFINE c == Cardinality(Nodes)
           start == Loop(t, n, t.up[n], TRUE)
           Rest(f) == [i \in 0 .. c |-> IF i = 0 THEN start
                         ELSE IF f[i - 1].more THEN InsertIteration(f[i - 1]) ELSE f[i - 1]]
<1>1. c \in Nat
  BY FS_CardinalityType
<1>2. PICK run : run = Rest(run) /\ run = CHOOSE f : f = Rest(f)
  <2>1. PICK f : LoopRun(start, c, f)
    <3> HIDE DEF c, start
    <3> QED BY <1>1, LoopRuns
  <2>2. f = Rest(f)
    BY <2>1 DEF LoopRun, Turned1
  <2> HIDE DEF Rest
  <2> QED BY <2>2
<1>3. u = run[c].t
  BY <1>2 DEF rb_insert_color, RunLoop
<1> DEFINE Good(i) ==
             /\ InTree(run[i].t) = InTree(t)
             /\ IF run[i].more
                THEN /\ run[i].node \in Nodes /\ run[i].t.red[run[i].node]
                     /\ run[i].parent = run[i].t.up[run[i].node]
                     /\ Firm(run[i].t, pos, {run[i].node}, NULL, "left")
                     /\ Cardinality(Reds(run[i].t)) + i =< c
                ELSE Firm(run[i].t, pos, {}, NULL, "left")
           S == {i \in Nat : i =< c => Good(i)}
<1>4. \A x : IsFiniteSet(Reds(x)) /\ Cardinality(Reds(x)) \in Nat /\ Cardinality(Reds(x)) =< c
  <2> SUFFICES ASSUME NEW x
               PROVE  IsFiniteSet(Reds(x)) /\ Cardinality(Reds(x)) \in Nat
                      /\ Cardinality(Reds(x)) =< c
    OBVIOUS
  <2>1. Reds(x) \subseteq Nodes
    BY DEF Reds
  <2> QED BY <2>1, FS_Subset, FS_CardinalityType
<1>5. 0 \in S
  <2>1. run[0] = start
    BY <1>1, <1>2
  <2>2. IsLoop(run[0], t, n, t.up[n], TRUE)
    BY <2>1, LoopFields
  <2>3. run[0].t = t /\ run[0].node = n /\ run[0].parent = t.up[n] /\ run[0].more
    BY <2>2 DEF IsLoop
  <2>4. Cardinality(Reds(t)) + 0 =< c
    BY <1>1, <1>4
  <2> HIDE DEF c
  <2> QED BY <2>3, <2>4
<1>6. ASSUME NEW i \in Nat, i \in S, i + 1 =< c PROVE Good(i + 1)
  <2>1. i \in 0 .. c /\ i + 1 \in 0 .. c /\ i + 1 # 0 /\ i + 1 - 1 = i
    BY <1>1, <1>6
  <2>2. Good(i)
    BY <1>6, <2>1
  <2>3. run[i + 1] = IF run[i].more THEN InsertIteration(run[i]) ELSE run[i]
    <3>1. run = [j \in 0 .. c |-> IF j = 0 THEN start
                   ELSE IF run[j - 1].more THEN InsertIteration(run[j - 1]) ELSE run[j - 1]]
      BY <1>2
    <3> HIDE DEF start, c
    <3> QED BY <2>1, <3>1
  <2>4. CASE ~ run[i].more
    <3>1. run[i + 1] = run[i]
      BY <2>3, <2>4
    <3> QED BY <2>2, <2>4, <3>1
  <2>5. CASE run[i].more
    <3>1. PICK x, m : x = run[i].t /\ m = run[i].node
      OBVIOUS
    <3>2. /\ m \in Nodes /\ x.red[m] /\ Firm(x, pos, {m}, NULL, "left") /\ run[i].parent = x.up[m]
          /\ Cardinality(Reds(x)) + i =< c /\ InTree(x) = InTree(t)
      BY <2>2, <2>5, <3>1
    <3>3. PICK l : l = run[i + 1]
      OBVIOUS
    <3>4. l = InsertIteration(Loop(x, m, x.up[m], TRUE))
      <4>1. l = InsertIteration(run[i])
        BY <2>3, <2>5, <3>3
      <4> QED BY <3>1, <3>2, <4>1 DEF InsertIteration, Loop
    <3>5. GoesOn(x, pos, l)
      BY <3>2, <3>4, InsertIterates
    <3>6. CASE ~ l.more
      BY <3>2, <3>3, <3>5, <3>6 DEF GoesOn
    <3>7. CASE l.more
      <4>1. PICK g, p, uncle \in Nodes :
              Flipped(x, l.t, p, g, uncle) /\ p # uncle /\ x.red[p] /\ x.red[uncle]
        BY <3>5, <3>7 DEF GoesOn
      <4>2. Cardinality(Reds(l.t)) < Cardinality(Reds(x))
        BY <4>1, FlipLessRed
      <4>3. Cardinality(Reds(l.t)) + (i + 1) =< c
        <5> HIDE DEF c
        <5> QED BY <1>1, <1>4, <3>2, <4>2
      <4> HIDE DEF c
      <4> QED BY <3>2, <3>3, <3>5, <3>7, <4>3 DEF GoesOn
    <3> QED BY <3>6, <3>7
  <2> QED BY <2>4, <2>5
<1>7. Good(c)
  <2>1. Nat \subseteq S
    <3>1. ASSUME NEW i \in Nat, i \in S PROVE i + 1 \in S
      BY <1>6, <3>1
    <3> HIDE DEF S
    <3> QED BY <1>5, <3>1, CountingUp
  <2> HIDE DEF Good
  <2> QED BY <1>1, <2>1
<1>8. ~ run[c].more
  <2> SUFFICES ASSUME run[c].more PROVE FALSE
    OBVIOUS
  <2>1. /\ run[c].node \in Reds(run[c].t)
        /\ Cardinality(Reds(run[c].t)) + c =< c
    BY <1>7 DEF Reds
  <2>2. Cardinality(Reds(run[c].t)) = 0
    <3> HIDE DEF c
    <3> QED BY <1>1, <1>4, <2>1
  <2>3. Reds(run[c].t) = {}
    BY <1>4, <2>2, FS_EmptySet
  <2> QED BY <2>1, <2>3
<1> QED BY <1>3, <1>7, <1>8

(* The empty tree is firm. *)
LEMMA EmptyFirm ==
  /\ InTree(EmptyTree) = {} /\ EmptyTree.root = NULL
  /\ \E pos \in [Nodes -> Int] : Firm(EmptyTree, pos, {}, NULL, "left")
<1>2. NULL \notin Nodes /\ "left" \in Sides
  BY NullAssumption DEF Sides
<1>3. /\ EmptyTree \in Trees /\ EmptyTree.root = NULL
      /\ \A n \in Nodes : EmptyTree.up[n] = NULL /\ ~ EmptyTree.red[n] /\ EmptyTree.kid[n] = NoKids
      /\ \A n \in Nodes, s \in Sides : EmptyTree.kid[n][s] = NULL
  BY DEF EmptyTree, Trees, NoKids
<1> DEFINE pos == [n \in Nodes |-> 0]
           one == [n \in Nodes |-> 1]
<1>4. InTree(EmptyTree) = {}
  BY <1>2, <1>3 DEF InTree
<1>5. Shape(EmptyTree, pos) /\ pos \in [Nodes -> Int]
  <2>1. LinksAgree(EmptyTree)
    BY <1>3 DEF LinksAgree
  <2>2. Nested(EmptyTree, pos, pos, pos)
    BY <1>3 DEF Nested, Sides
  <2>3. pos \in [Nodes -> Int]
    OBVIOUS
  <2> HIDE DEF pos
  <2>4. Ordered(EmptyTree, pos)
    BY <2>2, <2>3 DEF Ordered
  <2> QED BY <1>3, <2>1, <2>3, <2>4 DEF Shape
<1>6. Balanced(EmptyTree, NULL, "left")
  <2>1. one \in [Nodes -> Nat]
    OBVIOUS
  <2>2. \A n \in Nodes, s \in Sides :
          one[n] = KidHeight(EmptyTree, one, n, s) + (IF EmptyTree.red[n] THEN 0 ELSE 1)
    BY <1>3 DEF KidHeight
  <2> HIDE DEF one, pos
  <2> QED BY <1>5, <2>1, <2>2, EvenWithoutGap
<1>7. NoRedPair(EmptyTree, {})
  BY <1>3 DEF NoRedPair
<1> HIDE DEF pos
<1> QED BY <1>3, <1>4, <1>5, <1>6, <1>7 DEF Firm

(* A leaf that is linked where the search for its key ended comes behind   *)
(* the nodes with no greater key.                                          *)
LEMMA LeafBehind ==
  ASSUME NEW t, NEW pos, Shape(t, pos), IsFiniteSet(InTree(t)), NEW key \in [Nodes -> Int],
         NEW n \in Nodes, n \notin InTree(t), NEW p \in Nodes \cup {NULL}, NEW s \in Sides,
         p = NULL => InTree(t) = {},
         p # NULL => p \in InTree(t) /\ PlacedRight(t, pos, key, n, p, s),
         NEW pos2 \in [Nodes -> Int], MakesRoom(pos, pos2, n, p, s), NEW x \in InTree(t)
  PROVE  /\ pos2[x] = 2 * pos[x] /\ pos[x] \in Int
         /\ key[x] =< key[n] => pos2[x] < pos2[n]
         /\ key[x] > key[n] => pos2[n] < pos2[x]
<1>1. /\ x \in Nodes /\ pos[x] \in Int /\ key[x] \in Int /\ key[n] \in Int
      /\ pos2[x] = 2 * pos[x]
  BY DEF Shape, InTree, MakesRoom
<1>2. p \in InTree(t) /\ p # NULL /\ PlacedRight(t, pos, key, n, p, s) /\ pos[p] \in Int
  BY NullAssumption DEF Shape, InTree
<1>3. pos2[n] = IF s = "left" THEN 2 * pos[p] - 1 ELSE 2 * pos[p] + 1
  BY <1>2 DEF MakesRoom
<1>4. key[x] =< key[n] <=> pos[x] < pos[p] \/ (s = "right" /\ x = p)
  BY <1>2 DEF PlacedRight
<1>5. x # p => pos[x] # pos[p]
  BY <1>2, PositionsDiffer
<1>6. s \in {"left", "right"}
  BY DEF Sides
<1>7. CASE s = "left"
  BY <1>1, <1>2, <1>3, <1>4, <1>5, <1>7
<1>8. CASE s = "right"
  BY <1>1, <1>2, <1>3, <1>4, <1>5, <1>8
<1> QED BY <1>6, <1>7, <1>8

(* So the keys still rise. *)
LEMMA LeafKeepsKeys ==
  ASSUME NEW t, NEW pos, Shape(t, pos), IsFiniteSet(InTree(t)), NEW key \in [Nodes -> Int],
         KeysRise(t, pos, key),
         NEW n \in Nodes, n \notin InTree(t), NEW p \in Nodes \cup {NULL}, NEW s \in Sides,
         p = NULL => InTree(t) = {},
         p # NULL => p \in InTree(t) /\ PlacedRight(t, pos, key, n, p, s),
         NEW pos2 \in [Nodes -> Int], MakesRoom(pos, pos2, n, p, s),
         NEW u, InTree(u) = InTree(t) \cup {n}
  PROVE  KeysRise(u, pos2, key)
<1> SUFFICES ASSUME NEW a \in InTree(t) \cup {n}, NEW b \in InTree(t) \cup {n}, pos2[a] < pos2[b]
             PROVE  key[a] =< key[b]
  BY DEF KeysRise
<1>1. InTree(t) \subseteq Nodes
  BY DEF InTree
<1>2. \A x \in InTree(t) : /\ pos2[x] = 2 * pos[x] /\ pos[x] \in Int
                           /\ key[x] =< key[n] => pos2[x] < pos2[n]
                           /\ key[x] > key[n] => pos2[n] < pos2[x]
  BY LeafBehind
<1>3. /\ pos2[a] \in Int /\ pos2[b] \in Int /\ key[a] \in Int /\ key[b] \in Int
      /\ pos2[n] \in Int /\ key[n] \in Int
  BY <1>1
<1>4. CASE a \in InTree(t) /\ b \in InTree(t)
  <2>1. pos[a] < pos[b]
    BY <1>2, <1>4
  <2> QED BY <1>4, <2>1 DEF KeysRise
<1>5. CASE a = n /\ b \in InTree(t)
  BY <1>2, <1>3, <1>5
<1>6. CASE a \in InTree(t) /\ b = n
  BY <1>2, <1>3, <1>6
<1>7. CASE a = n /\ b = n
  BY <1>3, <1>7
<1> QED BY <1>4, <1>5, <1>6, <1>7

(* Where the search for the key of a new node ends. *)
LEMMA PlaceIsFree ==
  ASSUME NEW t, NEW pos, Shape(t, pos), IsFiniteSet(InTree(t)), NEW key \in [Nodes -> Int],
         KeysRise(t, pos, key), NEW n \in Nodes, NEW at, at = Place(t, key, n)
  PROVE  \E p \in Nodes \cup {NULL}, s \in Sides :
           /\ at = <<p, s>> /\ (p = NULL => t.root = NULL /\ InTree(t) = {})
           /\ p # NULL => /\ p \in InTree(t) /\ t.kid[p][s] = NULL
                          /\ PlacedRight(t, pos, key, n, p, s)
<1>1. CASE t.root = NULL
  <2>1. at = <<NULL, "left">> /\ "left" \in Sides
    BY <1>1 DEF Place, PlaceBy, Sides
  <2>2. InTree(t) = {}
    BY <1>1, TreeIsSubtree
  <2> QED BY <1>1, <2>1, <2>2
<1>2. CASE t.root # NULL
  <2>1. PICK p \in InTree(t), s \in Sides : /\ Place(t, key, n) = <<p, s>> /\ t.kid[p][s] = NULL
                                            /\ PlacedRight(t, pos, key, n, p, s)
    BY <1>2, PlaceFree
  <2>2. p \in Nodes /\ p # NULL
    BY NullAssumption DEF InTree
  <2> QED BY <2>1, <2>2
<1> QED BY <1>1, <1>2

(* u is t with a red leaf n, behind the nodes with no greater key.         *)
LeafByKey(t, pos, key, n, u, pos2) ==
  /\ Firm(u, pos2, {n}, NULL, "left") /\ InTree(u) = InTree(t) \cup {n}
  /\ u.red[n] /\ KeysRise(u, pos2, key)
  /\ \A x \in InTree(t) : /\ pos2[x] = 2 * pos[x] /\ pos[x] \in Int
                          /\ key[x] =< key[n] => pos2[x] < pos2[n]
                          /\ key[x] > key[n] => pos2[n] < pos2[x]

(* That is what rb_link_node comes to there. *)
LEMMA LinkedByKey ==
  ASSUME NEW t, NEW pos, Firm(t, pos, {}, NULL, "left"), IsFiniteSet(InTree(t)),
         NEW key \in [Nodes -> Int], KeysRise(t, pos, key), NEW n \in Nodes, n \notin InTree(t),
         NEW at, at = Place(t, key, n), NEW u, u = rb_link_node(t, n, at[1], at[2])
  PROVE  /\ u.up[n] = at[1]
         /\ \E pos2 \in [Nodes -> Int] : LeafByKey(t, pos, key, n, u, pos2)
<1>1. Shape(t, pos) /\ t \in Trees /\ NULL \notin Nodes
  BY NullAssumption DEF Firm, Shape
<1>2. PICK p \in Nodes \cup {NULL}, s \in Sides :
        /\ at = <<p, s>> /\ (p = NULL => t.root = NULL /\ InTree(t) = {})
        /\ p # NULL => /\ p \in InTree(t) /\ t.kid[p][s] = NULL
                       /\ PlacedRight(t, pos, key, n, p, s)
  BY <1>1, PlaceIsFree
<1>3. p # n /\ t.kid[n] = NoKids
  BY <1>1, <1>2 DEF Shape
<1>4. u = rb_link_node(t, n, p, s) /\ at[1] = p
  BY <1>2
<1>5. IsLinked(t, u, n, p, s)
  BY <1>1, <1>3, <1>4, NodeLinked
<1>6. PICK pos2 : /\ Firm(u, pos2, {n}, NULL, "left") /\ InTree(u) = InTree(t) \cup {n}
                  /\ MakesRoom(pos, pos2, n, p, s)
  <2>1. (p = NULL => t.root = NULL) /\ (p # NULL => p \in InTree(t) /\ t.kid[p][s] = NULL)
    BY <1>2
  <2> QED BY <1>5, <2>1, LinkingFirm
<1>7. pos2 \in [Nodes -> Int]
  BY <1>6 DEF Firm, Shape
<1>8. \A x \in InTree(t) : /\ pos2[x] = 2 * pos[x] /\ pos[x] \in Int
                           /\ key[x] =< key[n] => pos2[x] < pos2[n]
                           /\ key[x] > key[n] => pos2[n] < pos2[x]
  BY <1>1, <1>2, <1>6, <1>7, LeafBehind
<1>9. KeysRise(u, pos2, key)
  BY <1>1, <1>2, <1>6, <1>7, LeafKeepsKeys
<1>10. u.red[n] /\ u.up[n] = at[1]
  BY <1>4, <1>5 DEF IsLinked
<1>11. LeafByKey(t, pos, key, n, u, pos2)
  BY <1>6, <1>8, <1>9, <1>10 DEF LeafByKey
<1> QED BY <1>7, <1>10, <1>11

(* The whole insertion, as vma.c does it. *)
LEMMA InsertedByKey ==
  ASSUME IsFiniteSet(Nodes), NEW t, NEW pos, Firm(t, pos, {}, NULL, "left"),
         NEW key \in [Nodes -> Int], KeysRise(t, pos, key), NEW n \in Nodes, n \notin InTree(t),
         NEW at, at = Place(t, key, n),
         NEW u, u = rb_insert_color(rb_link_node(t, n, at[1], at[2]), n)
  PROVE  \E pos2 \in [Nodes -> Int] : /\ Firm(u, pos2, {}, NULL, "left") /\ KeysRise(u, pos2, key)
                                      /\ InTree(u) = InTree(t) \cup {n}
<1>1. PICK v : v = rb_link_node(t, n, at[1], at[2])
  OBVIOUS
<1>2. IsFiniteSet(InTree(t))
  <2>1. InTree(t) \subseteq Nodes
    BY DEF InTree
  <2> QED BY <2>1, FS_Subset
<1>3. PICK pos2 \in [Nodes -> Int] : LeafByKey(t, pos, key, n, v, pos2)
  BY <1>1, <1>2, LinkedByKey
<1>4. Firm(u, pos2, {}, NULL, "left") /\ InTree(u) = InTree(v)
  BY <1>1, <1>3, InsertionEnds DEF LeafByKey
<1> QED BY <1>3, <1>4 DEF KeysRise, LeafByKey

(* A search for the node whose interval holds an address.                  *)
Search(t, start, end, addr, val, f) ==
  f = [n \in InTree(t) \cup {NULL} |->
        IF n = NULL THEN NULL
        ELSE IF addr < start[n] THEN f[t.kid[n]["left"]]
        ELSE IF addr >= end[n] THEN f[t.kid[n]["right"]] ELSE val[n]]

Holds(start, end, addr, n) == start[n] =< addr /\ addr < end[n]

(* The intervals follow one another as their nodes do.                     *)
Apart(t, pos, start, end) ==
  /\ \A n \in InTree(t) : start[n] < end[n]
  /\ \A a, b \in InTree(t) : pos[a] < pos[b] => end[a] =< start[b]

(* The search comes to an end. *)
LEMMA SearchEnds ==
  ASSUME NEW t, NEW pos, Shape(t, pos), NEW start, NEW end, NEW addr, NEW val
  PROVE  \E f : Search(t, start, end, addr, val, f)
<1> DEFINE next == [n \in Nodes |->
                      IF addr < start[n] THEN t.kid[n]["left"]
                      ELSE IF addr >= end[n] THEN t.kid[n]["right"] ELSE NULL]
           last == [n \in Nodes |-> IF addr < start[n] \/ addr >= end[n] THEN NULL ELSE val[n]]
<1>1. "left" \in Sides /\ "right" \in Sides /\ NULL \notin Nodes /\ InTree(t) \subseteq Nodes
  BY NullAssumption DEF Sides, InTree
<1>2. \A n \in Nodes, s \in Sides : t.kid[n][s] \in InTree(t) \cup {NULL}
  BY KidsApart
<1>3. next \in [Nodes -> Nodes \cup {NULL}]
  BY <1>1, <1>2
<1>4. PICK f : f = [m \in Nodes |-> IF next[m] = NULL THEN last[m] ELSE f[next[m]]]
  <2> HIDE DEF next, last
  <2> QED BY <1>3, PathExists
<1> DEFINE e == [n \in InTree(t) \cup {NULL} |-> IF n = NULL THEN NULL ELSE f[n]]
<1>5. ASSUME NEW n \in InTree(t)
      PROVE  e[n] = IF addr < start[n] THEN e[t.kid[n]["left"]]
                    ELSE IF addr >= end[n] THEN e[t.kid[n]["right"]] ELSE val[n]
  <2>1. n \in Nodes /\ n # NULL
    BY <1>1
  <2>2. f[n] = IF next[n] = NULL THEN last[n] ELSE f[next[n]]
    <3> HIDE DEF next, last
    <3> QED BY <1>4, <2>1
  <2>3. e[n] = f[n]
    BY <2>1
  <2>4. ASSUME NEW k \in InTree(t) \cup {NULL}, next[n] = k, k = NULL => last[n] = NULL
        PROVE  e[n] = e[k]
    <3>1. CASE k = NULL
      BY <2>2, <2>3, <2>4, <3>1
    <3>2. CASE k # NULL
      <4>1. e[k] = f[k]
        BY <3>2
      <4> HIDE DEF e, next, last
      <4> QED BY <2>2, <2>3, <2>4, <3>2, <4>1
    <3> QED BY <3>1, <3>2
  <2>5. CASE addr < start[n]
    <3>1. next[n] = t.kid[n]["left"] /\ last[n] = NULL
      BY <2>1, <2>5
    <3>2. t.kid[n]["left"] \in InTree(t) \cup {NULL}
      BY <1>1, <1>2, <2>1
    <3> HIDE DEF e, next, last
    <3> QED BY <2>4, <2>5, <3>1, <3>2
  <2>6. CASE ~ (addr < start[n]) /\ addr >= end[n]
    <3>1. next[n] = t.kid[n]["right"] /\ last[n] = NULL
      BY <2>1, <2>6
    <3>2. t.kid[n]["right"] \in InTree(t) \cup {NULL}
      BY <1>1, <1>2, <2>1
    <3> HIDE DEF e, next, last
    <3> QED BY <2>4, <2>6, <3>1, <3>2
  <2>7. CASE ~ (addr < start[n]) /\ ~ (addr >= end[n])
    <3>1. next[n] = NULL /\ last[n] = val[n]
      BY <2>1, <2>7
    <3> HIDE DEF e, next, last
    <3> QED BY <2>2, <2>3, <2>7, <3>1
  <2> QED BY <2>5, <2>6, <2>7
<1>6. e[NULL] = NULL /\ e = [n \in InTree(t) \cup {NULL} |-> e[n]]
  OBVIOUS
<1> HIDE DEF e
<1>7. Search(t, start, end, addr, val, e)
  BY <1>1, <1>5, <1>6 DEF Search
<1> QED BY <1>7

(* It finds the one that holds the address, if there is one.               *)
LEMMA SearchFinds ==
  ASSUME NEW t, NEW pos, Shape(t, pos), IsFiniteSet(InTree(t)),
         NEW start \in [Nodes -> Int], NEW end \in [Nodes -> Int], Apart(t, pos, start, end),
         NEW addr \in Int, NEW val, NEW f, Search(t, start, end, addr, val, f)
  PROVE  /\ \A m \in InTree(t) : Holds(start, end, addr, m) => f[t.root] = val[m]
         /\ (\A m \in InTree(t) : ~ Holds(start, end, addr, m)) => f[t.root] = NULL
<1>1. /\ "left" \in Sides /\ "right" \in Sides /\ NULL \notin Nodes /\ InTree(t) \subseteq Nodes
      /\ Sides = {"left", "right"}
  BY NullAssumption DEF Sides, InTree
<1>2. f[NULL] = NULL
  BY DEF Search
<1>3. \A n \in InTree(t) : f[n] = IF addr < start[n] THEN f[t.kid[n]["left"]]
                                  ELSE IF addr >= end[n] THEN f[t.kid[n]["right"]] ELSE val[n]
  BY <1>1 DEF Search
<1> DEFINE Finds(k, R) == /\ \A m \in R : Holds(start, end, addr, m) => f[k] = val[m]
                          /\ (\A m \in R : ~ Holds(start, end, addr, m)) => f[k] = NULL
           S == {n \in Nodes : n \in InTree(t) => Finds(n, Subtree(t, n))}
<1>4. ASSUME NEW n \in Nodes, \A s \in Sides : t.kid[n][s] # NULL => t.kid[n][s] \in S,
             n \in InTree(t)
      PROVE  Finds(n, Subtree(t, n))
  <2> DEFINE Below(s) == {m \in Nodes : t.kid[n][s] # NULL /\ m \in Subtree(t, t.kid[n][s])}
  <2>1. \A m : m \in Subtree(t, n) <=> m = n \/ \E s \in Sides : m \in Below(s)
    <3>1. Subtree(t, n) \subseteq Nodes
      BY SubtreeParts
    <3>2. \A m : m \in Subtree(t, n) <=>
            m = n \/ \E s \in Sides : t.kid[n][s] # NULL /\ m \in Subtree(t, t.kid[n][s])
      BY SubtreeParts
    <3> QED BY <3>1, <3>2
  <2>2. \A s \in Sides : Finds(t.kid[n][s], Below(s))
    <3> SUFFICES ASSUME NEW s \in Sides PROVE Finds(t.kid[n][s], Below(s))
      OBVIOUS
    <3>1. CASE t.kid[n][s] = NULL
      <4>1. Below(s) = {}
        BY <3>1
      <4> HIDE DEF Below
      <4> QED BY <1>2, <3>1, <4>1
    <3>2. CASE t.kid[n][s] # NULL
      <4>1. PICK k : k = t.kid[n][s]
        OBVIOUS
      <4>2. k \in S /\ k \in InTree(t) /\ k \in Nodes
        BY <1>4, <3>2, <4>1, KidsApart
      <4>3. Finds(k, Subtree(t, k))
        BY <4>2
      <4>4. Below(s) = Subtree(t, k)
        <5>1. Subtree(t, k) \subseteq Nodes
          BY <4>2, SubtreeParts
        <5> QED BY <3>2, <4>1, <5>1
      <4> HIDE DEF Below, Finds
      <4> QED BY <4>1, <4>3, <4>4
    <3> QED BY <3>1, <3>2
  <2>3. \A s \in Sides : \A m \in Below(s) :
          /\ m \in InTree(t) /\ (s = "left" => pos[m] < pos[n]) /\ (s = "right" => pos[n] < pos[m])
    <3> SUFFICES ASSUME NEW s \in Sides, NEW m \in Below(s)
                 PROVE  /\ m \in InTree(t) /\ (s = "left" => pos[m] < pos[n])
                        /\ (s = "right" => pos[n] < pos[m])
      OBVIOUS
    <3>1. t.kid[n][s] # NULL /\ m \in Subtree(t, t.kid[n][s])
      OBVIOUS
    <3>2. m \in InTree(t)
      BY <1>4, <2>1, SubtreeInTree
    <3> HIDE DEF Below
    <3> QED BY <3>1, <3>2, SubtreeSides
  <2>4. /\ start[n] \in Int /\ end[n] \in Int /\ start[n] < end[n]
        /\ \A m \in InTree(t) : start[m] \in Int /\ end[m] \in Int /\ start[m] < end[m]
        /\ \A m \in Below("left") : end[m] =< start[n]
        /\ \A m \in Below("right") : end[n] =< start[m]
    <3>1. \A m \in InTree(t) : start[m] \in Int /\ end[m] \in Int /\ start[m] < end[m]
      BY <1>1 DEF Apart
    <3>2. /\ \A m \in Below("left") : m \in InTree(t) /\ pos[m] < pos[n]
          /\ \A m \in Below("right") : m \in InTree(t) /\ pos[n] < pos[m]
      BY <1>1, <2>3
    <3> HIDE DEF Below
    <3> QED BY <1>4, <3>1, <3>2 DEF Apart
  <2>5. /\ Below("left") \subseteq InTree(t) /\ Below("right") \subseteq InTree(t)
        /\ \A m : m \in Subtree(t, n) <=> m = n \/ m \in Below("left") \/ m \in Below("right")
        /\ Finds(t.kid[n]["left"], Below("left")) /\ Finds(t.kid[n]["right"], Below("right"))
    <3> HIDE DEF Below, Finds
    <3> QED BY <1>1, <2>1, <2>2, <2>3
  <2> HIDE DEF Below
  <2>6. CASE addr < start[n]
    <3>1. f[n] = f[t.kid[n]["left"]]
      BY <1>3, <1>4, <2>6
    <3>2. ~ Holds(start, end, addr, n) /\ \A m \in Below("right") : ~ Holds(start, end, addr, m)
      BY <2>4, <2>5, <2>6 DEF Holds
    <3> QED BY <2>5, <3>1, <3>2
  <2>7. CASE addr >= end[n]
    <3>1. f[n] = f[t.kid[n]["right"]]
      <4>1. ~ (addr < start[n])
        BY <2>4, <2>7
      <4> QED BY <1>3, <1>4, <2>7, <4>1
    <3>2. ~ Holds(start, end, addr, n) /\ \A m \in Below("left") : ~ Holds(start, end, addr, m)
      BY <2>4, <2>5, <2>7 DEF Holds
    <3> QED BY <2>5, <3>1, <3>2
  <2>8. CASE ~ (addr < start[n]) /\ ~ (addr >= end[n])
    <3>1. f[n] = val[n]
      BY <1>3, <1>4, <2>8
    <3>2. /\ Holds(start, end, addr, n)
          /\ \A m \in Below("left") \cup Below("right") : ~ Holds(start, end, addr, m)
      BY <2>4, <2>5, <2>8 DEF Holds
    <3> QED BY <2>5, <3>1, <3>2
  <2> QED BY <2>6, <2>7, <2>8
<1>5. S = Nodes
  <2>1. \A n \in Nodes : (\A s \in Sides : t.kid[n][s] # NULL => t.kid[n][s] \in S) => n \in S
    <3> HIDE DEF Finds
    <3> QED BY <1>4
  <2>2. S \in SUBSET Nodes
    OBVIOUS
  <2> HIDE DEF S
  <2> QED BY <2>1, <2>2, TreeInduction
<1>6. CASE t.root = NULL
  <2>1. InTree(t) = {}
    BY <1>6, TreeIsSubtree
  <2> QED BY <1>2, <1>6, <2>1
<1>7. CASE t.root # NULL
  <2>1. t.root \in InTree(t) /\ Subtree(t, t.root) = InTree(t)
    BY <1>7, TreeIsSubtree
  <2>2. t.root \in Nodes
    BY <1>1, <2>1
  <2>3. Finds(t.root, Subtree(t, t.root))
    <3>1. t.root \in S
      BY <1>5, <2>2
    <3> HIDE DEF Finds
    <3> QED BY <2>1, <3>1
  <2> QED BY <2>1, <2>3
<1> QED BY <1>6, <1>7

(***************************************************************************)
(* The walks.                                                              *)
(***************************************************************************)

(* The climb of rb_next and rb_prev, as long as a node hangs on side s.    *)
LEMMA ClimbStep ==
  ASSUME NEW t, NEW pos, Shape(t, pos), NEW s \in Sides, NEW n \in Nodes
  PROVE  FirstAncestor(t, n, s) = IF t.up[n] # NULL /\ n = t.kid[t.up[n]][s]
                                  THEN FirstAncestor(t, t.up[n], s) ELSE t.up[n]
<1> DEFINE Goes(m) == t.up[m] # NULL /\ m = t.kid[t.up[m]][s]
           next == [m \in Nodes |-> IF Goes(m) THEN t.up[m] ELSE NULL]
           Rest(f) == [m \in Nodes |-> IF Goes(m) THEN f[t.up[m]] ELSE t.up[m]]
<1>1. t.up \in [Nodes -> Nodes \cup {NULL}] /\ NULL \notin Nodes
  BY NullAssumption DEF Shape, Trees
<1>2. next \in [Nodes -> Nodes \cup {NULL}]
  BY <1>1
<1>3. PICK f : f = [m \in Nodes |-> IF next[m] = NULL THEN t.up[m] ELSE f[next[m]]]
  <2> HIDE DEF next
  <2> QED BY <1>2, PathExists
<1>4. \A m \in Nodes : (next[m] = NULL <=> ~ Goes(m)) /\ (Goes(m) => next[m] = t.up[m])
  BY <1>1
<1>5. [m \in Nodes |-> IF next[m] = NULL THEN t.up[m] ELSE f[next[m]]] = Rest(f)
  <2> HIDE DEF next, Goes
  <2> QED BY <1>4
<1>6. PICK h : h = Rest(h) /\ h = CHOOSE climb : climb = Rest(climb)
  <2>1. f = Rest(f)
    BY <1>3, <1>5
  <2> HIDE DEF Rest
  <2> QED BY <2>1
<1>7. \A m \in Nodes : FirstAncestor(t, m, s) = h[m]
  BY <1>6, Zenon DEF FirstAncestor
<1>8. h[n] = IF Goes(n) THEN h[t.up[n]] ELSE t.up[n]
  BY <1>6
<1>9. t.up[n] # NULL => t.up[n] \in Nodes
  BY <1>1
<1> HIDE DEF Rest
<1> QED BY <1>7, <1>8, <1>9

(* From the end of a subtree on side s the climb is that from its top.     *)
LEMMA ClimbFromEnd ==
  ASSUME NEW t, NEW pos, Shape(t, pos), NEW s \in Sides, NEW n \in Nodes
  PROVE  /\ Extreme(t, n, s) \in Nodes
         /\ FirstAncestor(t, Extreme(t, n, s), s) = FirstAncestor(t, n, s)
<1> DEFINE S == {m \in Nodes : /\ Extreme(t, m, s) \in Nodes
                               /\ FirstAncestor(t, Extreme(t, m, s), s) = FirstAncestor(t, m, s)}
<1>1. ASSUME NEW m \in Nodes, \A e \in Sides : t.kid[m][e] # NULL => t.kid[m][e] \in S
      PROVE  m \in S
  <2>1. Extreme(t, m, s) = IF t.kid[m][s] = NULL THEN m ELSE Extreme(t, t.kid[m][s], s)
    BY ExtremeStep
  <2>2. CASE t.kid[m][s] = NULL
    BY <2>1, <2>2
  <2>3. CASE t.kid[m][s] # NULL
    <3>1. PICK c \in S : c = t.kid[m][s]
      BY <1>1, <2>3
    <3>2. t.up[c] = m /\ m # NULL
      BY <2>3, <3>1, KidsApart
    <3>3. FirstAncestor(t, c, s) = FirstAncestor(t, m, s)
      BY <3>1, <3>2, ClimbStep
    <3> QED BY <2>1, <2>3, <3>1, <3>3
  <2> QED BY <2>2, <2>3
<1>2. S \in SUBSET Nodes
  OBVIOUS
<1>3. S = Nodes
  <2> HIDE DEF S
  <2> QED BY <1>1, <1>2, TreeInduction
<1> QED BY <1>3

(* rb_next and rb_prev lead from a node to the end of what hangs on side s *)
(* of it, from the end of what hangs on the other side to the node, and    *)
(* from the end of the tree nowhere.                                       *)
LEMMA NeighbourJoins ==
  ASSUME NEW t, NEW pos, Shape(t, pos), NEW s \in Sides, NEW n \in Nodes
  PROVE  /\ t.kid[n][s] # NULL => Neighbour(t, n, s) = Extreme(t, t.kid[n][s], Other(s))
         /\ t.kid[n][Other(s)] # NULL => Neighbour(t, Extreme(t, t.kid[n][Other(s)], s), s) = n
         /\ t.up[n] = NULL => Neighbour(t, Extreme(t, n, s), s) = NULL
<1>1. t.kid[n][s] # NULL => Neighbour(t, n, s) = Extreme(t, t.kid[n][s], Other(s))
  BY DEF Neighbour
<1>2. ASSUME NEW c \in Nodes
      PROVE  Neighbour(t, Extreme(t, c, s), s) = FirstAncestor(t, c, s)
  <2>1. t.kid[Extreme(t, c, s)][s] = NULL
    BY ExtremeIsEnd
  <2> QED BY <2>1, ClimbFromEnd DEF Neighbour
<1>3. ASSUME NEW c \in Nodes, c = t.kid[n][Other(s)] PROVE FirstAncestor(t, c, s) = n
  <2>1. c # NULL /\ Other(s) \in Sides /\ Other(Other(s)) = s
    BY NullAssumption, SidesAre
  <2>2. t.up[c] = n /\ c # t.kid[n][s]
    BY <1>3, <2>1, KidsApart
  <2> QED BY <2>2, ClimbStep
<1>4. t.kid[n][Other(s)] # NULL => t.kid[n][Other(s)] \in Nodes
  BY SidesAre, KidsApart
<1>5. t.up[n] = NULL => FirstAncestor(t, n, s) = NULL
  BY ClimbStep
<1> QED BY <1>1, <1>2, <1>3, <1>4, <1>5

(* Each element of q but the last goes with the next one.                  *)
Chained(q, R) == \A i \in 1 .. Len(q) - 1 : <<q[i], q[i + 1]>> \in R

(* c is b behind a.                                                        *)
Behind(c, a, b) ==
  /\ Len(a) \in Nat /\ Len(b) \in Nat /\ Len(c) = Len(a) + Len(b)
  /\ \A i \in 1 .. Len(a) : c[i] = a[i]
  /\ \A i \in 1 .. Len(b) : c[Len(a) + i] = b[i]

(* \o puts one sequence behind another.                                    *)
LEMMA ConcatBehind ==
  ASSUME NEW S, NEW a \in Seq(S), NEW b \in Seq(S)
  PROVE  a \o b \in Seq(S) /\ Behind(a \o b, a, b)
<1> DEFINE c == a \o b
<1>1. /\ c \in Seq(S) /\ Len(c) = Len(a) + Len(b) /\ Len(a) \in Nat /\ Len(b) \in Nat
      /\ \A i \in 1 .. Len(a) + Len(b) : c[i] = IF i =< Len(a) THEN a[i] ELSE b[i - Len(a)]
  BY ConcatProperties, LenProperties
<1> HIDE DEF c
<1>2. \A i \in 1 .. Len(a) : c[i] = a[i]
  BY <1>1
<1>3. ASSUME NEW i \in 1 .. Len(b) PROVE c[Len(a) + i] = b[i]
  <2>1. Len(a) + i \in 1 .. Len(a) + Len(b) /\ ~ (Len(a) + i =< Len(a)) /\ (Len(a) + i) - Len(a) = i
    BY <1>1
  <2> QED BY <1>1, <2>1
<1>4. Behind(c, a, b)
  BY <1>1, <1>2, <1>3 DEF Behind
<1> QED BY <1>1, <1>4 DEF c

(* Two such sequences, one behind the other.                               *)
LEMMA ChainJoin ==
  ASSUME NEW R, NEW a, NEW b, NEW c, Behind(c, a, b), Chained(a, R), Chained(b, R),
         Len(a) > 0 /\ Len(b) > 0 => <<a[Len(a)], b[1]>> \in R
  PROVE  Chained(c, R)
<1>1. Len(a) \in Nat /\ Len(b) \in Nat /\ Len(c) = Len(a) + Len(b)
  BY DEF Behind
<1>2. \A i \in 1 .. Len(a) : c[i] = a[i]
  BY DEF Behind
<1>3. \A i \in 1 .. Len(b) : c[Len(a) + i] = b[i]
  BY DEF Behind
<1>4. ASSUME NEW i \in 1 .. Len(c) - 1 PROVE <<c[i], c[i + 1]>> \in R
  <2>1. CASE i < Len(a)
    <3>1. i \in 1 .. Len(a) - 1 /\ i \in 1 .. Len(a) /\ i + 1 \in 1 .. Len(a)
      BY <1>1, <2>1
    <3>2. c[i] = a[i] /\ c[i + 1] = a[i + 1]
      BY <1>2, <3>1
    <3> QED BY <3>1, <3>2 DEF Chained
  <2>2. CASE i = Len(a)
    <3>1. Len(a) > 0 /\ Len(b) > 0 /\ i \in 1 .. Len(a) /\ 1 \in 1 .. Len(b)
      BY <1>1, <2>2
    <3>2. c[i] = a[Len(a)] /\ c[i + 1] = b[1]
      BY <1>2, <1>3, <2>2, <3>1
    <3> QED BY <3>1, <3>2
  <2>3. CASE i > Len(a)
    <3>1. PICK k \in 1 .. Len(b) - 1 : i = Len(a) + k
      <4>1. i - Len(a) \in 1 .. Len(b) - 1 /\ i = Len(a) + (i - Len(a))
        BY <1>1, <2>3
      <4> QED BY <4>1
    <3>2. k \in 1 .. Len(b) /\ k + 1 \in 1 .. Len(b) /\ i + 1 = Len(a) + (k + 1)
      BY <1>1, <3>1
    <3>3. c[i] = b[k] /\ c[i + 1] = b[k + 1]
      BY <1>3, <3>1, <3>2
    <3> QED BY <3>1, <3>3 DEF Chained
  <2> QED BY <1>1, <2>1, <2>2, <2>3
<1> QED BY <1>4 DEF Chained

(* rb_next leads from x to y, and rb_prev back.                            *)
Adjacent(t) == {e \in Nodes \X Nodes : rb_next(t, e[1]) = e[2] /\ rb_prev(t, e[2]) = e[1]}

(* q are the nodes below n by their positions, and rb_next and rb_prev     *)
(* go along it.                                                            *)
InLine(t, pos, n, q) ==
  /\ Sorted(q, pos, Subtree(t, n)) /\ Chained(q, Adjacent(t)) /\ Len(q) > 0
  /\ q[1] = Extreme(t, n, "left") /\ q[Len(q)] = Extreme(t, n, "right")

(* What hangs on both sides of a node and the node itself, one behind      *)
(* the other.                                                              *)
LEMMA LineJoins ==
  ASSUME NEW t, NEW pos, Shape(t, pos), NEW n \in Nodes,
         NEW a, LET l == t.kid[n]["left"] IN IF l = NULL THEN a = <<>> ELSE InLine(t, pos, l, a),
         NEW b, LET r == t.kid[n]["right"] IN IF r = NULL THEN b = <<>> ELSE InLine(t, pos, r, b)
  PROVE  InLine(t, pos, n, a \o <<n>> \o b)
<1> DEFINE l == t.kid[n]["left"]
           r == t.kid[n]["right"]
           R == Adjacent(t)
<1>1. /\ "left" \in Sides /\ "right" \in Sides /\ Other("left") = "right" /\ Other("right") = "left"
      /\ NULL \notin Nodes /\ n # NULL /\ l \in Nodes \cup {NULL} /\ r \in Nodes \cup {NULL}
  BY NullAssumption, KidsApart DEF Sides, Other
<1>2. \A k \in Nodes : Part(t, k) = Subtree(t, k) /\ Subtree(t, k) \subseteq Nodes
  BY <1>1 DEF Part, Subtree
<1>3. /\ l # NULL => rb_prev(t, n) = Extreme(t, l, "right") /\ rb_next(t, Extreme(t, l, "right")) = n
      /\ r # NULL => rb_next(t, n) = Extreme(t, r, "left") /\ rb_prev(t, Extreme(t, r, "left")) = n
  BY <1>1, NeighbourJoins DEF rb_next, rb_prev
<1>4. /\ l # NULL => InLine(t, pos, l, a)
      /\ r # NULL => InLine(t, pos, r, b)
      /\ l = NULL => a = <<>>
      /\ r = NULL => b = <<>>
  OBVIOUS
<1>5. Sorted(a, pos, Part(t, l)) /\ Sorted(b, pos, Part(t, r))
  <2>1. Sorted(<<>>, pos, {})
    <3>1. <<>> \in Seq({}) /\ Len(<<>>) = 0
      OBVIOUS
    <3> QED BY <3>1 DEF Sorted
  <2>2. Part(t, NULL) = {}
    BY DEF Part
  <2> QED BY <1>1, <1>2, <1>4, <2>1, <2>2 DEF InLine
<1>6. Sorted(a \o <<n>> \o b, pos, Subtree(t, n))
  BY <1>2, <1>5, SortedJoin
<1>7. a \in Seq(Nodes) /\ b \in Seq(Nodes)
  <2>1. Part(t, l) \subseteq Nodes /\ Part(t, r) \subseteq Nodes
    BY <1>1, <1>2 DEF Part
  <2> QED BY <1>5, <2>1 DEF Sorted
<1>8. Chained(a, R) /\ Chained(b, R) /\ Chained(<<n>>, R) /\ <<n>> \in Seq(Nodes) /\ Len(<<n>>) = 1
  <2>1. Chained(<<>>, R) /\ Chained(<<n>>, R)
    <3>1. Len(<<>>) = 0 /\ Len(<<n>>) = 1
      OBVIOUS
    <3> QED BY <3>1 DEF Chained
  <2> QED BY <1>4, <2>1 DEF InLine
<1>9. /\ Len(a) \in Nat /\ Len(b) \in Nat /\ (Len(a) > 0 <=> l # NULL) /\ (Len(b) > 0 <=> r # NULL)
      /\ l # NULL => a[1] = Extreme(t, l, "left") /\ a[Len(a)] = Extreme(t, l, "right")
      /\ r # NULL => b[1] = Extreme(t, r, "left") /\ b[Len(b)] = Extreme(t, r, "right")
  BY <1>4, <1>7, LenProperties DEF InLine
<1>10. /\ l # NULL => Extreme(t, l, "right") \in Nodes
       /\ r # NULL => Extreme(t, r, "left") \in Nodes
  BY <1>1, ClimbFromEnd
<1>11. /\ l # NULL => <<a[Len(a)], n>> \in R
       /\ r # NULL => <<n, b[1]>> \in R
  BY <1>3, <1>9, <1>10 DEF Adjacent
<1> HIDE DEF R
<1> DEFINE c == a \o <<n>>
<1>12. /\ c \in Seq(Nodes) /\ Chained(c, R) /\ Len(c) = Len(a) + 1
       /\ \A i \in 1 .. Len(a) : c[i] = a[i]
       /\ c[Len(a) + 1] = n
  <2>1. PICK one : one = <<n>>
    OBVIOUS
  <2>2. one \in Seq(Nodes) /\ Chained(one, R) /\ Len(one) = 1 /\ one[1] = n
    BY <1>8, <2>1
  <2>3. Len(a) > 0 /\ Len(one) > 0 => <<a[Len(a)], one[1]>> \in R
    BY <1>9, <1>11, <2>2
  <2>4. c \in Seq(Nodes) /\ Behind(c, a, one)
    <3>1. a \o one \in Seq(Nodes) /\ Behind(a \o one, a, one)
      BY <1>7, <2>2, ConcatBehind
    <3> QED BY <2>1, <3>1
  <2> HIDE DEF c
  <2>5. Chained(c, R)
    BY <1>7, <1>8, <2>2, <2>3, <2>4, ChainJoin
  <2> QED BY <2>2, <2>4, <2>5 DEF Behind
<1> HIDE DEF c
<1>13. Chained(c \o b, R) /\ Behind(c \o b, c, b)
  <2>1. Len(c) > 0 /\ Len(b) > 0 => <<c[Len(c)], b[1]>> \in R
    BY <1>9, <1>11, <1>12
  <2>2. Behind(c \o b, c, b)
    BY <1>7, <1>12, ConcatBehind
  <2> QED BY <1>8, <1>12, <2>1, <2>2, ChainJoin
<1> DEFINE q == c \o b
<1> HIDE DEF q
<1>14. Len(q) > 0 /\ Len(q) = Len(a) + 1 + Len(b)
  BY <1>9, <1>12, <1>13 DEF q, Behind
<1>15. q[1] = Extreme(t, n, "left")
  <2>1. 1 \in 1 .. Len(c) /\ q[1] = c[1]
    BY <1>9, <1>12, <1>13 DEF q, Behind
  <2>2. Extreme(t, n, "left") = IF l = NULL THEN n ELSE Extreme(t, l, "left")
    BY <1>1, ExtremeStep
  <2>3. l = NULL => c[1] = n
    BY <1>9, <1>12
  <2>4. l # NULL => c[1] = a[1]
    BY <1>9, <1>12
  <2> QED BY <1>9, <2>1, <2>2, <2>3, <2>4
<1>16. q[Len(q)] = Extreme(t, n, "right")
  <2>1. Extreme(t, n, "right") = IF r = NULL THEN n ELSE Extreme(t, r, "right")
    BY <1>1, ExtremeStep
  <2>2. r = NULL => q[Len(q)] = n
    <3> SUFFICES ASSUME r = NULL PROVE q[Len(q)] = n
      OBVIOUS
    <3>1. Len(q) = Len(c) /\ Len(c) \in 1 .. Len(c)
      BY <1>9, <1>12, <1>14
    <3> QED BY <1>12, <1>13, <3>1 DEF q, Behind
  <2>3. r # NULL => q[Len(q)] = b[Len(b)]
    <3> SUFFICES ASSUME r # NULL PROVE q[Len(q)] = b[Len(b)]
      OBVIOUS
    <3>1. Len(q) = Len(c) + Len(b) /\ Len(b) \in 1 .. Len(b)
      BY <1>9, <1>12, <1>14
    <3> QED BY <1>13, <3>1 DEF q, Behind
  <2> QED BY <1>9, <2>1, <2>2, <2>3
<1>17. Sorted(q, pos, Subtree(t, n)) /\ Chained(q, R)
  BY <1>6, <1>13 DEF q, c
<1>18. InLine(t, pos, n, q)
  BY <1>14, <1>15, <1>16, <1>17 DEF InLine, R
<1> QED BY <1>18 DEF q, c

(* rb_next and rb_prev go along the nodes as InOrder has them, and from    *)
(* the ends nowhere.                                                       *)
LEMMA InOrderInLine ==
  ASSUME NEW t, NEW pos, Shape(t, pos), IsFiniteSet(InTree(t)), t.root # NULL
  PROVE  /\ InLine(t, pos, t.root, InOrder(t))
         /\ rb_next(t, rb_last(t)) = NULL /\ rb_prev(t, rb_first(t)) = NULL
<1> DEFINE S == {n \in Nodes : \E q : InLine(t, pos, n, q)}
<1>1. t.root \in Nodes /\ t.up[t.root] = NULL /\ "left" \in Sides /\ "right" \in Sides
  BY DEF Shape, Trees, LinksAgree, Sides
<1>2. ASSUME NEW n \in Nodes, \A s \in Sides : t.kid[n][s] # NULL => t.kid[n][s] \in S
      PROVE  n \in S
  <2>1. PICK a : LET l == t.kid[n]["left"] IN IF l = NULL THEN a = <<>> ELSE InLine(t, pos, l, a)
    BY <1>1, <1>2
  <2>2. PICK b : LET r == t.kid[n]["right"] IN IF r = NULL THEN b = <<>> ELSE InLine(t, pos, r, b)
    BY <1>1, <1>2
  <2>3. InLine(t, pos, n, a \o <<n>> \o b)
    BY <2>1, <2>2, LineJoins
  <2> QED BY <2>3
<1>3. S = Nodes
  <2>1. S \in SUBSET Nodes
    OBVIOUS
  <2> HIDE DEF S
  <2> QED BY <1>2, <2>1, TreeInduction
<1>4. PICK q : InLine(t, pos, t.root, q)
  BY <1>1, <1>3
<1>5. Subtree(t, t.root) = InTree(t)
  BY TreeIsSubtree
<1>6. \A x \in InTree(t) : pos[x] \in Int
  BY DEF Shape, InTree
<1>7. q = InOrder(t)
  BY <1>4, <1>5, <1>6, InOrderSorted, SortedUnique DEF InLine
<1>8. rb_next(t, rb_last(t)) = NULL /\ rb_prev(t, rb_first(t)) = NULL
  BY <1>1, NeighbourJoins DEF rb_next, rb_prev, rb_first, rb_last
<1> QED BY <1>4, <1>7, <1>8

(* q are nodes, each once, next leads from each of them to the one behind  *)
(* it and from the last nowhere, and from the nodes outside q nowhere.     *)
Goes(next, q) ==
  /\ q \in Seq(Nodes) /\ \A i, j \in 1 .. Len(q) : q[i] = q[j] => i = j
  /\ \A i \in 1 .. Len(q) : next[q[i]] = IF i < Len(q) THEN q[i + 1] ELSE NULL
  /\ \A n \in Nodes : (\A i \in 1 .. Len(q) : q[i] # n) => next[n] = NULL

(* The walk from its first node then is q.                                 *)
LEMMA WalkGoes ==
  ASSUME NEW next, NEW q, Goes(next, q), NEW first,
         first = IF Len(q) > 0 THEN q[1] ELSE NULL
  PROVE  Walk(next, first) = q
<1> DEFINE Links == Nodes \cup {NULL}
           K == Len(q)
           Rest(h) == [n \in Links |-> IF n = NULL THEN <<>> ELSE <<n>> \o h[next[n]]]
           From(i) == SubSeq(q, i, K)
           Is(n, x) == \/ n = NULL /\ x = <<>>
                       \/ \E i \in 1 .. K : n = q[i] /\ x = From(i)
                       \/ n # NULL /\ (\A i \in 1 .. K : q[i] # n) /\ x = <<n>>
           f == [n \in Links |-> CHOOSE x : Is(n, x)]
<1>1. /\ K \in Nat /\ NULL \notin Nodes /\ q \in Seq(Nodes)
      /\ \A i \in 1 .. K : q[i] \in Nodes
  BY NullAssumption, LenProperties, ElementOfSeq DEF Goes
<1>2. /\ \A i, j \in 1 .. K : q[i] = q[j] => i = j
      /\ \A i \in 1 .. K : next[q[i]] = IF i < K THEN q[i + 1] ELSE NULL
      /\ \A n \in Nodes : (\A i \in 1 .. K : q[i] # n) => next[n] = NULL
  BY DEF Goes
<1>3. /\ \A i \in 1 .. K : From(i) \in Seq(Nodes) /\ Len(From(i)) = K - i + 1
            /\ \A j \in 1 .. K - i + 1 : From(i)[j] = q[i + j - 1]
      /\ From(K + 1) = <<>> /\ (K > 0 => From(1) = q) /\ (K = 0 => q = <<>>)
  <2>1. ASSUME NEW i \in 1 .. K
        PROVE  From(i) \in Seq(Nodes) /\ Len(From(i)) = K - i + 1
               /\ \A j \in 1 .. K - i + 1 : From(i)[j] = q[i + j - 1]
    <3>1. \A j \in i .. K : q[j] \in Nodes
      BY <1>1
    <3>2. i \in Int /\ K \in Int /\ i =< K
      BY <1>1
    <3> QED BY <3>1, <3>2, SubSeqProperties
  <2>2. From(K + 1) = <<>>
    BY <1>1, SubSeqEmpty
  <2>3. K > 0 => From(1) = q
    <3> SUFFICES ASSUME K > 0 PROVE From(1) = q
      OBVIOUS
    <3>1. 1 \in 1 .. K
      BY <1>1
    <3>2. From(1) \in Seq(Nodes) /\ Len(From(1)) = Len(q)
          /\ \A j \in 1 .. Len(q) : From(1)[j] = q[j]
      BY <1>1, <2>1, <3>1
    <3> HIDE DEF From
    <3> QED BY <1>1, <3>2, SeqEqual
  <2>4. K = 0 => q = <<>>
    BY <1>1, EmptySeq
  <2> QED BY <2>1, <2>2, <2>3, <2>4
<1> HIDE DEF From
<1>4. ASSUME NEW i \in 1 .. K PROVE From(i) = <<q[i]>> \o From(i + 1)
  <2> DEFINE r == <<q[i]>> \o From(i + 1)
  <2>1. q[i] \in Nodes /\ <<q[i]>> \in Seq(Nodes)
    BY <1>1
  <2>2. From(i + 1) \in Seq(Nodes) /\ Len(From(i + 1)) = K - i
        /\ \A j \in 1 .. K - i : From(i + 1)[j] = q[i + j]
    <3>1. CASE i = K
      <4>1. From(i + 1) = <<>> /\ K - i = 0 /\ 1 .. K - i = {}
        BY <1>1, <1>3, <3>1
      <4>2. <<>> \in Seq(Nodes) /\ Len(<<>>) = 0
        OBVIOUS
      <4> QED BY <4>1, <4>2
    <3>2. CASE i # K
      <4>1. i + 1 \in 1 .. K /\ i \in Nat /\ K - (i + 1) + 1 = K - i
        BY <1>1, <3>2
      <4>2. From(i + 1) \in Seq(Nodes) /\ Len(From(i + 1)) = K - (i + 1) + 1
            /\ \A j \in 1 .. K - (i + 1) + 1 : From(i + 1)[j] = q[(i + 1) + j - 1]
        BY <1>3, <4>1
      <4>3. \A j \in 1 .. K - i : (i + 1) + j - 1 = i + j
        BY <1>1
      <4> QED BY <4>1, <4>2, <4>3
    <3> QED BY <3>1, <3>2
  <2>3. PICK one : one = <<q[i]>>
    OBVIOUS
  <2>3a. one \in Seq(Nodes) /\ Len(one) = 1 /\ one[1] = q[i]
    BY <2>1, <2>3
  <2>4. r \in Seq(Nodes) /\ Behind(r, one, From(i + 1))
    <3>1. one \o From(i + 1) \in Seq(Nodes) /\ Behind(one \o From(i + 1), one, From(i + 1))
      BY <2>2, <2>3a, ConcatBehind
    <3> QED BY <2>3, <3>1
  <2> HIDE DEF r
  <2>5. Len(r) = K - i + 1 /\ r[1] = q[i] /\ \A j \in 1 .. K - i : r[1 + j] = q[i + j]
    <3>1. Len(r) = Len(one) + Len(From(i + 1)) /\ Len(one) = 1 /\ Len(From(i + 1)) = K - i
      BY <2>2, <2>3a, <2>4 DEF Behind
    <3>2. r[1] = one[1]
      BY <2>3a, <2>4 DEF Behind
    <3>3. \A j \in 1 .. K - i : r[1 + j] = From(i + 1)[j]
      BY <2>2, <2>3a, <2>4 DEF Behind
    <3>4. \A j \in 1 .. K - i : r[1 + j] = q[i + j]
      BY <2>2, <3>3
    <3>5. Len(r) = K - i + 1
      <4>1. i \in Int /\ K \in Int
        BY <1>1
      <4> HIDE DEF K
      <4> QED BY <3>1, <4>1
    <3> QED BY <2>3a, <3>2, <3>4, <3>5
  <2>6. From(i) \in Seq(Nodes) /\ Len(From(i)) = K - i + 1
        /\ \A j \in 1 .. K - i + 1 : From(i)[j] = q[i + j - 1]
    BY <1>3
  <2>7. \A j \in 1 .. K - i + 1 : r[j] = From(i)[j]
    <3> TAKE j \in 1 .. K - i + 1
    <3>1. CASE j = 1
      BY <1>1, <2>5, <2>6, <3>1
    <3>2. CASE j # 1
      <4>1. j - 1 \in 1 .. K - i /\ 1 + (j - 1) = j /\ i + (j - 1) = i + j - 1
        BY <1>1, <3>2
      <4>2. r[1 + (j - 1)] = q[i + (j - 1)]
        BY <2>5, <4>1
      <4> QED BY <2>6, <4>1, <4>2
    <3> QED BY <3>1, <3>2
  <2>8. r = From(i)
    BY <2>4, <2>5, <2>6, <2>7, SeqEqual
  <2> QED BY <2>8 DEF r
<1>5. ASSUME NEW n \in Links
      PROVE  /\ \E x : Is(n, x)
             /\ \A x, y : Is(n, x) /\ Is(n, y) => x = y
  <2>1. \E x : Is(n, x)
    OBVIOUS
  <2>2. ASSUME NEW x, NEW y, Is(n, x), Is(n, y) PROVE x = y
    BY <1>1, <1>2, <2>2
  <2> QED BY <2>1, <2>2
<1>6. \A n \in Links : Is(n, f[n])
  <2> HIDE DEF Is
  <2> QED BY <1>5
<1>7. f[NULL] = <<>> /\ \A i \in 1 .. K : f[q[i]] = From(i)
  <2>1. NULL \in Links /\ \A i \in 1 .. K : q[i] \in Links
    BY <1>1
  <2>2. Is(NULL, <<>>) /\ \A i \in 1 .. K : Is(q[i], From(i))
    OBVIOUS
  <2> HIDE DEF Is, f, Links
  <2> QED BY <1>5, <1>6, <2>1, <2>2
<1> HIDE DEF f
<1>8. \A n \in Links : f[n] = Rest(f)[n]
  <2> SUFFICES ASSUME NEW n \in Links PROVE f[n] = Rest(f)[n]
    OBVIOUS
  <2>1. CASE n = NULL
    BY <1>7, <2>1
  <2>2. ASSUME NEW i \in 1 .. K, n = q[i] PROVE f[n] = Rest(f)[n]
    <3>1. f[next[n]] = From(i + 1)
      <4>1. CASE i < K
        BY <1>1, <1>2, <1>7, <2>2, <4>1
      <4>2. CASE ~ (i < K)
        <5>1. i + 1 = K + 1
          BY <1>1, <4>2
        <5> QED BY <1>2, <1>3, <1>7, <2>2, <4>2, <5>1
      <4> QED BY <4>1, <4>2
    <3>2. n # NULL
      BY <1>1, <2>2
    <3> QED BY <1>4, <1>7, <2>2, <3>1, <3>2
  <2>3. CASE n # NULL /\ \A i \in 1 .. K : q[i] # n
    <3>1. f[n] = <<n>>
      <4>1. Is(n, <<n>>)
        BY <2>3
      <4> HIDE DEF Is
      <4> QED BY <1>5, <1>6, <4>1
    <3>2. next[n] = NULL /\ n \in Nodes
      BY <1>2, <2>3
    <3>3. <<n>> \o <<>> = <<n>>
      <4>1. <<n>> \in Seq({n})
        OBVIOUS
      <4> QED BY <4>1, ConcatEmptySeq
    <3> QED BY <1>7, <2>3, <3>1, <3>2, <3>3
  <2> QED BY <2>1, <2>2, <2>3
<1>9. f = Rest(f)
  <2>1. f = [n \in Links |-> f[n]]
    BY DEF f
  <2>2. [n \in Links |-> f[n]] = [n \in Links |-> Rest(f)[n]]
    <3> HIDE DEF Rest, Links
    <3> QED BY <1>8
  <2>3. [n \in Links |-> Rest(f)[n]] = Rest(f)
    OBVIOUS
  <2> HIDE DEF Rest
  <2> QED BY <2>1, <2>2, <2>3
<1>10. PICK h : h = Rest(h) /\ h = CHOOSE walk : walk = Rest(walk)
  <2> HIDE DEF Rest
  <2> QED BY <1>9
<1>11. Walk(next, first) = h[first]
  BY <1>10, Zenon DEF Walk
<1>12. h[NULL] = <<>> /\ \A i \in 1 .. K : h[q[i]] = <<q[i]>> \o h[next[q[i]]]
  BY <1>1, <1>10
<1> HIDE DEF Rest
<1>13. \A i \in 1 .. K : h[q[i]] = From(i)
  <2> DEFINE R == {ss \in Nat \X Nat : ss[1] < ss[2]}
             Bad == {k \in 0 .. K - 1 : h[q[K - k]] # From(K - k)}
  <2>1. IsWellFoundedOn(R, Nat)
    BY NatLessThanWellFounded, Zenon DEF OpToRel
  <2>2. SUFFICES Bad = {}
    <3>1. \A i \in 1 .. K : K - i \in 0 .. K - 1 /\ K - (K - i) = i
      BY <1>1
    <3> QED BY <3>1
  <2>3. SUFFICES ASSUME Bad # {} PROVE FALSE
    OBVIOUS
  <2>4. Bad \subseteq Nat
    BY <1>1
  <2>5. PICK k \in Bad : \A j \in Bad : <<j, k>> \notin R
    <3> HIDE DEF R, Bad
    <3> QED BY <2>1, <2>3, <2>4, WFMin
  <2>6. PICK i \in 1 .. K : i = K - k
    BY <1>1
  <2>7. h[next[q[i]]] = From(i + 1)
    <3>1. CASE i = K
      BY <1>1, <1>2, <1>3, <1>12, <3>1
    <3>2. CASE i # K
      <4>1. k - 1 \in 0 .. K - 1 /\ <<k - 1, k>> \in R /\ K - (k - 1) = i + 1
        BY <1>1, <2>6, <3>2
      <4>2. k - 1 \notin Bad
        BY <2>5, <4>1
      <4>3. h[q[i + 1]] = From(i + 1)
        BY <4>1, <4>2
      <4>4. i < K
        BY <1>1, <3>2
      <4> QED BY <1>2, <4>3, <4>4
    <3> QED BY <3>1, <3>2
  <2>8. h[q[i]] = From(i)
    BY <1>4, <1>12, <2>7
  <2>9. h[q[i]] # From(i)
    BY <2>5, <2>6
  <2> QED BY <2>8, <2>9
<1>14. CASE K > 0
  <2>1. 1 \in 1 .. K /\ first = q[1]
    BY <1>1, <1>14
  <2> QED BY <1>3, <1>11, <1>13, <1>14, <2>1
<1>15. CASE ~ (K > 0)
  <2>1. K = 0 /\ first = NULL
    BY <1>1, <1>15
  <2> QED BY <1>3, <1>11, <1>12, <2>1
<1> QED BY <1>14, <1>15

(* A sorted sequence has no node twice. *)
LEMMA SortedApart ==
  ASSUME NEW pos, NEW S, \A x \in S : pos[x] \in Int, NEW q, Sorted(q, pos, S)
  PROVE  \A i, j \in 1 .. Len(q) : q[i] = q[j] => i = j
<1>1. Len(q) \in Nat /\ \A i \in 1 .. Len(q) : q[i] \in S
  BY SortedOnce
<1>2. ASSUME NEW i \in 1 .. Len(q), NEW j \in 1 .. Len(q), q[i] = q[j] PROVE i = j
  <2>1. pos[q[i]] \in Int /\ pos[q[i]] = pos[q[j]]
    BY <1>1, <1>2
  <2>2. (i < j => pos[q[i]] < pos[q[j]]) /\ (j < i => pos[q[j]] < pos[q[i]])
    BY DEF Sorted
  <2> QED BY <1>1, <2>1, <2>2
<1> QED BY <1>2


(* Forwards and backwards rb_next and rb_prev visit the nodes as InOrder   *)
(* has them, and rb_first is the first of these.                           *)
LEMMA InOrderWalks ==
  ASSUME NEW t, NEW pos, Shape(t, pos), IsFiniteSet(InTree(t))
  PROVE  /\ Walk([n \in Nodes |-> rb_next(t, n)], rb_first(t)) = InOrder(t)
         /\ Walk([n \in Nodes |-> rb_prev(t, n)], rb_last(t)) = Reverse(InOrder(t))
         /\ rb_first(t) = IF Len(InOrder(t)) > 0 THEN InOrder(t)[1] ELSE NULL
         /\ \A i \in 1 .. Len(InOrder(t)) :
              rb_next(t, InOrder(t)[i]) = IF i < Len(InOrder(t)) THEN InOrder(t)[i + 1] ELSE NULL
<1> DEFINE q == InOrder(t)
           r == Reverse(q)
           next == [n \in Nodes |-> rb_next(t, n)]
           prev == [n \in Nodes |-> rb_prev(t, n)]
<1>1. /\ Sorted(q, pos, InTree(t)) /\ InTree(t) \subseteq Nodes
      /\ \A x \in InTree(t) : pos[x] \in Int
  BY InOrderSorted DEF Shape, InTree
<1>2. /\ Len(q) \in Nat /\ q \in Seq(Nodes) /\ \A i \in 1 .. Len(q) : q[i] \in Nodes
      /\ \A i, j \in 1 .. Len(q) : q[i] = q[j] => i = j
      /\ \A x \in InTree(t) : \E i \in 1 .. Len(q) : q[i] = x
  <2> DEFINE T == InTree(t)
  <2>1. Sorted(q, pos, T) /\ \A x \in T : pos[x] \in Int
    BY <1>1
  <2> HIDE DEF q, T
  <2>2. Len(q) \in Nat /\ \A i \in 1 .. Len(q) : q[i] \in T
    BY <2>1, SortedOnce
  <2>2a. \A i, j \in 1 .. Len(q) : q[i] = q[j] => i = j
    BY <2>1, SortedApart
  <2>3. q \in Seq(T) /\ \A x \in T : \E i \in 1 .. Len(q) : q[i] = x
    BY <2>1, <2>2 DEF Sorted
  <2>4. T \subseteq Nodes
    BY <1>1 DEF T
  <2>5. q \in Seq(Nodes)
    BY <2>3, <2>4
  <2> QED BY <2>2, <2>2a, <2>3, <2>4, <2>5 DEF T
<1>3. ASSUME NEW n \in Nodes, \A i \in 1 .. Len(q) : q[i] # n
      PROVE  rb_next(t, n) = NULL /\ rb_prev(t, n) = NULL
  <2>1. n \notin InTree(t)
    BY <1>2, <1>3
  <2>2. t.up[n] = NULL /\ \A s \in Sides : t.kid[n][s] = NULL
    BY <2>1 DEF Shape, InTree, NoKids
  <2>3. \A s \in Sides : Neighbour(t, n, s) = NULL
    BY <2>2, ClimbStep DEF Neighbour
  <2> QED BY <2>3 DEF rb_next, rb_prev, Sides
<1>4. CASE t.root = NULL
  <2>1. Len(q) = 0 /\ q = <<>>
    <3>1. InTree(t) = {}
      BY <1>4, TreeIsSubtree
    <3>2. Len(q) = 0
      <4>1. \A i \in 1 .. Len(q) : q[i] \in {}
        BY <1>1, <3>1, SortedOnce
      <4> QED BY <1>2, <4>1
    <3> QED BY <1>2, <3>2, EmptySeq
  <2>2. rb_first(t) = NULL /\ rb_last(t) = NULL
    BY <1>4 DEF rb_first, rb_last, Extreme
  <2>3. Reverse(q) = <<>>
    <3>1. Reverse(q) \in Seq(Nodes) /\ Len(Reverse(q)) = 0
      BY <1>2, <2>1 DEF Reverse
    <3> QED BY <3>1, EmptySeq
  <2>4. Goes(next, q)
    BY <1>2, <1>3 , <2>1 DEF Goes
  <2>5. Goes(prev, <<>>)
    BY <1>2, <1>3 , <2>1 DEF Goes
  <2> HIDE DEF q, next, prev
  <2>6. Walk(next, NULL) = q
    BY <2>1, <2>4, WalkGoes
  <2>7. Walk(prev, NULL) = <<>>
    <3>1. Len(<<>>) = 0
      OBVIOUS
    <3> QED BY <2>5, <3>1, WalkGoes
  <2> QED BY <2>1, <2>2, <2>3, <2>6, <2>7 DEF q, next, prev
<1>5. CASE t.root # NULL
  <2>1. /\ Chained(q, Adjacent(t)) /\ Len(q) > 0
        /\ q[1] = rb_first(t) /\ q[Len(q)] = rb_last(t)
        /\ rb_next(t, rb_last(t)) = NULL /\ rb_prev(t, rb_first(t)) = NULL
    BY <1>5, InOrderInLine DEF InLine, rb_first, rb_last
  <2>2. \A i \in 1 .. Len(q) - 1 : rb_next(t, q[i]) = q[i + 1] /\ rb_prev(t, q[i + 1]) = q[i]
    BY <2>1 DEF Chained, Adjacent
  <2> HIDE DEF q
  <2>3. \A i \in 1 .. Len(q) : rb_next(t, q[i]) = IF i < Len(q) THEN q[i + 1] ELSE NULL
    <3> TAKE i \in 1 .. Len(q)
    <3>1. CASE i < Len(q)
      BY <1>2, <2>2, <3>1
    <3>2. CASE ~ (i < Len(q))
      <4>1. i = Len(q)
        BY <1>2, <3>2
      <4> QED BY <2>1, <3>2, <4>1
    <3> QED BY <3>1, <3>2
  <2>4. \A i \in 1 .. Len(q) : rb_prev(t, q[i]) = IF i > 1 THEN q[i - 1] ELSE NULL
    <3> TAKE i \in 1 .. Len(q)
    <3>1. CASE i > 1
      <4>1. i - 1 \in 1 .. Len(q) - 1 /\ (i - 1) + 1 = i
        BY <1>2, <3>1
      <4> QED BY <2>2, <3>1, <4>1
    <3>2. CASE ~ (i > 1)
      <4>1. i = 1
        BY <1>2, <3>2
      <4> QED BY <2>1, <3>2, <4>1
    <3> QED BY <3>1, <3>2
  <2>5. Goes(next, q)
    BY <1>2, <1>3, <2>3 DEF Goes
  <2>6. /\ r \in Seq(Nodes) /\ Len(r) = Len(q)
        /\ \A i \in 1 .. Len(q) : Len(q) - i + 1 \in 1 .. Len(q) /\ r[i] = q[Len(q) - i + 1]
    <3>1. r = [i \in 1 .. Len(q) |-> q[(Len(q) - i) + 1]]
      BY DEF Reverse
    <3>2. \A i \in 1 .. Len(q) : (Len(q) - i) + 1 \in 1 .. Len(q)
      BY <1>2
    <3> HIDE DEF r
    <3>3. r \in [1 .. Len(q) -> Nodes]
      BY <1>2, <3>1, <3>2
    <3>4. r \in Seq(Nodes) /\ Len(r) = Len(q)
      <4> DEFINE k == Len(q)
      <4>1. k \in Nat /\ r \in [1 .. k -> Nodes]
        BY <1>2, <3>3
      <4> HIDE DEF k
      <4>2. r \in Seq(Nodes) /\ Len(r) = k
        BY <4>1, SeqDef, LenProperties
      <4> QED BY <4>2 DEF k
    <3> QED BY <3>1, <3>2, <3>4
  <2> HIDE DEF r
  <2>7. Goes(prev, r)
    <3>1. \A i, j \in 1 .. Len(r) : r[i] = r[j] => i = j
      <4> TAKE i, j \in 1 .. Len(r)
      <4>0. i \in 1 .. Len(q) /\ j \in 1 .. Len(q)
        BY <2>6
      <4>1. r[i] = r[j] => Len(q) - i + 1 = Len(q) - j + 1
        <5>1. \A k, m \in 1 .. Len(q) : q[k] = q[m] => k = m
          BY <1>2
        <5>2. /\ Len(q) - i + 1 \in 1 .. Len(q) /\ r[i] = q[Len(q) - i + 1]
              /\ Len(q) - j + 1 \in 1 .. Len(q) /\ r[j] = q[Len(q) - j + 1]
          BY <2>6, <4>0
        <5> QED BY <5>1, <5>2
      <4>2. i \in Int /\ j \in Int /\ Len(q) \in Int
        BY <1>2, <2>6
      <4> QED BY <4>1, <4>2
    <3>2. ASSUME NEW i \in 1 .. Len(r)
          PROVE  prev[r[i]] = IF i < Len(r) THEN r[i + 1] ELSE NULL
      <4> DEFINE k == Len(q) - i + 1
      <4>1. k \in 1 .. Len(q) /\ r[i] = q[k] /\ i \in 1 .. Len(q)
        BY <2>6
      <4>2. prev[r[i]] = IF k > 1 THEN q[k - 1] ELSE NULL
        BY <1>2, <2>4, <4>1
      <4>3. k > 1 <=> i < Len(r)
        BY <1>2, <2>6, <4>1
      <4>4. i < Len(r) => r[i + 1] = q[k - 1]
        <5> SUFFICES ASSUME i < Len(r) PROVE r[i + 1] = q[k - 1]
          OBVIOUS
        <5>1. i + 1 \in 1 .. Len(q) /\ Len(q) - (i + 1) + 1 = k - 1
          BY <1>2, <2>6, <4>1
        <5> QED BY <2>6, <5>1
      <4> HIDE DEF k
      <4> QED BY <4>2, <4>3, <4>4
    <3>3. ASSUME NEW n \in Nodes, \A i \in 1 .. Len(r) : r[i] # n PROVE prev[n] = NULL
      <4>1. \A i \in 1 .. Len(q) : q[i] # n
        <5> TAKE i \in 1 .. Len(q)
        <5>1. Len(q) - i + 1 \in 1 .. Len(r) /\ Len(q) - (Len(q) - i + 1) + 1 = i
          BY <1>2, <2>6
        <5>2. r[Len(q) - i + 1] = q[i]
          BY <2>6, <5>1
        <5> QED BY <3>3, <5>1, <5>2
      <4> QED BY <1>3, <4>1
    <3> QED BY <2>6, <3>1, <3>2, <3>3 DEF Goes
  <2>8. Walk(next, rb_first(t)) = q
    <3> HIDE DEF next
    <3> QED BY <2>1, <2>5, WalkGoes
  <2>9. Walk(prev, rb_last(t)) = r
    <3>1. rb_last(t) = IF Len(r) > 0 THEN r[1] ELSE NULL
      <4>1. 1 \in 1 .. Len(q) /\ Len(q) - 1 + 1 = Len(q)
        BY <1>2, <2>1
      <4> QED BY <2>1, <2>6, <4>1
    <3> HIDE DEF prev
    <3> QED BY <2>7, <3>1, WalkGoes
  <2>10. rb_first(t) = IF Len(q) > 0 THEN q[1] ELSE NULL
    BY <2>1
  <2> QED BY <2>3, <2>8, <2>9, <2>10 DEF q, r
<1> QED BY <1>4, <1>5

(***************************************************************************)
(* The postorder walk.                                                     *)
(***************************************************************************)

(* The way to the deepest node prefers the left child. *)
LEMMA DeepestStep ==
  ASSUME NEW t, NEW pos, Shape(t, pos), NEW n \in Nodes
  PROVE  rb_left_deepest_node(t, n) =
           IF t.kid[n]["left"] # NULL THEN rb_left_deepest_node(t, t.kid[n]["left"])
           ELSE IF t.kid[n]["right"] # NULL THEN rb_left_deepest_node(t, t.kid[n]["right"])
           ELSE n
<1> DEFINE next == [m \in Nodes |-> IF t.kid[m]["left"] # NULL THEN t.kid[m]["left"]
                                    ELSE t.kid[m]["right"]]
           end  == [m \in Nodes |-> m]
           Rest(f) == [m \in Nodes |-> IF t.kid[m]["left"] # NULL THEN f[t.kid[m]["left"]]
                                       ELSE IF t.kid[m]["right"] # NULL
                                       THEN f[t.kid[m]["right"]] ELSE m]
<1>1. \A m \in Nodes, s \in Sides : t.kid[m][s] \in Nodes \cup {NULL}
  BY KidsApart
<1>2. "left" \in Sides /\ "right" \in Sides
  BY DEF Sides
<1>3. next \in [Nodes -> Nodes \cup {NULL}]
  BY <1>1, <1>2
<1>4. PICK f : f = [m \in Nodes |-> IF next[m] = NULL THEN end[m] ELSE f[next[m]]]
  <2> HIDE DEF next, end
  <2> QED BY <1>3, PathExists
<1>5. [m \in Nodes |-> IF next[m] = NULL THEN end[m] ELSE f[next[m]]] = Rest(f)
  <2>1. \A m \in Nodes : (IF next[m] = NULL THEN end[m] ELSE f[next[m]]) = Rest(f)[m]
    OBVIOUS
  <2>2. Rest(f) = [m \in Nodes |-> Rest(f)[m]]
    OBVIOUS
  <2> HIDE DEF next, end, Rest
  <2> QED BY <2>1, <2>2
<1>6. PICK h : h = Rest(h) /\ h = CHOOSE deep : deep = Rest(deep)
  <2>1. f = Rest(f)
    BY <1>4, <1>5
  <2> HIDE DEF Rest
  <2> QED BY <2>1
<1>7. \A m \in Nodes : rb_left_deepest_node(t, m) = h[m]
  BY <1>6, Zenon DEF rb_left_deepest_node
<1>8. h[n] = IF t.kid[n]["left"] # NULL THEN h[t.kid[n]["left"]]
             ELSE IF t.kid[n]["right"] # NULL THEN h[t.kid[n]["right"]] ELSE n
  BY <1>6
<1>9. \A s \in Sides : t.kid[n][s] # NULL => rb_left_deepest_node(t, t.kid[n][s]) = h[t.kid[n][s]]
  BY <1>1, <1>7
<1> HIDE DEF Rest
<1> QED BY <1>2, <1>7, <1>8, <1>9

(* The steps of the walk. *)
PostSteps(t) == {e \in Nodes \X Nodes : rb_next_postorder(t, e[1]) = e[2]}

(* q are the nodes of S, each once; rb_next_postorder goes along it; and   *)
(* the parent of each comes after it, unless it is one of P.               *)
InPost(t, S, P, q) ==
  /\ q \in Seq(Nodes) /\ Chained(q, PostSteps(t))
  /\ \A i \in 1 .. Len(q) : q[i] \in S
  /\ \A x \in S : \E i \in 1 .. Len(q) : q[i] = x
  /\ \A i, j \in 1 .. Len(q) : q[i] = q[j] => i = j
  /\ \A i \in 1 .. Len(q) : \/ t.up[q[i]] \in P
                            \/ \E j \in 1 .. Len(q) : i < j /\ q[j] = t.up[q[i]]

(* Two such walks of different nodes make one, if the first leads into the *)
(* second.                                                                 *)
LEMMA PostJoins ==
  ASSUME NEW t, NEW S, NEW T, S \cap T = {}, NEW P, NEW Q, P \subseteq T \cup Q,
         NEW a, InPost(t, S, P, a), NEW b, InPost(t, T, Q, b),
         Len(a) > 0 /\ Len(b) > 0 => <<a[Len(a)], b[1]>> \in PostSteps(t)
  PROVE  InPost(t, S \cup T, Q, a \o b) /\ Behind(a \o b, a, b)
<1> DEFINE c == a \o b
<1>1. c \in Seq(Nodes) /\ Behind(c, a, b)
  BY ConcatBehind DEF InPost
<1> HIDE DEF c
<1>2. /\ Len(a) \in Nat /\ Len(b) \in Nat /\ Len(c) = Len(a) + Len(b)
      /\ \A i \in 1 .. Len(a) : c[i] = a[i]
      /\ \A i \in 1 .. Len(b) : c[Len(a) + i] = b[i]
  BY <1>1 DEF Behind
<1>3. Chained(c, PostSteps(t))
  BY <1>1, ChainJoin DEF InPost
<1>4. ASSUME NEW i \in 1 .. Len(c)
      PROVE  \/ i \in 1 .. Len(a) /\ c[i] = a[i] /\ c[i] \in S
             \/ \E k \in 1 .. Len(b) : i = Len(a) + k /\ c[i] = b[k] /\ c[i] \in T
  <2>1. CASE i =< Len(a)
    <3>1. i \in 1 .. Len(a)
      BY <1>2, <2>1
    <3> QED BY <1>2, <3>1 DEF InPost
  <2>2. CASE ~ (i =< Len(a))
    <3>1. i - Len(a) \in 1 .. Len(b) /\ Len(a) + (i - Len(a)) = i
      BY <1>2, <2>2
    <3>2. c[i] = b[i - Len(a)]
      BY <1>2, <3>1
    <3> QED BY <3>1, <3>2 DEF InPost
  <2> QED BY <2>1, <2>2
<1>5. \A i \in 1 .. Len(b) : Len(a) + i \in 1 .. Len(c) /\ Len(a) < Len(a) + i
  BY <1>2
<1>6. \A i \in 1 .. Len(a) : i \in 1 .. Len(c) /\ i =< Len(a)
  BY <1>2
<1>7. \A x \in S \cup T : \E i \in 1 .. Len(c) : c[i] = x
  <2>1. ASSUME NEW x \in S PROVE \E i \in 1 .. Len(c) : c[i] = x
    <3>1. PICK i \in 1 .. Len(a) : a[i] = x
      BY DEF InPost
    <3> QED BY <1>2, <1>6, <3>1
  <2>2. ASSUME NEW x \in T PROVE \E i \in 1 .. Len(c) : c[i] = x
    <3>1. PICK i \in 1 .. Len(b) : b[i] = x
      BY DEF InPost
    <3>2. Len(a) + i \in 1 .. Len(c) /\ c[Len(a) + i] = x
      BY <1>2, <1>5, <3>1
    <3> QED BY <3>2
  <2> QED BY <2>1, <2>2
<1>8. ASSUME NEW i \in 1 .. Len(c), NEW j \in 1 .. Len(c), c[i] = c[j] PROVE i = j
  <2>1. CASE i \in 1 .. Len(a) /\ c[i] = a[i] /\ c[i] \in S
    <3>1. j \in 1 .. Len(a) /\ c[j] = a[j]
      BY <1>4, <1>8, <2>1
    <3>2. a[i] = a[j] /\ \A k, m \in 1 .. Len(a) : a[k] = a[m] => k = m
      BY <1>8, <2>1, <3>1 DEF InPost
    <3> QED BY <2>1, <3>1, <3>2
  <2>2. ASSUME NEW k \in 1 .. Len(b), i = Len(a) + k, c[i] = b[k], c[i] \in T PROVE i = j
    <3>1. PICK m \in 1 .. Len(b) : j = Len(a) + m /\ c[j] = b[m]
      BY <1>4, <1>8, <2>2
    <3>2. k = m
      BY <1>8, <2>2, <3>1 DEF InPost
    <3> QED BY <2>2, <3>1, <3>2
  <2> QED BY <1>4, <2>1, <2>2
<1>9. ASSUME NEW i \in 1 .. Len(c)
      PROVE  \/ t.up[c[i]] \in Q
             \/ \E j \in 1 .. Len(c) : i < j /\ c[j] = t.up[c[i]]
  <2>1. CASE i \in 1 .. Len(a) /\ c[i] = a[i] /\ c[i] \in S
    <3>1. CASE t.up[a[i]] \in P
      <4>1. CASE t.up[a[i]] \in T
        <5>1. PICK k \in 1 .. Len(b) : b[k] = t.up[a[i]]
          BY <4>1 DEF InPost
        <5>2. /\ Len(a) + k \in 1 .. Len(c) /\ c[Len(a) + k] = t.up[c[i]]
              /\ i < Len(a) + k
          BY <1>2, <1>5, <2>1, <5>1
        <5> QED BY <5>2
      <4> QED BY <2>1, <3>1, <4>1
    <3>2. ASSUME NEW j \in 1 .. Len(a), i < j, a[j] = t.up[a[i]]
          PROVE  \E m \in 1 .. Len(c) : i < m /\ c[m] = t.up[c[i]]
      BY <1>2, <1>6, <2>1, <3>2
    <3> QED BY <2>1, <3>1, <3>2 DEF InPost
  <2>2. ASSUME NEW k \in 1 .. Len(b), i = Len(a) + k, c[i] = b[k]
        PROVE  \/ t.up[c[i]] \in Q
               \/ \E j \in 1 .. Len(c) : i < j /\ c[j] = t.up[c[i]]
    <3>1. ASSUME NEW j \in 1 .. Len(b), k < j, b[j] = t.up[b[k]]
          PROVE  \E m \in 1 .. Len(c) : i < m /\ c[m] = t.up[c[i]]
      <4>1. Len(a) + j \in 1 .. Len(c) /\ i < Len(a) + j /\ c[Len(a) + j] = t.up[c[i]]
        BY <1>2, <1>5, <2>2, <3>1
      <4> QED BY <4>1
    <3> QED BY <2>2, <3>1 DEF InPost
  <2> QED BY <1>4, <2>1, <2>2
<1>10. \A i \in 1 .. Len(c) : c[i] \in S \cup T
  BY <1>4
<1>11. InPost(t, S \cup T, Q, c)
  BY <1>1, <1>3, <1>7, <1>8, <1>9, <1>10 DEF InPost
<1> QED BY <1>1, <1>11 DEF c

(* The walk below n, from its deepest node to n itself. *)
Post(t, n, q) ==
  /\ InPost(t, Subtree(t, n), {t.up[n]}, q) /\ Len(q) > 0
  /\ q[1] = rb_left_deepest_node(t, n) /\ q[Len(q)] = n

(* The walk of what hangs on a side. *)
PostPart(t, k, q) == IF k = NULL THEN q = <<>> ELSE Post(t, k, q)

(* The left side, the right side and the node itself, one behind another.  *)
LEMMA PostOfParts ==
  ASSUME NEW t, NEW pos, Shape(t, pos), NEW n \in Nodes,
         NEW a, PostPart(t, t.kid[n]["left"], a), NEW b, PostPart(t, t.kid[n]["right"], b)
  PROVE  \E q : Post(t, n, q)
<1> DEFINE l == t.kid[n]["left"]
           r == t.kid[n]["right"]
<1>1. /\ "left" \in Sides /\ "right" \in Sides /\ Other("left") = "right"
      /\ NULL \notin Nodes /\ n # NULL /\ l \in Nodes \cup {NULL} /\ r \in Nodes \cup {NULL}
  BY NullAssumption, KidsApart DEF Sides, Other
<1>2. /\ l # NULL => t.up[l] = n /\ l # r
      /\ r # NULL => t.up[r] = n
      /\ \A m \in Nodes : t.up[m] # NULL => t.up[m] \in Nodes
  BY <1>1, KidsApart DEF InTree
<1>3. /\ InPost(t, Part(t, l), {n}, a) /\ Len(a) \in Nat /\ (Len(a) > 0 <=> l # NULL)
      /\ InPost(t, Part(t, r), {n}, b) /\ Len(b) \in Nat /\ (Len(b) > 0 <=> r # NULL)
  <2>1. ASSUME NEW k \in Nodes \cup {NULL}, k # NULL => t.up[k] = n, NEW q, PostPart(t, k, q)
        PROVE  InPost(t, Part(t, k), {n}, q) /\ Len(q) \in Nat /\ (Len(q) > 0 <=> k # NULL)
    <3>1. CASE k = NULL
      <4>1. q = <<>> /\ Part(t, k) = {}
        BY <2>1, <3>1 DEF PostPart, Part
      <4>2. Len(q) = 0 /\ q \in Seq(Nodes) /\ 1 .. Len(q) = {} /\ 1 .. Len(q) - 1 = {}
        BY <4>1
      <4> QED BY <3>1, <4>1, <4>2 DEF InPost, Chained
    <3>2. CASE k # NULL
      BY <2>1, <3>2, LenProperties DEF PostPart, Part, Post, InPost
    <3> QED BY <3>1, <3>2
  <2> QED BY <1>1, <1>2, <2>1
<1>4. /\ Part(t, l) \cap Part(t, r) = {} /\ n \notin Part(t, l) \cup Part(t, r)
      /\ Subtree(t, n) = (Part(t, l) \cup Part(t, r)) \cup {n}
  <2>1. ASSUME NEW x \in Part(t, l) PROVE pos[x] \in Int /\ pos[n] \in Int /\ pos[x] < pos[n]
    BY <1>1, SubtreeSides DEF Part
  <2>2. ASSUME NEW x \in Part(t, r) PROVE pos[x] \in Int /\ pos[n] \in Int /\ pos[n] < pos[x]
    BY <1>1, SubtreeSides DEF Part
  <2>3. \A x : x \in Subtree(t, n) <=> x = n \/ x \in Part(t, l) \/ x \in Part(t, r)
    <3>1. \A x : x \in Subtree(t, n) <=>
            x = n \/ \E s \in Sides : t.kid[n][s] # NULL /\ x \in Subtree(t, t.kid[n][s])
      BY SubtreeParts
    <3> QED BY <3>1 DEF Part, Sides
  <2>4. \A x : x \in Part(t, l) => x \notin Part(t, r)
    BY <2>1, <2>2
  <2>5. n \notin Part(t, l) /\ n \notin Part(t, r)
    BY <2>1, <2>2
  <2> HIDE DEF l, r
  <2> QED BY <2>3, <2>4, <2>5
<1>5. /\ l # NULL => a[Len(a)] = l /\ a[1] = rb_left_deepest_node(t, l)
      /\ r # NULL => b[Len(b)] = r /\ b[1] = rb_left_deepest_node(t, r)
  BY DEF PostPart, Post
<1>6. /\ l # NULL => rb_next_postorder(t, l) = IF r # NULL THEN rb_left_deepest_node(t, r) ELSE n
      /\ r # NULL => rb_next_postorder(t, r) = n
  BY <1>1, <1>2 DEF rb_next_postorder
<1>7. rb_left_deepest_node(t, n) = IF l # NULL THEN rb_left_deepest_node(t, l)
                                   ELSE IF r # NULL THEN rb_left_deepest_node(t, r) ELSE n
  BY DeepestStep
<1>8. /\ Len(a) > 0 => a[1] \in Nodes /\ a[Len(a)] \in Nodes
      /\ Len(b) > 0 => b[1] \in Nodes /\ b[Len(b)] \in Nodes
  <2>1. ASSUME NEW S, NEW P, NEW q, InPost(t, S, P, q), Len(q) > 0
        PROVE  q[1] \in Nodes /\ q[Len(q)] \in Nodes
    <3>1. q \in Seq(Nodes) /\ Len(q) \in Nat /\ 1 \in 1 .. Len(q) /\ Len(q) \in 1 .. Len(q)
      BY <2>1, LenProperties DEF InPost
    <3> QED BY <3>1, ElementOfSeq
  <2> QED BY <1>3, <2>1
<1> HIDE DEF l, r
<1>9. InPost(t, Part(t, l) \cup Part(t, r), {n}, a \o b) /\ Behind(a \o b, a, b)
  <2>1. Len(a) > 0 /\ Len(b) > 0 => <<a[Len(a)], b[1]>> \in PostSteps(t)
    BY <1>3, <1>5, <1>6, <1>8 DEF PostSteps
  <2>2. {n} \subseteq Part(t, r) \cup {n}
    OBVIOUS
  <2> QED BY <1>3, <1>4, <2>1, <2>2, PostJoins
<1>10. PICK ab : ab = a \o b
  OBVIOUS
<1>11. /\ InPost(t, Part(t, l) \cup Part(t, r), {n}, ab)
       /\ Len(ab) = Len(a) + Len(b)
       /\ Len(a) > 0 => ab[1] = a[1]
       /\ Len(b) > 0 => ab[Len(a) + 1] = b[1] /\ ab[Len(a) + Len(b)] = b[Len(b)]
       /\ Len(a) > 0 /\ Len(b) = 0 => ab[Len(a)] = a[Len(a)]
  <2>1. Behind(ab, a, b)
    BY <1>9, <1>10
  <2>2. /\ Len(a) > 0 => 1 \in 1 .. Len(a) /\ Len(a) \in 1 .. Len(a)
        /\ Len(b) > 0 => 1 \in 1 .. Len(b) /\ Len(b) \in 1 .. Len(b)
    BY <1>3
  <2> QED BY <1>9, <1>10, <2>1, <2>2 DEF Behind
<1>12. Len(ab) > 0 => /\ ab[1] = rb_left_deepest_node(t, n)
                      /\ ab[Len(ab)] \in Nodes /\ rb_next_postorder(t, ab[Len(ab)]) = n
  <2>1. CASE r # NULL
    <3>1. Len(b) > 0 /\ ab[Len(ab)] = r
      BY <1>3, <1>5, <1>11, <2>1
    <3>2. ab[1] = rb_left_deepest_node(t, n)
      <4>1. CASE l # NULL
        BY <1>3, <1>5, <1>7, <1>11, <4>1
      <4>2. CASE l = NULL
        <5>1. Len(a) = 0 /\ Len(a) + 1 = 1
          BY <1>3, <4>2
        <5> QED BY <1>3, <1>5, <1>7, <1>11, <2>1, <4>2, <5>1
      <4> QED BY <4>1, <4>2
    <3> QED BY <1>1, <1>6, <2>1, <3>1, <3>2
  <2>2. CASE r = NULL
    <3>1. Len(b) = 0 /\ Len(ab) = Len(a)
      BY <1>3, <1>11, <2>2
    <3>2. Len(ab) > 0 => l # NULL /\ ab[Len(ab)] = l /\ ab[1] = rb_left_deepest_node(t, l)
      BY <1>3, <1>5, <1>11, <3>1
    <3> QED BY <1>1, <1>6, <1>7, <2>2, <3>2
  <2> QED BY <2>1, <2>2
<1>13. Len(ab) = 0 => rb_left_deepest_node(t, n) = n
  BY <1>3, <1>7, <1>11
<1>14. PICK one : one = <<n>>
  OBVIOUS
<1>15. InPost(t, {n}, {t.up[n]}, one) /\ Len(one) = 1 /\ one[1] = n
  <2>1. one \in Seq(Nodes) /\ Len(one) = 1 /\ one[1] = n /\ 1 .. Len(one) = {1}
        /\ 1 .. Len(one) - 1 = {}
    BY <1>14
  <2> QED BY <2>1 DEF InPost, Chained
<1>16. InPost(t, Subtree(t, n), {t.up[n]}, ab \o one) /\ Behind(ab \o one, ab, one)
  <2>1. Len(ab) > 0 /\ Len(one) > 0 => <<ab[Len(ab)], one[1]>> \in PostSteps(t)
    BY <1>12, <1>15 DEF PostSteps
  <2>2. PICK S : S = Part(t, l) \cup Part(t, r)
    OBVIOUS
  <2>3. {n} \subseteq {n} \cup {t.up[n]} /\ S \cap {n} = {} /\ Subtree(t, n) = S \cup {n}
    BY <1>4, <2>2
  <2>4. InPost(t, S, {n}, ab) /\ InPost(t, {n}, {t.up[n]}, one)
    BY <1>11, <1>15, <2>2
  <2>5. InPost(t, S \cup {n}, {t.up[n]}, ab \o one) /\ Behind(ab \o one, ab, one)
    BY <2>1, <2>3, <2>4, PostJoins
  <2> QED BY <2>3, <2>5
<1>17. PICK q : q = ab \o one
  OBVIOUS
<1>18. /\ Len(q) = Len(ab) + 1 /\ Len(ab) \in Nat
       /\ Len(ab) > 0 => q[1] = ab[1]
       /\ q[Len(ab) + 1] = n
  <2>1. Behind(q, ab, one) /\ Len(one) = 1 /\ one[1] = n
    BY <1>15, <1>16, <1>17
  <2>2. Len(ab) \in Nat /\ (Len(ab) > 0 => 1 \in 1 .. Len(ab)) /\ 1 \in 1 .. Len(one)
    BY <2>1 DEF Behind
  <2> QED BY <2>1, <2>2 DEF Behind
<1>19. Len(q) > 0 /\ q[Len(q)] = n /\ q[1] = rb_left_deepest_node(t, n)
  BY <1>12, <1>13, <1>18
<1> QED BY <1>16, <1>17, <1>19 DEF Post

(* Below every node there is such a walk. *)
LEMMA PostExists ==
  ASSUME NEW t, NEW pos, Shape(t, pos), NEW n \in Nodes
  PROVE  \E q : Post(t, n, q)
<1> DEFINE S == {m \in Nodes : \E q : Post(t, m, q)}
<1>1. ASSUME NEW m \in Nodes, \A s \in Sides : t.kid[m][s] # NULL => t.kid[m][s] \in S
      PROVE  m \in S
  <2>1. ASSUME NEW s \in Sides PROVE \E q : PostPart(t, t.kid[m][s], q)
    BY <1>1 DEF PostPart
  <2>2. PICK a : PostPart(t, t.kid[m]["left"], a)
    BY <2>1 DEF Sides
  <2>3. PICK b : PostPart(t, t.kid[m]["right"], b)
    BY <2>1 DEF Sides
  <2> QED BY <2>2, <2>3, PostOfParts
<1>2. S \in SUBSET Nodes
  OBVIOUS
<1>3. S = Nodes
  <2> HIDE DEF S
  <2> QED BY <1>1, <1>2, TreeInduction
<1> QED BY <1>3

(* The postorder walk, from rb_first_postorder along rb_next_postorder. *)
PostWalk(t) == Walk([n \in Nodes |-> rb_next_postorder(t, n)], rb_first_postorder(t))

(* q are the nodes of the tree, each once, the parent of each after it.    *)
ParentsLater(t, q) ==
  /\ q \in Seq(Nodes) /\ \A i \in 1 .. Len(q) : q[i] \in InTree(t)
  /\ \A x \in InTree(t) : \E i \in 1 .. Len(q) : q[i] = x
  /\ \A i, j \in 1 .. Len(q) : q[i] = q[j] => i = j
  /\ \A i \in 1 .. Len(q) : t.up[q[i]] # NULL =>
       \E j \in 1 .. Len(q) : i < j /\ q[j] = t.up[q[i]]

(* That is what the postorder walk visits. *)
LEMMA PostWalks ==
  ASSUME NEW t, NEW pos, Shape(t, pos), IsFiniteSet(InTree(t))
  PROVE  ParentsLater(t, PostWalk(t))
<1> DEFINE next == [n \in Nodes |-> rb_next_postorder(t, n)]
<1>1. PICK p : /\ InPost(t, InTree(t), {NULL}, p)
               /\ rb_first_postorder(t) = IF Len(p) > 0 THEN p[1] ELSE NULL
               /\ Len(p) > 0 => p[Len(p)] = t.root /\ t.root \in Nodes /\ t.up[t.root] = NULL
  <2>1. CASE t.root = NULL
    <3>1. InTree(t) = {} /\ rb_first_postorder(t) = NULL
      BY <2>1, TreeIsSubtree DEF rb_first_postorder
    <3>2. PICK p : p = <<>>
      OBVIOUS
    <3>3. p \in Seq(Nodes) /\ Len(p) = 0 /\ 1 .. Len(p) = {} /\ 1 .. Len(p) - 1 = {}
      BY <3>2
    <3>4. InPost(t, InTree(t), {NULL}, p)
      BY <3>1, <3>3 DEF InPost, Chained
    <3> QED BY <3>1, <3>3, <3>4
  <2>2. CASE t.root # NULL
    <3>1. t.root \in Nodes /\ t.up[t.root] = NULL /\ Subtree(t, t.root) = InTree(t)
      BY <2>2, TreeIsSubtree DEF Shape, Trees, LinksAgree
    <3>2. PICK p : Post(t, t.root, p)
      BY <3>1, PostExists
    <3> QED BY <2>2, <3>1, <3>2 DEF Post, rb_first_postorder
  <2> QED BY <2>1, <2>2
<1>2. /\ p \in Seq(Nodes) /\ Len(p) \in Nat /\ Chained(p, PostSteps(t))
      /\ \A i \in 1 .. Len(p) : p[i] \in InTree(t) /\ p[i] \in Nodes
      /\ \A x \in InTree(t) : \E i \in 1 .. Len(p) : p[i] = x
      /\ \A i, j \in 1 .. Len(p) : p[i] = p[j] => i = j
  BY <1>1, LenProperties DEF InPost, InTree
<1>3. \A i \in 1 .. Len(p) : t.up[p[i]] # NULL =>
        \E j \in 1 .. Len(p) : i < j /\ p[j] = t.up[p[i]]
  BY <1>1 DEF InPost
<1>4. \A i \in 1 .. Len(p) : next[p[i]] = IF i < Len(p) THEN p[i + 1] ELSE NULL
  <2> TAKE i \in 1 .. Len(p)
  <2>1. next[p[i]] = rb_next_postorder(t, p[i])
    BY <1>2
  <2>2. CASE i < Len(p)
    <3>1. i \in 1 .. Len(p) - 1
      BY <1>2, <2>2
    <3>2. <<p[i], p[i + 1]>> \in PostSteps(t)
      BY <1>2, <3>1 DEF Chained
    <3> QED BY <2>1, <2>2, <3>2 DEF PostSteps
  <2>3. CASE ~ (i < Len(p))
    <3>1. i = Len(p) /\ Len(p) > 0
      BY <1>2, <2>3
    <3>2. p[i] = t.root /\ t.up[t.root] = NULL
      BY <1>1, <3>1
    <3>3. rb_next_postorder(t, p[i]) = NULL
      BY <3>2 DEF rb_next_postorder
    <3> QED BY <2>1, <2>3, <3>3
  <2> QED BY <2>2, <2>3
<1>5. ASSUME NEW n \in Nodes, \A i \in 1 .. Len(p) : p[i] # n PROVE next[n] = NULL
  <2>1. n \notin InTree(t)
    BY <1>2, <1>5
  <2>2. t.up[n] = NULL
    BY <2>1 DEF InTree
  <2> QED BY <2>2 DEF rb_next_postorder
<1> HIDE DEF next
<1>6. Goes(next, p)
  BY <1>2, <1>4, <1>5 DEF Goes
<1>7. Walk(next, rb_first_postorder(t)) = p
  BY <1>1, <1>6, WalkGoes
<1>8. PostWalk(t) = p
  BY <1>7 DEF next, PostWalk
<1> QED BY <1>2, <1>3, <1>8 DEF ParentsLater
=============================================================================
