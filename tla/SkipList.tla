------------------------------ MODULE SkipList ------------------------------
(***************************************************************************)
(* The skip list of src/Redis_data_struct/Sorted_set_skip.c.  mem has the  *)
(* score and the forward pointers of every node, the header's included;    *)
(* contents is the sequence of the nodes in the order of their scores.     *)
(***************************************************************************)
EXTENDS Integers, Sequences, FiniteSets, SequencesExt

CONSTANTS
  Nodes,
  Scores,      (* integers                                                 *)
  MAX_LEVEL,
  Header,      (* zsl->header                                              *)
  NULL

VARIABLES mem, contents

Levels == 0 .. MAX_LEVEL - 1

(* create_Skiplist; the levels of a node count from 0. *)
Init ==
  /\ mem = [level |-> 1, score |-> [n \in Nodes |-> NULL],
            height |-> [n \in Nodes |-> 0],
            forward |-> [n \in Nodes \cup {Header} |-> [i \in Levels |-> NULL]]]
  /\ contents = <<>>

(* The last node at level i, from x on, whose score is below the score. *)
Advance(x, i, score) ==
  LET last[n \in Nodes \cup {Header}] ==
        LET next == mem.forward[n][i]
        IN IF next # NULL /\ mem.score[next] < score THEN last[next] ELSE n
  IN last[x]

(* update[i] of insert: where the search turned down from level i.         *)
Path(score) ==
  LET path[i \in 0 .. mem.level] ==
        IF i = mem.level THEN Header ELSE Advance(path[i + 1], i, score)
  IN path

(* Above the levels there were, the new node is linked from the header.    *)
Update(path, i) == IF i < mem.level THEN path[i] ELSE Header

(* insert; randomLevel may answer any level. *)
Insert(n, score, level) ==
  LET path == Path(score)
      update(i) == Update(path, i)
  IN
  /\ n \notin Range(contents)
  /\ mem' = [level |-> IF level > mem.level THEN level ELSE mem.level,
             score |-> [mem.score EXCEPT ![n] = score],
             height |-> [mem.height EXCEPT ![n] = level],
             forward |-> [m \in Nodes \cup {Header} |-> [i \in Levels |->
               IF i >= level THEN mem.forward[m][i]
               ELSE IF m = n THEN mem.forward[update(i)][i]
               ELSE IF m = update(i) THEN n ELSE mem.forward[m][i]]]]
  /\ contents' = SelectSeq(contents, LAMBDA m : mem.score[m] < score)
                 \o <<n>> \o SelectSeq(contents, LAMBDA m : mem.score[m] >= score)

(* find: one step at level 0 from where the search ended. *)
Find(score) ==
  LET x == mem.forward[Path(score)[0]][0]
  IN IF x # NULL /\ mem.score[x] = score THEN x ELSE NULL

(* The nodes of a level, as print_Skiplist goes through them. *)
Level(i) ==
  LET walk[k \in 0 .. Cardinality(Nodes)] ==
        IF k = 0 THEN <<>>
        ELSE LET from == IF k = 1 THEN Header ELSE walk[k - 1][k - 1]
                 next == IF from = NULL THEN NULL ELSE mem.forward[from][i]
             IN Append(walk[k - 1], next)
  IN SelectSeq(walk[Cardinality(Nodes)], LAMBDA n : n # NULL)

Next ==
  \E n \in Nodes, score \in Scores, level \in 1 .. MAX_LEVEL :
    Insert(n, score, level)

(* Level i has exactly the nodes that are higher than i, in the order of   *)
(* their scores and of equal scores the newest first, for every outcome of *)
(* the coin; and find answers the newest node of a score, or none.         *)
SkipListRight ==
  /\ \A i \in Levels :
       Level(i) = SelectSeq(contents, LAMBDA n : mem.height[n] > i)
  /\ \A s \in Scores :
       LET at == SelectInSeq(contents, LAMBDA n : mem.score[n] = s)
       IN Find(s) = IF at = 0 THEN NULL ELSE contents[at]
=============================================================================
