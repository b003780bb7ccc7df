------------------------------ MODULE RedisList ------------------------------
(***************************************************************************)
(* The doubly linked list of src/Redis_data_struct/List.c.  mem has the    *)
(* links of every node, head, tail and len; contents is the sequence of    *)
(* the nodes that the callers have added and not deleted.                  *)
(***************************************************************************)
EXTENDS Integers, Sequences, FiniteSets, SequencesExt

CONSTANTS Nodes, NULL

VARIABLES mem, contents

NoLinks == [n \in Nodes |-> NULL]

(* list_create *)
Init ==
  /\ mem = [prev |-> NoLinks, next |-> NoLinks, head |-> NULL, tail |-> NULL,
            len |-> 0, live |-> {}]
  /\ contents = <<>>

(* The one node of a list. *)
Alone(n) ==
  [mem EXCEPT !.head = n, !.tail = n, !.prev[n] = NULL, !.next[n] = NULL,
              !.len = 1, !.live = @ \cup {n}]

list_add_Node_head(n) ==
  /\ n \notin mem.live
  /\ mem' = IF mem.len = 0 THEN Alone(n)
            ELSE [mem EXCEPT !.prev = [@ EXCEPT ![n] = NULL, ![mem.head] = n],
                             !.next[n] = mem.head, !.head = n,
                             !.len = @ + 1, !.live = @ \cup {n}]
  /\ contents' = <<n>> \o contents

list_add_Node_tail(n) ==
  /\ n \notin mem.live
  /\ mem' = IF mem.len = 0 THEN Alone(n)
            ELSE [mem EXCEPT !.next = [@ EXCEPT ![n] = NULL, ![mem.tail] = n],
                             !.prev[n] = mem.tail, !.tail = n,
                             !.len = @ + 1, !.live = @ \cup {n}]
  /\ contents' = Append(contents, n)

(* Only the forward link is led past the node. *)
UnlinkedForward(n) ==
  LET p == mem.prev[n]  q == mem.next[n] IN
  [mem EXCEPT !.next = IF p = NULL THEN @ ELSE [@ EXCEPT ![p] = q],
              !.head = IF p = NULL THEN q ELSE @,
              !.tail = IF q = NULL THEN p ELSE @]

Unlinked(n) ==
  LET p == mem.prev[n]  q == mem.next[n] IN
  [mem EXCEPT !.next = IF p = NULL THEN @ ELSE [@ EXCEPT ![p] = q],
              !.head = IF p = NULL THEN q ELSE @,
              !.prev = IF q = NULL THEN @ ELSE [@ EXCEPT ![q] = p],
              !.tail = IF q = NULL THEN p ELSE @]

list_del_Node(n) ==
  /\ n \in mem.live
  /\ mem' = [Unlinked(n) EXCEPT !.len = @ - 1, !.live = @ \ {n}]
  /\ contents' = SelectSeq(contents, LAMBDA m : m # n)

(* The first k nodes from n on, following one of the links. *)
Following(link, n, k) ==
  LET walk[i \in 0 .. k] ==
        IF i = 0 THEN <<>>
        ELSE LET m == IF i = 1 THEN n ELSE link[walk[i - 1][i - 1]]
             IN Append(walk[i - 1], m)
  IN walk[k]

(* list_free follows next len times; a new list is created afterwards. *)
list_free ==
  /\ mem' = [mem EXCEPT !.live = @ \ Range(Following(mem.next, mem.head, mem.len)),
                        !.head = NULL, !.tail = NULL, !.len = 0]
  /\ contents' = <<>>

Next ==
  \/ \E n \in Nodes :
       list_add_Node_head(n) \/ list_add_Node_tail(n) \/ list_del_Node(n)
  \/ list_free

(* Followed from head by next, and from tail by prev, the nodes are those  *)
(* that were added and not deleted, in order, and len is their number, so  *)
(* that list_free frees each of them and no other.                         *)
ListRight ==
  /\ mem.len = Len(contents)
  /\ Following(mem.next, mem.head, mem.len) = contents
  /\ Following(mem.prev, mem.tail, mem.len) = Reverse(contents)
  /\ mem.live = Range(contents)
=============================================================================
