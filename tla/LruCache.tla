------------------------------- MODULE LruCache -------------------------------
(***************************************************************************)
(* day19-LRU.cpp: an LRU cache made of a doubly linked list between two    *)
(* sentinels and of a table from keys to its nodes.  Memory is modelled    *)
(* node by node, so that a dangling pointer, a half-linked node or a leak  *)
(* is a state; malloc may fail and may give any free address.              *)
(***************************************************************************)
EXTENDS Integers, FiniteSets

CONSTANTS
  Nodes,       \* addresses that malloc can give to a Node
  Capacities,  \* what callers pass to lruCacheCreate
  MaxKey,      \* 10000 in the code
  Values,      \* values put
  NULL

NotFound == -1
Hashed == 0 .. MaxKey
Keys   == -1 .. MaxKey + 1   \* the keys of the table and one beyond either end

\* Node and lruCache
NodeRecords  == [key : Hashed, value : Values \cup {0},
                 prev : Nodes \cup {NULL}, next : Nodes \cup {NULL}]
CacheRecords == [capacity : Nat, size : Nat, head : Nodes, tail : Nodes,
                 hash : [Hashed -> Nodes \cup {NULL}]]

\* A null pointer points at nothing.
ASSUME LruAssumption ==
  /\ IsFiniteSet(Nodes)
  /\ NULL \notin Nodes /\ NULL \notin NodeRecords /\ NULL \notin CacheRecords
  /\ MaxKey \in Nat
  /\ Capacities \subseteq Int

VARIABLES
  node,     \* node[n]: the Node at address n, NULL if n is free
  cache,    \* the lruCache, or NULL
  answer,   \* what the last lruCacheGet returned
  lost      \* history: nodes that an lruCacheCreate allocated and forgot

vars == <<node, cache, answer, lost>>

Allocated == {n \in Nodes : node[n] # NULL}
Unused    == Nodes \ Allocated

\* createNode
NewNode(k, v) == [key |-> k, value |-> v, prev |-> NULL, next |-> NULL]

Init ==
  /\ node = [n \in Nodes |-> NULL]
  /\ cache = NULL
  /\ answer = NotFound
  /\ lost = {}

(***************************************************************************)
(* The list: mem is a memory, h the head of the list in it, n a node.      *)
(***************************************************************************)

\* Mutant of Unlink: only the predecessor is relinked.
UnlinkHalf(mem, n) == [mem EXCEPT ![mem[n].prev].next = mem[n].next]

Unlink(mem, n) ==
  [mem EXCEPT ![mem[n].prev].next = mem[n].next, ![mem[n].next].prev = mem[n].prev]

AddToHead(mem, h, n) ==
  LET first == mem[h].next IN
  [mem EXCEPT ![n].next = first, ![n].prev = h, ![first].prev = n, ![h].next = n]

\* Mutant of MoveToHead: the order of use is not kept.
MoveToHeadNot(mem, h, n) == mem

MoveToHead(mem, h, n) == AddToHead(Unlink(mem, n), h, n)

(***************************************************************************)
(* The calls                                                               *)
(***************************************************************************)

\* A creation that fails for lack of one of the sentinels forgets the other one.
Create(c) ==
  /\ cache = NULL
  /\ \/ \E h, t \in Unused :
          /\ c > 0 /\ h # t
          /\ node' = [node EXCEPT ![h] = [NewNode(0, 0) EXCEPT !.next = t],
                                  ![t] = [NewNode(0, 0) EXCEPT !.prev = h]]
          /\ cache' = [capacity |-> c, size |-> 0, head |-> h, tail |-> t,
                       hash |-> [k \in Hashed |-> NULL]]
          /\ UNCHANGED lost
     \/ \E n \in Unused :
          /\ c > 0
          /\ node' = [node EXCEPT ![n] = NewNode(0, 0)]
          /\ lost' = lost \cup {n}
          /\ UNCHANGED cache
     \/ UNCHANGED <<node, cache, lost>>
  /\ UNCHANGED answer

\* The node the table has for k, NULL if there is none or k is not a key.
Find(k) == IF cache # NULL /\ k \in Hashed THEN cache.hash[k] ELSE NULL

Get(k) ==
  /\ IF Find(k) = NULL
     THEN answer' = NotFound /\ UNCHANGED node
     ELSE /\ answer' = node[Find(k)].value
          /\ node' = MoveToHead(node, cache.head, Find(k))
  /\ UNCHANGED <<cache, lost>>

\* lruCachePut of a key the cache has.
Update(k, v) ==
  /\ Find(k) # NULL
  /\ node' = MoveToHead([node EXCEPT ![Find(k)].value = v], cache.head, Find(k))
  /\ UNCHANGED <<cache, answer, lost>>

\* Mutant of RemoveTail: the node is not freed.
RemoveTailKeeping(mem, c) ==
  LET last == mem[c.tail].prev IN
  [mem |-> Unlink(mem, last),
   cache |-> [c EXCEPT !.hash[mem[last].key] = NULL, !.size = c.size - 1]]

\* The memory and the cache after the node used longest ago has gone.
RemoveTail(mem, c) ==
  LET last == mem[c.tail].prev IN
  [mem |-> [Unlink(mem, last) EXCEPT ![last] = NULL],
   cache |-> [c EXCEPT !.hash[mem[last].key] = NULL, !.size = c.size - 1]]

\* lruCachePut of a new key: the node is added first, which makes the cache one too large
\* for a moment, and then the last one is removed.
Insert(k, v) ==
  /\ cache # NULL /\ k \in Hashed /\ Find(k) = NULL
  /\ \E n \in Unused :
       LET mem   == AddToHead([node EXCEPT ![n] = NewNode(k, v)], cache.head, n)
           added == [cache EXCEPT !.hash[k] = n, !.size = cache.size + 1]
           after == IF added.size > added.capacity THEN RemoveTail(mem, added)
                    ELSE [mem |-> mem, cache |-> added]
       IN node' = after.mem /\ cache' = after.cache
  /\ UNCHANGED <<answer, lost>>

\* The nodes that next leads to from n on.
Following(n) ==
  LET after[i \in 0 .. Cardinality(Nodes)] ==
        IF i = 0 THEN n
        ELSE IF after[i - 1] = NULL THEN NULL ELSE node[after[i - 1]].next
  IN {after[i] : i \in DOMAIN after} \ {NULL}

\* The walk of lruCacheFree includes both sentinels.
Free ==
  /\ cache # NULL
  /\ node' = [n \in Nodes |-> IF n \in Following(cache.head) THEN NULL ELSE node[n]]
  /\ cache' = NULL
  /\ UNCHANGED <<answer, lost>>

Next ==
  \/ \E c \in Capacities : Create(c)
  \/ \E k \in Keys : Get(k) \/ \E v \in Values : Update(k, v) \/ Insert(k, v)
  \/ Free

Spec == Init /\ [][Next]_vars

(***************************************************************************)
(* Properties                                                              *)
(***************************************************************************)

\* The entries: what the list has between its sentinels.
Listed == Following(cache.head) \ {cache.head, cache.tail}

\* After any sequence of calls the list can be walked both ways, the table leads to
\* its nodes and to no other (in particular to no freed one), and size counts them.
ListAndHashAgree ==
  cache # NULL =>
    /\ Following(cache.head) \subseteq Allocated
    /\ cache.tail \in Following(cache.head)
    /\ node[cache.head].prev = NULL /\ node[cache.tail].next = NULL
    /\ \A n \in Following(cache.head) \ {cache.tail} : node[node[n].next].prev = n
    /\ \A k \in Hashed, n \in Nodes : cache.hash[k] = n <=> n \in Listed /\ node[n].key = k
    /\ Cardinality(Listed) = cache.size

\* Nothing leaks but the sentinel of a failed creation: what is allocated is in the
\* list, and after lruCacheFree nothing is.
NothingElseLeaks ==
  Allocated = lost \cup (IF cache = NULL THEN {} ELSE Following(cache.head))

\* The entries in the order of the list.
Entries ==
  LET list[i \in 0 .. Cardinality(Nodes)] ==
        IF i = 0 THEN cache.head ELSE
        IF list[i - 1] \in {cache.tail, NULL} THEN NULL ELSE node[list[i - 1]].next
      n == Cardinality({i \in DOMAIN list : list[i] \in Listed})
  IN [i \in 1 .. n |-> [key |-> node[list[i]].key, value |-> node[list[i]].value]]

Capacity == IF cache = NULL THEN 0 ELSE cache.capacity
Held     == IF cache = NULL THEN <<>> ELSE Entries

Store == INSTANCE LruStore WITH capacity <- Capacity, entries <- Held

\* The pointers implement the store: a key is found iff it was put and is among the
\* last capacity keys used, and the one that goes is the one used longest ago.
ImplementsStore == Store!Spec

=============================================================================
