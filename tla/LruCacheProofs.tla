---------------------------- MODULE LruCacheProofs ----------------------------
(***************************************************************************)
(* The pointers of the LRU cache, for any memory, capacity, keys and       *)
(* values.  The argument: there is a sequence of distinct nodes, from the  *)
(* head to the tail, along which next leads forward and prev back; every   *)
(* call rearranges that sequence as it should (Linked), and the table      *)
(* leads to its positions.                                                 *)
(***************************************************************************)
EXTENDS LruCache, FiniteSetTheorems, WellFoundedInduction, SequenceTheorems, TLAPS

Memories == [Nodes -> NodeRecords \cup {NULL}]

\* l lists m nodes in the order of the list.
Linked(mem, l, m) ==
  /\ m \in Nat /\ m >= 2
  /\ \A i \in 1 .. m : l[i] \in Nodes /\ mem[l[i]] \in NodeRecords
  /\ \A i, j \in 1 .. m : l[i] = l[j] => i = j
  /\ \A i \in 1 .. m : mem[l[i]].next = IF i = m THEN NULL ELSE l[i + 1]
  /\ \A i \in 1 .. m : mem[l[i]].prev = IF i = 1 THEN NULL ELSE l[i - 1]

\* The two memories differ in pointers only.
SameEntries(mem, new) ==
  /\ new \in Memories
  /\ \A x \in Nodes : /\ mem[x] \in NodeRecords <=> new[x] \in NodeRecords
                      /\ mem[x] \in NodeRecords =>
                           new[x].key = mem[x].key /\ new[x].value = mem[x].value

\* Where position i was before position p was taken out.
Old(i, p) == IF i < p THEN i ELSE i + 1

Dropped(l, m, p) == [i \in 1 .. m - 1 |-> l[Old(i, p)]]
Added(l, m, n)   == [i \in 1 .. m + 1 |-> IF i = 1 THEN l[1]
                                          ELSE IF i = 2 THEN n ELSE l[i - 1]]
Moved(l, m, p)   == [i \in 1 .. m |-> IF i = 1 THEN l[1] ELSE IF i = 2 THEN l[p]
                                      ELSE l[Old(i - 1, p)]]

-------------------------------------------------------------------------------
\* A node's neighbours are linked with each other; the others stay as they are.
LEMMA UnlinkList ==
  ASSUME NEW mem \in Memories, NEW l, NEW m, Linked(mem, l, m), NEW p \in 2 .. m - 1
  PROVE  /\ Linked(Unlink(mem, l[p]), Dropped(l, m, p), m - 1)
         /\ SameEntries(mem, Unlink(mem, l[p]))
         /\ Unlink(mem, l[p])[l[p]] = mem[l[p]]
<1>1. PICK a, b, n, new : /\ a = l[p - 1] /\ b = l[p + 1] /\ n = l[p]
                          /\ new = Unlink(mem, n)
  OBVIOUS
<1>2. /\ m \in Nat /\ m >= 2 /\ p \in 1 .. m /\ p - 1 \in 1 .. m /\ p + 1 \in 1 .. m
      /\ p # 1 /\ p # m /\ p \in Nat
  BY DEF Linked
<1>3. /\ a \in Nodes /\ b \in Nodes /\ n \in Nodes /\ a # b /\ n # a /\ n # b
      /\ mem[a] \in NodeRecords /\ mem[b] \in NodeRecords /\ mem[n] \in NodeRecords
      /\ mem[n].next = b /\ mem[n].prev = a
  <2>1. mem[n].next = b /\ mem[n].prev = a
    BY <1>1, <1>2 DEF Linked
  <2>2. p - 1 # p + 1 /\ p # p - 1 /\ p # p + 1
    BY <1>2
  <2> QED BY <1>1, <1>2, <2>1, <2>2 DEF Linked
<1>4. /\ new[a] = [mem[a] EXCEPT !.next = b] /\ new[b] = [mem[b] EXCEPT !.prev = a]
      /\ \A x \in Nodes : x # a /\ x # b => new[x] = mem[x]
      /\ DOMAIN new = Nodes
  BY <1>1, <1>3 DEF Unlink, Memories
<1>5. new[a] \in NodeRecords /\ new[b] \in NodeRecords
  BY <1>3, <1>4 DEF NodeRecords
<1>6. new \in Memories
  <2>1. \A x \in Nodes : new[x] \in NodeRecords \cup {NULL}
    BY <1>4, <1>5 DEF Memories
  <2>2. new = [x \in Nodes |-> new[x]]
    BY <1>1 DEF Unlink, Memories
  <2> QED BY <2>1, <2>2 DEF Memories
<1>7. SameEntries(mem, new)
  <2>1. /\ new[a].key = mem[a].key /\ new[a].value = mem[a].value
        /\ new[b].key = mem[b].key /\ new[b].value = mem[b].value
    BY <1>3, <1>4 DEF NodeRecords
  <2> QED BY <1>3, <1>4, <1>5, <1>6, <2>1 DEF SameEntries
<1>8. ASSUME NEW i \in 1 .. m, i # p
      PROVE  /\ l[i] \in Nodes /\ new[l[i]] \in NodeRecords
             /\ new[l[i]].next = IF i = p - 1 THEN l[p + 1]
                                 ELSE IF i = m THEN NULL ELSE l[i + 1]
             /\ new[l[i]].prev = IF i = p + 1 THEN l[p - 1]
                                 ELSE IF i = 1 THEN NULL ELSE l[i - 1]
  <2>1. /\ l[i] \in Nodes /\ mem[l[i]] \in NodeRecords
        /\ mem[l[i]].next = (IF i = m THEN NULL ELSE l[i + 1])
        /\ mem[l[i]].prev = (IF i = 1 THEN NULL ELSE l[i - 1])
    BY DEF Linked
  <2>2. CASE i = p - 1
    <3>1. i # p + 1 /\ l[i] = a
      BY <1>1, <1>2, <2>2
    <3>2. new[a].next = b /\ new[a].prev = mem[a].prev
      BY <1>3, <1>4 DEF NodeRecords
    <3> QED BY <1>1, <1>5, <2>1, <2>2, <3>1, <3>2
  <2>3. CASE i = p + 1
    <3>1. i # p - 1 /\ l[i] = b
      BY <1>1, <1>2, <2>3
    <3>2. new[b].prev = a /\ new[b].next = mem[b].next
      BY <1>3, <1>4 DEF NodeRecords
    <3> QED BY <1>1, <1>5, <2>1, <2>3, <3>1, <3>2
  <2>4. CASE i # p - 1 /\ i # p + 1
    <3>1. l[i] # a /\ l[i] # b
      BY <1>1, <1>2, <2>4 DEF Linked
    <3> QED BY <1>4, <2>1, <2>4, <3>1
  <2> QED BY <2>2, <2>3, <2>4
<1>9. Linked(new, Dropped(l, m, p), m - 1)
  <2>1. PICK d : d = Dropped(l, m, p)
    OBVIOUS
  <2>2. ASSUME NEW i \in 1 .. m - 1
        PROVE  Old(i, p) \in 1 .. m /\ Old(i, p) # p /\ d[i] = l[Old(i, p)]
    BY <1>2, <2>1 DEF Old, Dropped
  <2>3. \A i \in 1 .. m - 1 : d[i] \in Nodes /\ new[d[i]] \in NodeRecords
    BY <1>8, <2>2
  <2>4. ASSUME NEW i \in 1 .. m - 1, NEW j \in 1 .. m - 1, d[i] = d[j]
        PROVE  i = j
    <3>1. Old(i, p) = Old(j, p)
      BY <2>2, <2>4 DEF Linked
    <3> QED BY <1>2, <3>1 DEF Old
  <2>5. ASSUME NEW i \in 1 .. m - 1
        PROVE  new[d[i]].next = IF i = m - 1 THEN NULL ELSE d[i + 1]
    <3>1. new[d[i]].next = IF Old(i, p) = p - 1 THEN l[p + 1]
                           ELSE IF Old(i, p) = m THEN NULL ELSE l[Old(i, p) + 1]
      BY <1>8, <2>2
    <3>2. CASE i = m - 1
      BY <1>2, <3>1, <3>2 DEF Old
    <3>3. CASE i # m - 1
      <4>1. i + 1 \in 1 .. m - 1 /\ d[i + 1] = l[Old(i + 1, p)]
        BY <1>2, <2>2, <3>3
      <4>2. IF Old(i, p) = p - 1 THEN Old(i + 1, p) = p + 1
            ELSE Old(i, p) # m /\ Old(i + 1, p) = Old(i, p) + 1
        BY <1>2, <3>3 DEF Old
      <4> QED BY <3>1, <3>3, <4>1, <4>2
    <3> QED BY <3>2, <3>3
  <2>6. ASSUME NEW i \in 1 .. m - 1
        PROVE  new[d[i]].prev = IF i = 1 THEN NULL ELSE d[i - 1]
    <3>1. new[d[i]].prev = IF Old(i, p) = p + 1 THEN l[p - 1]
                           ELSE IF Old(i, p) = 1 THEN NULL ELSE l[Old(i, p) - 1]
      BY <1>8, <2>2
    <3>2. CASE i = 1
      BY <1>2, <3>1, <3>2 DEF Old
    <3>3. CASE i # 1
      <4>1. i - 1 \in 1 .. m - 1 /\ d[i - 1] = l[Old(i - 1, p)]
        BY <1>2, <2>2, <3>3
      <4>2. IF Old(i, p) = p + 1 THEN Old(i - 1, p) = p - 1
            ELSE Old(i, p) # 1 /\ Old(i - 1, p) = Old(i, p) - 1
        BY <1>2, <3>3 DEF Old
      <4> QED BY <3>1, <3>3, <4>1, <4>2
    <3> QED BY <3>2, <3>3
  <2>7. m - 1 \in Nat /\ m - 1 >= 2
    BY <1>2
  <2> QED BY <2>1, <2>3, <2>4, <2>5, <2>6, <2>7 DEF Linked
<1>10. new[n] = mem[n]
  BY <1>3, <1>4
<1> QED BY <1>1, <1>7, <1>9, <1>10

\* A node that is in no list becomes the first one after the head.
LEMMA AddList ==
  ASSUME NEW mem \in Memories, NEW l, NEW m, Linked(mem, l, m),
         NEW n \in Nodes, mem[n] \in NodeRecords, \A i \in 1 .. m : l[i] # n
  PROVE  /\ Linked(AddToHead(mem, l[1], n), Added(l, m, n), m + 1)
         /\ SameEntries(mem, AddToHead(mem, l[1], n))
<1>1. PICK h, f, new : h = l[1] /\ f = l[2] /\ new = AddToHead(mem, h, n)
  OBVIOUS
<1>2. m \in Nat /\ m >= 2 /\ 1 \in 1 .. m /\ 2 \in 1 .. m
  BY DEF Linked
<1>3. /\ h \in Nodes /\ f \in Nodes /\ h # f /\ n # h /\ n # f
      /\ mem[h] \in NodeRecords /\ mem[f] \in NodeRecords
      /\ mem[h].next = f /\ mem[h].prev = NULL /\ mem[f].prev = h
  <2>1. mem[h].next = f
    <3>1. 1 # m
      BY <1>2
    <3> QED BY <1>1, <1>2, <3>1 DEF Linked
  <2>2. mem[h].prev = NULL /\ mem[f].prev = h
    BY <1>1, <1>2 DEF Linked
  <2> QED BY <1>1, <1>2, <2>1, <2>2 DEF Linked
<1>4. /\ new[n] = [mem[n] EXCEPT !.next = f, !.prev = h]
      /\ new[f] = [mem[f] EXCEPT !.prev = n] /\ new[h] = [mem[h] EXCEPT !.next = n]
      /\ \A x \in Nodes : x # n /\ x # f /\ x # h => new[x] = mem[x]
      /\ new = [x \in Nodes |-> new[x]]
  BY <1>1, <1>3 DEF AddToHead, Memories
<1>5. /\ new[n] \in NodeRecords /\ new[f] \in NodeRecords /\ new[h] \in NodeRecords
      /\ new[n].next = f /\ new[n].prev = h
      /\ new[f].prev = n /\ new[f].next = mem[f].next
      /\ new[h].next = n /\ new[h].prev = NULL
      /\ \A x \in {n, f, h} : new[x].key = mem[x].key /\ new[x].value = mem[x].value
  <2>1. /\ new[n] \in NodeRecords /\ new[n].next = f /\ new[n].prev = h
        /\ new[n].key = mem[n].key /\ new[n].value = mem[n].value
    BY <1>3, <1>4 DEF NodeRecords
  <2>2. /\ new[f] \in NodeRecords /\ new[f].next = mem[f].next /\ new[f].prev = n
        /\ new[f].key = mem[f].key /\ new[f].value = mem[f].value
    BY <1>3, <1>4 DEF NodeRecords
  <2>3. /\ new[h] \in NodeRecords /\ new[h].next = n /\ new[h].prev = mem[h].prev
        /\ new[h].key = mem[h].key /\ new[h].value = mem[h].value
    BY <1>3, <1>4 DEF NodeRecords
  <2> QED BY <1>3, <2>1, <2>2, <2>3
<1>6. new \in Memories
  <2>1. \A x \in Nodes : new[x] \in NodeRecords \cup {NULL}
    BY <1>4, <1>5 DEF Memories
  <2> QED BY <1>4, <2>1 DEF Memories
<1>7. SameEntries(mem, new)
  BY <1>3, <1>4, <1>5, <1>6 DEF SameEntries
<1>8. Linked(new, Added(l, m, n), m + 1)
  <2>1. PICK d : d = Added(l, m, n)
    OBVIOUS
  <2>2. d[1] = h /\ d[2] = n /\ d[3] = f /\ \A i \in 3 .. m + 1 : d[i] = l[i - 1]
    BY <1>1, <1>2, <2>1 DEF Added
  <2>3. ASSUME NEW i \in 3 .. m + 1
        PROVE  /\ i - 1 \in 1 .. m /\ d[i] \in Nodes /\ d[i] # n /\ d[i] # h
               /\ new[d[i]] \in NodeRecords
               /\ new[d[i]].next = IF i = m + 1 THEN NULL ELSE d[i + 1]
               /\ new[d[i]].prev = d[i - 1]
    <3>1. i - 1 \in 1 .. m /\ d[i] = l[i - 1] /\ i - 1 # 1
      BY <1>2, <2>2
    <3>2. /\ l[i - 1] \in Nodes /\ mem[l[i - 1]] \in NodeRecords
          /\ l[i - 1] # n /\ l[i - 1] # h
          /\ mem[l[i - 1]].next = (IF i - 1 = m THEN NULL ELSE l[i - 1 + 1])
          /\ mem[l[i - 1]].prev = l[i - 1 - 1]
      BY <1>1, <1>2, <3>1 DEF Linked
    <3>3. mem[d[i]].next = IF i = m + 1 THEN NULL ELSE d[i + 1]
      <4>1. CASE i = m + 1
        BY <1>2, <3>1, <3>2, <4>1
      <4>2. CASE i # m + 1
        <5>1. i + 1 \in 3 .. m + 1 /\ i - 1 # m /\ i - 1 + 1 = i /\ i + 1 - 1 = i
          BY <1>2, <4>2
        <5>2. d[i + 1] = l[i]
          BY <2>2, <5>1
        <5> QED BY <3>1, <3>2, <4>2, <5>1, <5>2
      <4> QED BY <4>1, <4>2
    <3>4. CASE i = 3
      <4>1. d[i] = f /\ i - 1 = 2
        BY <2>2, <3>4
      <4> QED BY <1>3, <1>5, <2>2, <3>1, <3>3, <4>1
    <3>5. CASE i # 3
      <4>1. i - 1 \in 3 .. m + 1 /\ i - 1 # 2
        BY <1>2, <3>5
      <4>2. l[i - 1] # f
        BY <1>1, <1>2, <3>1, <4>1 DEF Linked
      <4>3. d[i - 1] = l[i - 1 - 1]
        BY <2>2, <4>1
      <4> QED BY <1>4, <3>1, <3>2, <3>3, <4>2, <4>3
    <3> QED BY <3>4, <3>5
  <2>4. \A i \in 1 .. m + 1 : i = 1 \/ i = 2 \/ i \in 3 .. m + 1
    BY <1>2
  <2>5. \A i \in 1 .. m + 1 : d[i] \in Nodes /\ new[d[i]] \in NodeRecords
    BY <1>3, <1>5, <2>2, <2>3, <2>4
  <2>6. ASSUME NEW i \in 1 .. m + 1, NEW j \in 1 .. m + 1, d[i] = d[j]
        PROVE  i = j
    <3>1. CASE i \in 3 .. m + 1 /\ j \in 3 .. m + 1
      <4>1. i - 1 \in 1 .. m /\ j - 1 \in 1 .. m /\ l[i - 1] = l[j - 1]
        BY <2>2, <2>3, <2>6, <3>1
      <4>2. i - 1 = j - 1
        BY <4>1 DEF Linked
      <4> QED BY <3>1, <4>2
    <3> QED BY <1>3, <2>2, <2>3, <2>4, <2>6, <3>1
  <2>7. ASSUME NEW i \in 1 .. m + 1
        PROVE  new[d[i]].next = IF i = m + 1 THEN NULL ELSE d[i + 1]
    <3>1. CASE i = 1 \/ i = 2
      BY <1>2, <1>5, <2>2, <3>1
    <3> QED BY <2>3, <2>4, <3>1
  <2>8. ASSUME NEW i \in 1 .. m + 1
        PROVE  new[d[i]].prev = IF i = 1 THEN NULL ELSE d[i - 1]
    <3>1. CASE i = 1 \/ i = 2
      BY <1>2, <1>5, <2>2, <3>1
    <3>2. CASE i \in 3 .. m + 1
      BY <2>3, <3>2
    <3> QED BY <2>4, <3>1, <3>2
  <2>9. m + 1 \in Nat /\ m + 1 >= 2
    BY <1>2
  <2> QED BY <2>1, <2>5, <2>6, <2>7, <2>8, <2>9 DEF Linked
<1> QED BY <1>1, <1>7, <1>8

LEMMA SameEntriesTransitive ==
  ASSUME NEW a, NEW b, NEW c, SameEntries(a, b), SameEntries(b, c)
  PROVE  SameEntries(a, c)
BY DEF SameEntries

\* Moving a node to the head is taking it out and adding it again.
LEMMA MoveList ==
  ASSUME NEW mem \in Memories, NEW l, NEW m, Linked(mem, l, m), NEW p \in 2 .. m - 1
  PROVE  /\ Linked(MoveToHead(mem, l[1], l[p]), Moved(l, m, p), m)
         /\ SameEntries(mem, MoveToHead(mem, l[1], l[p]))
<1>1. PICK d, out : d = Dropped(l, m, p) /\ out = Unlink(mem, l[p])
  OBVIOUS
<1>2. m \in Nat /\ m >= 3 /\ p \in 1 .. m /\ l[p] \in Nodes /\ mem[l[p]] \in NodeRecords
  BY DEF Linked
<1>3. /\ Linked(out, d, m - 1) /\ SameEntries(mem, out) /\ out[l[p]] = mem[l[p]]
      /\ out \in Memories
  BY <1>1, UnlinkList DEF SameEntries
<1>4. /\ d[1] = l[1] /\ \A i \in 1 .. m - 1 : d[i] = l[Old(i, p)] /\ d[i] # l[p]
  <2>1. \A i \in 1 .. m - 1 : Old(i, p) \in 1 .. m /\ Old(i, p) # p
    BY <1>2 DEF Old
  <2>2. Old(1, p) = 1 /\ 1 \in 1 .. m - 1
    BY <1>2 DEF Old
  <2>3. \A i \in 1 .. m - 1 : d[i] = l[Old(i, p)]
    BY <1>1 DEF Dropped
  <2> QED BY <1>2, <2>1, <2>2, <2>3 DEF Linked
<1>5. /\ Linked(AddToHead(out, d[1], l[p]), Added(d, m - 1, l[p]), m - 1 + 1)
      /\ SameEntries(out, AddToHead(out, d[1], l[p]))
  BY <1>2, <1>3, <1>4, AddList
<1>6. Added(d, m - 1, l[p]) = Moved(l, m, p) /\ m - 1 + 1 = m
  <2>1. m - 1 + 1 = m
    BY <1>2
  <2>2. ASSUME NEW i \in 1 .. m
        PROVE  (IF i = 1 THEN d[1] ELSE IF i = 2 THEN l[p] ELSE d[i - 1])
             = (IF i = 1 THEN l[1] ELSE IF i = 2 THEN l[p] ELSE l[Old(i - 1, p)])
    BY <1>2, <1>4
  <2> QED BY <2>1, <2>2 DEF Added, Moved
<1> QED BY <1>1, <1>3, <1>4, <1>5, <1>6, SameEntriesTransitive DEF MoveToHead

-------------------------------------------------------------------------------
\* Induction over the natural numbers, for a set of them.
LEMMA SetInduction ==
  ASSUME NEW S, 0 \in S, \A n \in Nat : n \in S => n + 1 \in S
  PROVE  Nat \subseteq S
<1> DEFINE R == {ss \in Nat \X Nat : ss[1] < ss[2]}
<1> SUFFICES ASSUME Nat \ S # {} PROVE FALSE
  OBVIOUS
<1>1. IsWellFoundedOn(R, Nat)
  BY NatLessThanWellFounded, Zenon DEF OpToRel
<1>2. PICK x \in Nat \ S : \A y \in Nat \ S : <<y, x>> \notin R
  <2> HIDE DEF R
  <2>1. Nat \ S \subseteq Nat
    OBVIOUS
  <2> QED BY <1>1, <2>1, WFMin
<1>3. x # 0 /\ x - 1 \in Nat /\ x - 1 < x
  BY <1>2
<1>4. <<x - 1, x>> \in R
  BY <1>3
<1>5. x - 1 \in S
  BY <1>2, <1>3, <1>4
<1> QED BY <1>2, <1>3, <1>5

\* Distinct positions hold as many nodes as there are positions.
LEMMA CountPositions ==
  ASSUME NEW l, NEW S, IsFiniteSet(S), \A i, j \in S : l[i] = l[j] => i = j
  PROVE  /\ IsFiniteSet({l[i] : i \in S})
         /\ Cardinality({l[i] : i \in S}) = Cardinality(S)
<1>1. [i \in S |-> l[i]] \in Bijection(S, {l[i] : i \in S})
  BY Zenon DEF Bijection, Injection, Surjection, IsInjective
<1> QED BY <1>1, FS_Bijection DEF ExistsBijection

\* What the walk along next meets, for as long as a walk may take.
LEMMA FollowingIs ==
  ASSUME IsFiniteSet(Nodes), NULL \notin Nodes, NEW l, NEW m, Linked(node, l, m)
  PROVE  Following(l[1]) = {l[i] : i \in 1 .. m} /\ m <= Cardinality(Nodes)
<1>1. PICK c : c = Cardinality(Nodes)
  OBVIOUS
<1>2. m \in Nat /\ m >= 2 /\ c \in Nat /\ m <= c
  <2>1. m \in Nat /\ m >= 2 /\ c \in Nat
    BY <1>1, FS_CardinalityType DEF Linked
  <2>2. Cardinality({l[i] : i \in 1 .. m}) = m - 1 + 1
    <3>1. PICK S : S = 1 .. m
      OBVIOUS
    <3>2. IsFiniteSet(S) /\ Cardinality(S) = m - 1 + 1
      BY <2>1, <3>1, FS_Interval
    <3>3. \A i, j \in S : l[i] = l[j] => i = j
      BY <3>1 DEF Linked
    <3>4. Cardinality({l[i] : i \in S}) = Cardinality(S)
      BY <3>2, <3>3, CountPositions
    <3> QED BY <3>1, <3>2, <3>4
  <2>3. {l[i] : i \in 1 .. m} \in SUBSET Nodes
    BY DEF Linked
  <2> QED BY <1>1, <2>1, <2>2, <2>3, FS_Subset
<1> DEFINE Rest(f) == [i \in 0 .. c |-> IF i = 0 THEN l[1]
                         ELSE IF f[i - 1] = NULL THEN NULL ELSE node[f[i - 1]].next]
<1>3. PICK w : w = [i \in 0 .. c |-> IF i < m THEN l[i + 1] ELSE NULL]
  OBVIOUS
<1>4. \A i \in 0 .. c : w[i] = IF i < m THEN l[i + 1] ELSE NULL
  BY <1>3
<1>5. \A i \in 1 .. m : l[i] \in Nodes /\ node[l[i]].next = IF i = m THEN NULL ELSE l[i + 1]
  BY DEF Linked
<1>6. ASSUME NEW i \in 0 .. c, i # 0
      PROVE  w[i] = IF w[i - 1] = NULL THEN NULL ELSE node[w[i - 1]].next
  <2>1. i - 1 \in 0 .. c /\ i - 1 + 1 = i
    BY <1>2, <1>6
  <2>2. CASE i < m
    <3>1. w[i - 1] = l[i] /\ i \in 1 .. m /\ i # m /\ w[i] = l[i + 1]
      BY <1>2, <1>4, <1>6, <2>1, <2>2
    <3> QED BY <1>5, <3>1
  <2>3. CASE i = m
    <3>1. w[i - 1] = l[i] /\ i \in 1 .. m /\ w[i] = NULL
      BY <1>2, <1>4, <1>6, <2>1, <2>3
    <3> QED BY <1>5, <2>3, <3>1
  <2>4. CASE i > m
    BY <1>2, <1>4, <1>6, <2>1, <2>4
  <2> QED BY <1>2, <2>2, <2>3, <2>4
<1>7. w = Rest(w)
  <2>1. w[0] = l[1] /\ 0 \in 0 .. c
    BY <1>2, <1>4
  <2>2. \A i \in 0 .. c : w[i] = Rest(w)[i]
    BY <1>6, <2>1
  <2> QED BY <1>3, <2>2
<1>8. ASSUME NEW f, f = Rest(f) PROVE f = w
  <2>1. PICK S : S = {i \in Nat : i \in 0 .. c => f[i] = w[i]}
    OBVIOUS
  <2>2. \A i \in 0 .. c : f[i] = IF i = 0 THEN l[1]
                     ELSE IF f[i - 1] = NULL THEN NULL ELSE node[f[i - 1]].next
    BY <1>8
  <2>3. \A i \in 0 .. c : w[i] = IF i = 0 THEN l[1]
                     ELSE IF w[i - 1] = NULL THEN NULL ELSE node[w[i - 1]].next
    BY <1>7
  <2>4. 0 \in S
    BY <1>2, <2>1, <2>2, <2>3
  <2>5. ASSUME NEW i \in Nat, i \in S, i + 1 \in 0 .. c PROVE f[i + 1] = w[i + 1]
    <3>1. i \in 0 .. c /\ i + 1 # 0 /\ i + 1 - 1 = i
      BY <1>2, <2>5
    <3>2. f[i] = w[i]
      BY <2>1, <2>5, <3>1
    <3> QED BY <2>2, <2>3, <2>5, <3>1, <3>2
  <2>6. ASSUME NEW i \in Nat, i \in S PROVE i + 1 \in S
    <3>1. i + 1 \in Nat
      OBVIOUS
    <3>2. i + 1 \in 0 .. c => f[i + 1] = w[i + 1]
      BY <2>5, <2>6
    <3> QED BY <2>1, <3>1, <3>2
  <2>7. Nat \subseteq S
    BY <2>4, <2>6, SetInduction
  <2>8. \A i \in 0 .. c : f[i] = w[i]
    BY <1>2, <2>1, <2>7
  <2>9. f = [i \in 0 .. c |-> f[i]]
    BY <1>8
  <2> QED BY <1>3, <1>4, <2>8, <2>9
<1>9. (CHOOSE f : f = Rest(f)) = w
  <2> HIDE DEF Rest
  <2> QED BY <1>7, <1>8
<1>10. Following(l[1]) = {w[i] : i \in DOMAIN w} \ {NULL}
  <2>1. (CHOOSE f : f = [i \in 0 .. c |-> IF i = 0 THEN l[1]
                ELSE IF f[i - 1] = NULL THEN NULL ELSE node[f[i - 1]].next]) = w
    BY <1>9
  <2> QED BY <1>1, <2>1 DEF Following
<1>11. {w[i] : i \in DOMAIN w} \ {NULL} = {l[i] : i \in 1 .. m}
  <2>1. DOMAIN w = 0 .. c
    BY <1>3
  <2>2. ASSUME NEW i \in 0 .. c, w[i] # NULL PROVE w[i] \in {l[j] : j \in 1 .. m}
    <3>1. i + 1 \in 1 .. m /\ w[i] = l[i + 1]
      BY <1>2, <1>4, <2>2
    <3> QED BY <3>1
  <2>3. ASSUME NEW j \in 1 .. m
        PROVE  l[j] # NULL /\ \E i \in 0 .. c : w[i] = l[j]
    <3>1. j - 1 \in 0 .. c /\ j - 1 < m /\ j - 1 + 1 = j
      BY <1>2
    <3>2. w[j - 1] = l[j]
      BY <1>4, <3>1
    <3> QED BY <1>5, <3>1, <3>2
  <2> QED BY <2>1, <2>2, <2>3
<1> QED BY <1>1, <1>2, <1>10, <1>11

-------------------------------------------------------------------------------
(***************************************************************************)
(* The inductive invariant: l lists the m nodes of cache c in memory mem,  *)
(* the sentinels first and last, the table leads to those between them,    *)
(* and the nodes that are not in the list are free or lost.                *)
(***************************************************************************)
Good(mem, c, gone, l, m) ==
  /\ mem \in Memories
  /\ Linked(mem, l, m)
  /\ c \in CacheRecords /\ c.head = l[1] /\ c.tail = l[m] /\ c.size = m - 2
  /\ \A k \in Hashed, n \in Nodes :
       c.hash[k] = n <=> \E i \in 2 .. m - 1 : l[i] = n /\ mem[n].key = k
  /\ \A n \in Nodes : mem[n] \in NodeRecords <=> n \in gone \/ \E i \in 1 .. m : l[i] = n
  /\ \A i \in 1 .. m : l[i] \notin gone

LruInv ==
  /\ node \in Memories
  /\ lost \subseteq Nodes
  /\ IF cache = NULL THEN \A n \in Nodes : node[n] \in NodeRecords <=> n \in lost
     ELSE /\ cache.size <= cache.capacity /\ cache.capacity >= 1
          /\ \E l, m : Good(node, cache, lost, l, m)

\* Which positions are between the sentinels does not depend on the order of the others.
LEMMA MovedPositions ==
  ASSUME NEW l, NEW m \in Nat, NEW p \in 2 .. m - 1
  PROVE  /\ \A i \in 2 .. m - 1 : \E j \in 2 .. m - 1 : Moved(l, m, p)[i] = l[j]
         /\ \A j \in 2 .. m - 1 : \E i \in 2 .. m - 1 : Moved(l, m, p)[i] = l[j]
         /\ Moved(l, m, p)[1] = l[1] /\ Moved(l, m, p)[m] = l[m]
<1>1. PICK d : d = Moved(l, m, p)
  OBVIOUS
<1>2. d[1] = l[1] /\ d[2] = l[p] /\ \A i \in 3 .. m : d[i] = l[Old(i - 1, p)]
  BY <1>1 DEF Moved
<1>3. d[m] = l[m]
  BY <1>2 DEF Old
<1>4. ASSUME NEW i \in 2 .. m - 1 PROVE \E j \in 2 .. m - 1 : d[i] = l[j]
  <2>1. CASE i = 2
    BY <1>2, <2>1
  <2>2. CASE i # 2
    <3>1. i \in 3 .. m /\ Old(i - 1, p) \in 2 .. m - 1
      BY <2>2 DEF Old
    <3> QED BY <1>2, <3>1
  <2> QED BY <2>1, <2>2
<1>5. ASSUME NEW j \in 2 .. m - 1 PROVE \E i \in 2 .. m - 1 : d[i] = l[j]
  <2>1. CASE j = p
    BY <1>2, <2>1
  <2>2. CASE j < p
    <3>1. j + 1 \in 3 .. m /\ j + 1 \in 2 .. m - 1 /\ Old(j + 1 - 1, p) = j
      BY <2>2 DEF Old
    <3> QED BY <1>2, <3>1
  <2>3. CASE j > p
    <3>1. j \in 3 .. m /\ Old(j - 1, p) = j
      BY <2>3 DEF Old
    <3> QED BY <1>2, <3>1
  <2> QED BY <2>1, <2>2, <2>3
<1> QED BY <1>1, <1>2, <1>3, <1>4, <1>5

\* A call that finds its key only changes the order.
LEMMA MoveGood ==
  ASSUME NEW mem, NEW c, NEW gone, NEW l, NEW m, Good(mem, c, gone, l, m), NEW p \in 2 .. m - 1
  PROVE  Good(MoveToHead(mem, c.head, l[p]), c, gone, Moved(l, m, p), m)
<1>1. PICK d, new : d = Moved(l, m, p) /\ new = MoveToHead(mem, l[1], l[p])
  OBVIOUS
<1>2. /\ mem \in Memories /\ Linked(mem, l, m) /\ m \in Nat
      /\ c \in CacheRecords /\ c.head = l[1] /\ c.tail = l[m] /\ c.size = m - 2
  BY DEF Good, Linked
<1>3. Linked(new, d, m) /\ SameEntries(mem, new)
  BY <1>1, <1>2, MoveList
<1>4. \A n \in Nodes : /\ new[n] \in NodeRecords <=> mem[n] \in NodeRecords
                       /\ mem[n] \in NodeRecords => new[n].key = mem[n].key
  BY <1>3 DEF SameEntries
<1>5. \A n : /\ (\E i \in 2 .. m - 1 : d[i] = n) <=> (\E i \in 2 .. m - 1 : l[i] = n)
             /\ (\E i \in 1 .. m : d[i] = n) <=> (\E i \in 1 .. m : l[i] = n)
             /\ d[1] = l[1] /\ d[m] = l[m]
  <2>1. /\ \A i \in 2 .. m - 1 : \E j \in 2 .. m - 1 : d[i] = l[j]
        /\ \A j \in 2 .. m - 1 : \E i \in 2 .. m - 1 : d[i] = l[j]
        /\ d[1] = l[1] /\ d[m] = l[m]
    <3>1. m \in Nat
      BY <1>2
    <3>2. /\ \A i \in 2 .. m - 1 : \E j \in 2 .. m - 1 : Moved(l, m, p)[i] = l[j]
          /\ \A j \in 2 .. m - 1 : \E i \in 2 .. m - 1 : Moved(l, m, p)[i] = l[j]
          /\ Moved(l, m, p)[1] = l[1] /\ Moved(l, m, p)[m] = l[m]
      BY <3>1, MovedPositions, Zenon
    <3> QED BY <1>1, <3>2
  <2>2. /\ \A i \in 1 .. m : i = 1 \/ i = m \/ i \in 2 .. m - 1
        /\ \A i \in 2 .. m - 1 : i \in 1 .. m
    BY <1>2
  <2>3. ASSUME NEW i \in 1 .. m PROVE \E j \in 1 .. m : d[i] = l[j]
    BY <2>1, <2>2
  <2>4. ASSUME NEW j \in 1 .. m PROVE \E i \in 1 .. m : d[i] = l[j]
    <3>1. d[j] = l[j] \/ j \in 2 .. m - 1
      BY <2>1, <2>2
    <3> QED BY <2>1, <2>2, <3>1
  <2>5. ASSUME NEW n, NEW i \in 2 .. m - 1, d[i] = n PROVE \E j \in 2 .. m - 1 : l[j] = n
    BY <2>1, <2>5
  <2>6. ASSUME NEW n, NEW i \in 2 .. m - 1, l[i] = n PROVE \E j \in 2 .. m - 1 : d[j] = n
    BY <2>1, <2>6
  <2>7. ASSUME NEW n, NEW i \in 1 .. m, d[i] = n PROVE \E j \in 1 .. m : l[j] = n
    BY <2>3, <2>7
  <2>8. ASSUME NEW n, NEW i \in 1 .. m, l[i] = n PROVE \E j \in 1 .. m : d[j] = n
    BY <2>4, <2>8
  <2> QED BY <2>1, <2>5, <2>6, <2>7, <2>8
<1>6. ASSUME NEW k \in Hashed, NEW n \in Nodes
      PROVE  c.hash[k] = n <=> \E i \in 2 .. m - 1 : d[i] = n /\ new[n].key = k
  <2>1. c.hash[k] = n <=> \E i \in 2 .. m - 1 : l[i] = n /\ mem[n].key = k
    BY DEF Good
  <2>2. \A i \in 2 .. m - 1 : i \in 1 .. m
    BY <1>2
  <2>3. (\E i \in 2 .. m - 1 : l[i] = n) => mem[n] \in NodeRecords
    BY <1>2, <2>2 DEF Linked
  <2> QED BY <1>4, <1>5, <2>1, <2>3
<1>7. \A n \in Nodes : new[n] \in NodeRecords <=> n \in gone \/ \E i \in 1 .. m : d[i] = n
  BY <1>4, <1>5 DEF Good
<1>8. \A i \in 1 .. m : d[i] \notin gone
  BY <1>5 DEF Good
<1>9. new \in Memories
  BY <1>3 DEF SameEntries
<1> QED BY <1>1, <1>2, <1>3, <1>5, <1>6, <1>7, <1>8, <1>9 DEF Good

\* An update changes the value of an entry and nothing else.
LEMMA ValueGood ==
  ASSUME NEW mem, NEW c, NEW gone, NEW l, NEW m, Good(mem, c, gone, l, m), NEW p \in 2 .. m - 1,
         NEW v \in Values
  PROVE  Good([mem EXCEPT ![l[p]].value = v], c, gone, l, m)
<1>1. PICK n, new : n = l[p] /\ new = [mem EXCEPT ![n].value = v]
  OBVIOUS
<1>2. mem \in Memories /\ Linked(mem, l, m) /\ n \in Nodes /\ mem[n] \in NodeRecords
  BY <1>1 DEF Good, Linked
<1>3. /\ new[n] = [mem[n] EXCEPT !.value = v]
      /\ \A x \in Nodes : x # n => new[x] = mem[x]
      /\ new = [x \in Nodes |-> new[x]]
  BY <1>1, <1>2 DEF Memories
<1>4. /\ new[n] \in NodeRecords /\ new[n].key = mem[n].key
      /\ new[n].next = mem[n].next /\ new[n].prev = mem[n].prev
  BY <1>2, <1>3 DEF NodeRecords
<1>5. new \in Memories
  <2>1. \A x \in Nodes : new[x] \in NodeRecords \cup {NULL}
    BY <1>2, <1>3, <1>4 DEF Memories
  <2> QED BY <1>3, <2>1 DEF Memories
<1>6. \A x \in Nodes : /\ new[x] \in NodeRecords <=> mem[x] \in NodeRecords
                       /\ new[x].key = mem[x].key
                       /\ new[x].next = mem[x].next /\ new[x].prev = mem[x].prev
  BY <1>2, <1>3, <1>4
<1>7. Linked(new, l, m)
  BY <1>2, <1>6 DEF Linked
<1> QED BY <1>1, <1>5, <1>6, <1>7 DEF Good

\* A new key: its node is first in the list and the table leads to it.
LEMMA AddGood ==
  ASSUME NEW mem, NEW c, NEW gone, NEW l, NEW m, Good(mem, c, gone, l, m),
         NEW n \in Nodes, mem[n] \notin NodeRecords, NULL \notin Nodes,
         NEW k \in Hashed, NEW v \in Values, c.hash[k] = NULL
  PROVE  Good(AddToHead([mem EXCEPT ![n] = NewNode(k, v)], c.head, n),
              [c EXCEPT !.hash[k] = n, !.size = c.size + 1], gone, Added(l, m, n), m + 1)
<1>1. PICK mid, d, new, added :
        /\ mid = [mem EXCEPT ![n] = NewNode(k, v)] /\ d = Added(l, m, n)
        /\ new = AddToHead(mid, l[1], n)
        /\ added = [c EXCEPT !.hash[k] = n, !.size = c.size + 1]
  OBVIOUS
<1>2. /\ mem \in Memories /\ Linked(mem, l, m) /\ m \in Nat /\ m >= 2
      /\ c \in CacheRecords /\ c.head = l[1] /\ c.tail = l[m] /\ c.size = m - 2
      /\ n \notin gone /\ \A i \in 1 .. m : l[i] # n
  BY DEF Good, Linked
<1>3. /\ mid \in Memories /\ mid[n] \in NodeRecords /\ mid[n].key = k
      /\ \A x \in Nodes : x # n => mid[x] = mem[x]
  <2>1. NewNode(k, v) \in NodeRecords /\ NewNode(k, v).key = k
    BY DEF NewNode, NodeRecords
  <2> QED BY <1>1, <1>2, <2>1 DEF Memories
<1>4. Linked(mid, l, m)
  BY <1>2, <1>3 DEF Linked
<1>5. Linked(new, d, m + 1) /\ SameEntries(mid, new)
  BY <1>1, <1>2, <1>3, <1>4, AddList
<1>6. /\ new \in Memories /\ new[n].key = k /\ new[n] \in NodeRecords
      /\ \A x \in Nodes : x # n => /\ new[x] \in NodeRecords <=> mem[x] \in NodeRecords
                                   /\ mem[x] \in NodeRecords => new[x].key = mem[x].key
  BY <1>3, <1>5 DEF SameEntries
<1>7. d[1] = l[1] /\ d[2] = n /\ d[m + 1] = l[m] /\ \A i \in 3 .. m + 1 : d[i] = l[i - 1]
  <2>1. d[1] = l[1] /\ d[2] = n /\ \A i \in 3 .. m + 1 : d[i] = l[i - 1]
    BY <1>1, <1>2 DEF Added
  <2>2. m + 1 \in 3 .. m + 1 /\ m + 1 - 1 = m
    BY <1>2
  <2>3. d[m + 1] = l[m + 1 - 1]
    BY <1>2, <2>1, <2>2
  <2> QED BY <1>2, <2>1, <2>2, <2>3
<1>8. ASSUME NEW j \in 2 .. m - 1 PROVE \E i \in 3 .. m : d[i] = l[j]
  <2>1. j + 1 \in 3 .. m /\ j + 1 \in 3 .. m + 1 /\ j + 1 - 1 = j
    BY <1>2
  <2> QED BY <1>7, <2>1
<1>9. ASSUME NEW i \in 3 .. m PROVE \E j \in 2 .. m - 1 : d[i] = l[j]
  <2>1. i - 1 \in 2 .. m - 1 /\ i \in 3 .. m + 1
    BY <1>2
  <2> QED BY <1>7, <2>1
<1>10. added \in CacheRecords /\ added.head = d[1] /\ added.tail = d[m + 1] /\ added.size = m + 1 - 2
  <2>1. /\ added.hash \in [Hashed -> Nodes \cup {NULL}]
        /\ added.size = m - 2 + 1 /\ m - 2 + 1 \in Nat
        /\ added.head = c.head /\ added.tail = c.tail
    BY <1>1, <1>2 DEF CacheRecords
  <2>2. added \in CacheRecords
    BY <1>1, <1>2, <2>1 DEF CacheRecords
  <2> QED BY <1>2, <1>7, <2>1, <2>2
<1>11. ASSUME NEW kk \in Hashed, NEW x \in Nodes
       PROVE  added.hash[kk] = x <=> \E i \in 2 .. m + 1 - 1 : d[i] = x /\ new[x].key = kk
  <2>1. added.hash[kk] = IF kk = k THEN n ELSE c.hash[kk]
    BY <1>1, <1>2 DEF CacheRecords
  <2>2. c.hash[kk] = x <=> \E i \in 2 .. m - 1 : l[i] = x /\ mem[x].key = kk
    BY DEF Good
  <2>3. /\ \A i \in 2 .. m + 1 - 1 : i = 2 \/ i \in 3 .. m
        /\ 2 \in 2 .. m + 1 - 1 /\ \A i \in 3 .. m : i \in 2 .. m + 1 - 1
        /\ \A i \in 2 .. m - 1 : i \in 1 .. m
    BY <1>2
  <2>4. CASE x = n
    <3>1. c.hash[kk] # n
      BY <1>2, <2>2, <2>3, <2>4
    <3>2. added.hash[kk] = n <=> kk = k
      BY <2>1, <3>1
    <3>3. (\E i \in 2 .. m + 1 - 1 : d[i] = n /\ new[n].key = kk) <=> kk = k
      BY <1>6, <1>7, <2>3
    <3> QED BY <2>4, <3>2, <3>3
  <2>5. CASE x # n
    <3>1. (\E i \in 2 .. m + 1 - 1 : d[i] = x) <=> (\E i \in 2 .. m - 1 : l[i] = x)
      <4>1. ASSUME NEW i \in 2 .. m + 1 - 1, d[i] = x PROVE \E j \in 2 .. m - 1 : l[j] = x
        <5>1. i \in 3 .. m
          BY <1>7, <2>3, <2>5, <4>1
        <5> QED BY <1>9, <4>1, <5>1
      <4>2. ASSUME NEW j \in 2 .. m - 1, l[j] = x PROVE \E i \in 2 .. m + 1 - 1 : d[i] = x
        BY <1>8, <2>3, <4>2
      <4> QED BY <4>1, <4>2
    <3>2. (\E i \in 2 .. m - 1 : l[i] = x) => new[x].key = mem[x].key
      BY <1>2, <1>6, <2>3, <2>5 DEF Linked
    <3>3. c.hash[kk] = x <=> \E i \in 2 .. m + 1 - 1 : d[i] = x /\ new[x].key = kk
      BY <2>2, <3>1, <3>2
    <3>4. kk = k => c.hash[kk] # x
      OBVIOUS
    <3> QED BY <2>1, <2>5, <3>3, <3>4
  <2> QED BY <2>4, <2>5
<1>12. /\ \A j \in 1 .. m : j = 1 \/ j = m \/ j \in 2 .. m - 1
       /\ \A i \in 1 .. m + 1 : i = 1 \/ i = 2 \/ i = m + 1 \/ i \in 3 .. m
       /\ 1 \in 1 .. m /\ m \in 1 .. m /\ 1 \in 1 .. m + 1 /\ 2 \in 1 .. m + 1
       /\ m + 1 \in 1 .. m + 1
       /\ \A i \in 3 .. m : i \in 1 .. m + 1
       /\ \A i \in 2 .. m - 1 : i \in 1 .. m
  BY <1>2
<1>13. ASSUME NEW i \in 1 .. m + 1 PROVE d[i] = n \/ \E j \in 1 .. m : d[i] = l[j]
  BY <1>7, <1>9, <1>12
<1>14. ASSUME NEW j \in 1 .. m PROVE \E i \in 1 .. m + 1 : d[i] = l[j]
  BY <1>7, <1>8, <1>12
<1>15. ASSUME NEW x \in Nodes
       PROVE  new[x] \in NodeRecords <=> x \in gone \/ \E i \in 1 .. m + 1 : d[i] = x
  <2>1. mem[x] \in NodeRecords <=> x \in gone \/ \E i \in 1 .. m : l[i] = x
    BY DEF Good
  <2>2. CASE x = n
    BY <1>6, <1>7, <1>12, <2>2
  <2>3. CASE x # n
    <3>1. (\E i \in 1 .. m + 1 : d[i] = x) <=> (\E i \in 1 .. m : l[i] = x)
      <4>1. ASSUME NEW i \in 1 .. m + 1, d[i] = x PROVE \E j \in 1 .. m : l[j] = x
        BY <1>13, <2>3, <4>1
      <4>2. ASSUME NEW j \in 1 .. m, l[j] = x PROVE \E i \in 1 .. m + 1 : d[i] = x
        BY <1>14, <4>2
      <4> QED BY <4>1, <4>2
    <3> QED BY <1>6, <2>1, <2>3, <3>1
  <2> QED BY <2>2, <2>3
<1>16. \A i \in 1 .. m + 1 : d[i] \notin gone
  BY <1>2, <1>13 DEF Good
<1>17. Good(new, added, gone, d, m + 1)
  BY <1>2, <1>5, <1>6, <1>10, <1>11, <1>15, <1>16 DEF Good
<1> QED BY <1>1, <1>2, <1>17

\* The node used longest ago is taken out of the list, of the table and of the memory.
LEMMA RemoveGood ==
  ASSUME NEW mem, NEW c, NEW gone, NEW l, NEW m, Good(mem, c, gone, l, m), m >= 3,
         NULL \notin Nodes, NULL \notin NodeRecords
  PROVE  Good(RemoveTail(mem, c).mem, RemoveTail(mem, c).cache, gone, Dropped(l, m, m - 1), m - 1)
<1>1. PICK p, out, d : p = m - 1 /\ d = Dropped(l, m, p) /\ out = Unlink(mem, l[p])
  OBVIOUS
<1>2. /\ mem \in Memories /\ Linked(mem, l, m) /\ m \in Nat /\ p \in 2 .. m - 1 /\ p \in 1 .. m
      /\ c \in CacheRecords /\ c.head = l[1] /\ c.tail = l[m] /\ c.size = m - 2
      /\ l[p] \in Nodes /\ mem[l[p]] \in NodeRecords /\ mem[l[m]].prev = l[p]
  <2>1. m \in Nat /\ m \in 1 .. m /\ p \in 2 .. m - 1 /\ p \in 1 .. m /\ m # 1
    BY <1>1 DEF Good, Linked
  <2>2. mem[l[m]].prev = l[p]
    BY <1>1, <2>1 DEF Good, Linked
  <2> QED BY <2>1, <2>2 DEF Good, Linked
<1>3. Linked(out, d, m - 1) /\ SameEntries(mem, out)
  BY <1>1, <1>2, UnlinkList
<1>4. \A i \in 1 .. p : d[i] = IF i = p THEN l[m] ELSE l[i]
  BY <1>1, <1>2 DEF Dropped, Old
<1>5. PICK new, less, k : /\ new = [out EXCEPT ![l[p]] = NULL] /\ k = mem[l[p]].key
                          /\ less = [c EXCEPT !.hash[k] = NULL, !.size = c.size - 1]
  OBVIOUS
<1>6. k \in Hashed /\ c.hash[k] = l[p]
  <2>1. k \in Hashed
    BY <1>2, <1>5 DEF NodeRecords
  <2> QED BY <1>2, <1>5, <2>1 DEF Good
<1>7. /\ new \in Memories /\ new[l[p]] \notin NodeRecords
      /\ \A x \in Nodes : x # l[p] => /\ new[x] = out[x]
                                      /\ new[x] \in NodeRecords <=> mem[x] \in NodeRecords
                                      /\ mem[x] \in NodeRecords => new[x].key = mem[x].key
  BY <1>2, <1>3, <1>5 DEF Memories, SameEntries
<1>8. \A i \in 1 .. p : d[i] # l[p] /\ d[i] \in Nodes
  <2>1. \A i \in 1 .. p : \E j \in 1 .. m : j # p /\ d[i] = l[j]
    BY <1>1, <1>2, <1>4
  <2> QED BY <1>2, <2>1 DEF Linked
<1>9. Linked(new, d, p)
  BY <1>1, <1>3, <1>7, <1>8 DEF Linked
<1>10. less \in CacheRecords /\ less.head = d[1] /\ less.tail = d[p] /\ less.size = p - 2
  <2>1. /\ less.hash \in [Hashed -> Nodes \cup {NULL}]
        /\ less.size = p - 2 /\ p - 2 \in Nat
        /\ less.head = c.head /\ less.tail = c.tail
    <3>1. less.hash \in [Hashed -> Nodes \cup {NULL}]
      BY <1>2, <1>5 DEF CacheRecords
    <3>2. less.size = c.size - 1 /\ less.head = c.head /\ less.tail = c.tail
      BY <1>2, <1>5 DEF CacheRecords
    <3> QED BY <1>1, <1>2, <3>1, <3>2
  <2>2. less \in CacheRecords
    BY <1>2, <1>5, <2>1 DEF CacheRecords
  <2>3. d[1] = l[1] /\ d[p] = l[m]
    BY <1>1, <1>2, <1>4
  <2> QED BY <1>2, <2>1, <2>2, <2>3
<1>11. ASSUME NEW kk \in Hashed, NEW x \in Nodes
       PROVE  less.hash[kk] = x <=> \E i \in 2 .. p - 1 : d[i] = x /\ new[x].key = kk
  <2>1. less.hash[kk] = IF kk = k THEN NULL ELSE c.hash[kk]
    BY <1>2, <1>5, <1>6 DEF CacheRecords
  <2>2. c.hash[kk] = x <=> \E i \in 2 .. m - 1 : l[i] = x /\ mem[x].key = kk
    BY DEF Good
  <2>3. /\ \A i \in 2 .. m - 1 : i = p \/ i \in 2 .. p - 1
        /\ \A i \in 2 .. p - 1 : i \in 2 .. m - 1 /\ i \in 1 .. p /\ i \in 1 .. m /\ d[i] = l[i]
    BY <1>1, <1>2, <1>4
  <2>4. CASE x = l[p]
    <3>1. less.hash[kk] # x
      BY <1>2, <1>5, <2>1, <2>2, <2>4
    <3>2. \A i \in 2 .. p - 1 : d[i] # x
      BY <1>8, <2>3, <2>4
    <3> QED BY <3>1, <3>2
  <2>5. CASE x # l[p]
    <3>1. (\E i \in 2 .. m - 1 : l[i] = x /\ mem[x].key = kk)
            <=> (\E i \in 2 .. p - 1 : d[i] = x /\ new[x].key = kk)
      <4>1. \A i \in 2 .. p - 1 : d[i] = x => new[x].key = mem[x].key
        BY <1>2, <1>7, <2>3, <2>5 DEF Linked
      <4> QED BY <2>3, <2>5, <4>1
    <3>2. kk = k => c.hash[kk] # x
      BY <1>6, <2>5
    <3> QED BY <2>1, <2>2, <3>1, <3>2
  <2> QED BY <2>4, <2>5
<1>12. ASSUME NEW x \in Nodes
       PROVE  new[x] \in NodeRecords <=> x \in gone \/ \E i \in 1 .. p : d[i] = x
  <2>1. mem[x] \in NodeRecords <=> x \in gone \/ \E i \in 1 .. m : l[i] = x
    BY DEF Good
  <2>2. CASE x = l[p]
    <3>1. x \notin gone
      BY <1>2, <2>2 DEF Good
    <3> QED BY <1>7, <1>8, <2>2, <3>1
  <2>3. CASE x # l[p]
    <3>1. ASSUME NEW i \in 1 .. m, l[i] = x PROVE \E j \in 1 .. p : d[j] = x
      <4>1. CASE i = m
        <5>1. p \in 1 .. p /\ d[p] = l[m]
          BY <1>2, <1>4
        <5> QED BY <3>1, <4>1, <5>1
      <4>2. CASE i # m
        <5>1. i \in 1 .. p /\ i # p
          BY <1>1, <1>2, <2>3, <3>1, <4>2
        <5> QED BY <1>4, <3>1, <5>1
      <4> QED BY <4>1, <4>2
    <3>2. ASSUME NEW i \in 1 .. p, d[i] = x PROVE \E j \in 1 .. m : l[j] = x
      <4>1. i \in 1 .. m /\ m \in 1 .. m
        BY <1>1, <1>2
      <4> QED BY <1>4, <3>2, <4>1
    <3>3. (\E i \in 1 .. m : l[i] = x) <=> (\E i \in 1 .. p : d[i] = x)
      BY <3>1, <3>2
    <3> QED BY <1>7, <2>1, <2>3, <3>3
  <2> QED BY <2>2, <2>3
<1>13. \A i \in 1 .. p : d[i] \notin gone
  <2>1. \A i \in 1 .. p : \E j \in 1 .. m : d[i] = l[j]
    BY <1>1, <1>2, <1>4
  <2> QED BY <2>1 DEF Good
<1>14. Good(new, less, gone, d, p)
  BY <1>7, <1>9, <1>10, <1>11, <1>12, <1>13 DEF Good
<1>15. RemoveTail(mem, c) = [mem |-> new, cache |-> less]
  BY <1>1, <1>2, <1>5 DEF RemoveTail
<1> QED BY <1>1, <1>14, <1>15

\* The table and the list agree on where a key is.
LEMMA FindPosition ==
  ASSUME NEW mem, NEW c, NEW gone, NEW l, NEW m, Good(mem, c, gone, l, m), NEW k \in Hashed
  PROVE  /\ c.hash[k] # NULL => \E p \in 2 .. m - 1 : l[p] = c.hash[k] /\ mem[l[p]].key = k
         /\ NULL \notin Nodes /\ c.hash[k] = NULL => \A p \in 2 .. m - 1 : mem[l[p]].key # k
<1>1. c.hash[k] \in Nodes \cup {NULL}
  BY DEF Good, CacheRecords
<1>2. m \in Nat /\ \A p \in 2 .. m - 1 : l[p] \in Nodes
  <2>1. m \in Nat
    BY DEF Good, Linked
  <2>2. \A p \in 2 .. m - 1 : p \in 1 .. m
    BY <2>1
  <2> QED BY <2>1, <2>2 DEF Good, Linked
<1>3. c.hash[k] # NULL => \E p \in 2 .. m - 1 : l[p] = c.hash[k] /\ mem[l[p]].key = k
  <2>1. c.hash[k] # NULL =>
          \E p \in 2 .. m - 1 : l[p] = c.hash[k] /\ mem[c.hash[k]].key = k
    BY <1>1 DEF Good
  <2> QED BY <2>1
<1>4. ASSUME NULL \notin Nodes, c.hash[k] = NULL, NEW p \in 2 .. m - 1, mem[l[p]].key = k
      PROVE  FALSE
  BY <1>2, <1>4 DEF Good
<1> QED BY <1>3, <1>4

\* The list of a new cache: the two sentinels.
LEMMA CreateGood ==
  ASSUME NEW mem \in Memories, NEW gone, NULL \notin Nodes,
         \A n \in Nodes : mem[n] \in NodeRecords <=> n \in gone,
         NEW h \in Nodes, NEW t \in Nodes, h \notin gone, t \notin gone, h # t, NEW c \in Nat,
         0 \in Hashed,
         NEW new, new = [mem EXCEPT ![h] = [NewNode(0, 0) EXCEPT !.next = t],
                                    ![t] = [NewNode(0, 0) EXCEPT !.prev = h]],
         NEW cc, cc = [capacity |-> c, size |-> 0, head |-> h, tail |-> t,
                       hash |-> [k \in Hashed |-> NULL]]
  PROVE  \E l : Good(new, cc, gone, l, 2)
<1>1. PICK l : l = [i \in 1 .. 2 |-> IF i = 1 THEN h ELSE t]
  OBVIOUS
<1>2. l[1] = h /\ l[2] = t /\ \A i \in 1 .. 2 : i = 1 \/ i = 2
  BY <1>1
<1>3. /\ new[h] = [NewNode(0, 0) EXCEPT !.next = t] /\ new[t] = [NewNode(0, 0) EXCEPT !.prev = h]
      /\ \A x \in Nodes : x # h /\ x # t => new[x] = mem[x]
      /\ new = [x \in Nodes |-> new[x]]
  BY DEF Memories
<1>4. /\ new[h] \in NodeRecords /\ new[h].next = t /\ new[h].prev = NULL
      /\ new[t] \in NodeRecords /\ new[t].next = NULL /\ new[t].prev = h
  BY <1>3 DEF NewNode, NodeRecords
<1>5. new \in Memories
  <2>1. \A x \in Nodes : new[x] \in NodeRecords \cup {NULL}
    BY <1>3, <1>4 DEF Memories
  <2> QED BY <1>3, <2>1 DEF Memories
<1>6. Linked(new, l, 2)
  BY <1>2, <1>4 DEF Linked
<1>7. /\ cc \in CacheRecords /\ cc.head = l[1] /\ cc.tail = l[2] /\ cc.size = 2 - 2
      /\ \A k \in Hashed : cc.hash[k] = NULL
  BY <1>2 DEF CacheRecords
<1>8. \A k \in Hashed, n \in Nodes :
        cc.hash[k] = n <=> \E i \in 2 .. 2 - 1 : l[i] = n /\ new[n].key = k
  BY <1>7
<1>9. \A n \in Nodes : new[n] \in NodeRecords <=> n \in gone \/ \E i \in 1 .. 2 : l[i] = n
  BY <1>2, <1>3, <1>4
<1>10. \A i \in 1 .. 2 : l[i] \notin gone
  BY <1>2
<1>11. Good(new, cc, gone, l, 2)
  BY <1>5, <1>6, <1>7, <1>8, <1>9, <1>10 DEF Good
<1> QED BY <1>11

-------------------------------------------------------------------------------
LEMMA LruInit == Init => LruInv
BY LruAssumption DEF Init, LruInv, Memories

\* A creation that gets its two sentinels.
LEMMA CreateNew ==
  ASSUME LruInv, cache = NULL, NEW c \in Capacities,
         NEW h \in Unused, NEW t \in Unused, c > 0, h # t,
         node' = [node EXCEPT ![h] = [NewNode(0, 0) EXCEPT !.next = t],
                              ![t] = [NewNode(0, 0) EXCEPT !.prev = h]],
         cache' = [capacity |-> c, size |-> 0, head |-> h, tail |-> t,
                   hash |-> [k \in Hashed |-> NULL]],
         lost' = lost
  PROVE  /\ c \in Nat /\ cache' # NULL /\ cache'.capacity = c /\ cache'.size = 0
         /\ \E l : Good(node', cache', lost', l, 2)
<1>1. /\ node \in Memories
      /\ \A n \in Nodes : node[n] \in NodeRecords <=> n \in lost
  BY DEF LruInv
<1>2. /\ NULL \notin Nodes /\ c \in Nat /\ 0 \in Hashed
      /\ h \in Nodes /\ t \in Nodes /\ h \notin lost /\ t \notin lost
  BY <1>1, LruAssumption DEF Unused, Allocated, Hashed
<1>3. PICK l : Good(node', cache', lost, l, 2)
  BY <1>1, <1>2, CreateGood, Zenon
<1>4. cache' # NULL
  BY <1>3, LruAssumption DEF Good
<1> QED BY <1>2, <1>3, <1>4

LEMMA LruCreate ==
  ASSUME LruInv, NEW c \in Capacities, Create(c)
  PROVE  LruInv'
<1>1. cache = NULL /\ node \in Memories /\ lost \subseteq Nodes
      /\ \A n \in Nodes : node[n] \in NodeRecords <=> n \in lost
  BY DEF LruInv, Create
<1>2. ASSUME NEW h \in Unused, NEW t \in Unused, c > 0, h # t,
             node' = [node EXCEPT ![h] = [NewNode(0, 0) EXCEPT !.next = t],
                                  ![t] = [NewNode(0, 0) EXCEPT !.prev = h]],
             cache' = [capacity |-> c, size |-> 0, head |-> h, tail |-> t,
                       hash |-> [k \in Hashed |-> NULL]],
             lost' = lost
      PROVE  LruInv'
  <2>1. /\ c \in Nat /\ cache' # NULL /\ cache'.capacity = c /\ cache'.size = 0
        /\ \E l : Good(node', cache', lost', l, 2)
    BY <1>1, <1>2, CreateNew, Zenon
  <2>2. node' \in Memories
    BY <2>1 DEF Good
  <2>3. \E l, m : Good(node', cache', lost', l, m)
    BY <2>1
  <2>4. 0 <= c /\ c >= 1
    BY <1>2, <2>1
  <2> QED BY <1>1, <1>2, <2>1, <2>2, <2>3, <2>4 DEF LruInv
<1>3. ASSUME NEW n \in Unused, node' = [node EXCEPT ![n] = NewNode(0, 0)],
             lost' = lost \cup {n}, cache' = cache
      PROVE  LruInv'
  <2>1. NewNode(0, 0) \in NodeRecords /\ n \in Nodes
    BY LruAssumption DEF NewNode, NodeRecords, Hashed, Unused
  <2>2. /\ node'[n] \in NodeRecords /\ node' \in Memories
        /\ \A x \in Nodes : x # n => node'[x] = node[x]
    BY <1>1, <1>3, <2>1 DEF Memories
  <2>3. lost' \subseteq Nodes /\ \A x \in Nodes : node'[x] \in NodeRecords <=> x \in lost'
    BY <1>1, <1>3, <2>1, <2>2
  <2> QED BY <1>1, <1>3, <2>2, <2>3 DEF LruInv
<1>4. ASSUME UNCHANGED <<node, cache, lost>> PROVE LruInv'
  BY <1>4 DEF LruInv
<1> QED BY <1>2, <1>3, <1>4 DEF Create

\* A key that is found is at a position of the list.
LEMMA FindInv ==
  ASSUME LruInv, NEW k, Find(k) # NULL
  PROVE  /\ cache # NULL /\ k \in Hashed
         /\ \E l, m : /\ Good(node, cache, lost, l, m)
                      /\ \E p \in 2 .. m - 1 : l[p] = Find(k) /\ node[l[p]].key = k
<1>1. cache # NULL /\ k \in Hashed /\ Find(k) = cache.hash[k]
  BY DEF Find
<1>2. PICK l, m : Good(node, cache, lost, l, m)
  BY <1>1 DEF LruInv
<1>3. \E p \in 2 .. m - 1 : l[p] = Find(k) /\ node[l[p]].key = k
  BY <1>1, <1>2, FindPosition
<1> QED BY <1>1, <1>2, <1>3

LEMMA LruGet ==
  ASSUME LruInv, NEW k, Get(k)
  PROVE  LruInv'
<1>1. cache' = cache /\ lost' = lost
  BY DEF Get
<1>2. CASE Find(k) = NULL
  BY <1>1, <1>2 DEF Get, LruInv
<1>3. CASE Find(k) # NULL
  <2>1. cache # NULL /\ node' = MoveToHead(node, cache.head, Find(k))
    BY <1>3, FindInv DEF Get
  <2>2. PICK l, m, p : Good(node, cache, lost, l, m) /\ p \in 2 .. m - 1 /\ l[p] = Find(k)
    BY <1>3, FindInv
  <2>3. Good(node', cache, lost, Moved(l, m, p), m)
    BY <2>1, <2>2, MoveGood
  <2>4. node' \in Memories
    BY <2>3 DEF Good
  <2>5. \E ll, mm : Good(node', cache', lost', ll, mm)
    BY <1>1, <2>3
  <2> QED BY <1>1, <2>1, <2>4, <2>5 DEF LruInv
<1> QED BY <1>2, <1>3

LEMMA LruUpdate ==
  ASSUME LruInv, NEW k, NEW v \in Values, Update(k, v)
  PROVE  LruInv'
<1>1. /\ cache' = cache /\ lost' = lost /\ Find(k) # NULL
      /\ node' = MoveToHead([node EXCEPT ![Find(k)].value = v], cache.head, Find(k))
  BY DEF Update
<1>2. PICK l, m, p : Good(node, cache, lost, l, m) /\ p \in 2 .. m - 1 /\ l[p] = Find(k)
  BY <1>1, FindInv
<1>3. Good([node EXCEPT ![l[p]].value = v], cache, lost, l, m)
  BY <1>2, ValueGood
<1>4. Good(node', cache, lost, Moved(l, m, p), m)
  BY <1>1, <1>2, <1>3, MoveGood
<1>5. node' \in Memories
  BY <1>4 DEF Good
<1>6. \E ll, mm : Good(node', cache', lost', ll, mm)
  BY <1>1, <1>4
<1>7. cache # NULL
  BY <1>1, FindInv
<1> QED BY <1>1, <1>5, <1>6, <1>7 DEF LruInv

LEMMA LruInsert ==
  ASSUME LruInv, NEW k, NEW v \in Values, Insert(k, v)
  PROVE  LruInv'
<1>1. /\ cache # NULL /\ k \in Hashed /\ cache.hash[k] = NULL /\ lost' = lost
      /\ cache.size <= cache.capacity /\ cache.capacity >= 1 /\ lost \subseteq Nodes
  BY DEF Insert, Find, LruInv
<1>2. PICK n, mem, added :
        /\ n \in Unused
        /\ mem = AddToHead([node EXCEPT ![n] = NewNode(k, v)], cache.head, n)
        /\ added = [cache EXCEPT !.hash[k] = n, !.size = cache.size + 1]
        /\ IF added.size > added.capacity
           THEN node' = RemoveTail(mem, added).mem /\ cache' = RemoveTail(mem, added).cache
           ELSE node' = mem /\ cache' = added
  BY DEF Insert
<1>3. n \in Nodes /\ node[n] \notin NodeRecords /\ NULL \notin Nodes /\ NULL \notin NodeRecords
  BY <1>2, LruAssumption DEF Unused, Allocated
<1>4. PICK l, m : Good(node, cache, lost, l, m)
  BY <1>1 DEF LruInv
<1>5. Good(mem, added, lost, Added(l, m, n), m + 1)
  BY <1>1, <1>2, <1>3, <1>4, AddGood
<1>6. /\ cache \in CacheRecords /\ added \in CacheRecords /\ m \in Nat /\ m >= 2
      /\ cache.size = m - 2 /\ added.size = m - 1 /\ added.capacity = cache.capacity
  <2>1. cache \in CacheRecords /\ added \in CacheRecords /\ m \in Nat /\ m >= 2
        /\ cache.size = m - 2
    BY <1>4, <1>5 DEF Good, Linked
  <2>2. added.size = cache.size + 1 /\ added.capacity = cache.capacity
    BY <1>2, <2>1 DEF CacheRecords
  <2> QED BY <2>1, <2>2
<1>7. CASE added.size > added.capacity
  <2>1. PICK a, b : a = Added(l, m, n) /\ b = m + 1 /\ b >= 3 /\ b \in Nat
    BY <1>1, <1>6, <1>7 DEF CacheRecords
  <2>2. Good(node', cache', lost, Dropped(a, b, b - 1), b - 1)
    BY <1>2, <1>3, <1>5, <1>7, <2>1, RemoveGood
  <2>3. cache' \in CacheRecords /\ cache'.size = m - 2 /\ node' \in Memories
    BY <1>6, <2>1, <2>2 DEF Good
  <2>4. cache'.capacity = cache.capacity
    BY <1>2, <1>6, <1>7 DEF RemoveTail, CacheRecords
  <2>5. cache' # NULL
    BY <2>3, LruAssumption
  <2>6. cache'.size <= cache'.capacity /\ cache'.capacity >= 1
    BY <1>1, <1>6, <2>3, <2>4 DEF CacheRecords
  <2>7. \E ll, mm : Good(node', cache', lost', ll, mm)
    BY <1>1, <2>2
  <2> QED BY <1>1, <2>3, <2>5, <2>6, <2>7 DEF LruInv
<1>8. CASE ~(added.size > added.capacity)
  <2>1. node' = mem /\ cache' = added
    BY <1>2, <1>8
  <2>2. node' \in Memories /\ cache' # NULL
    BY <1>5, <1>6, <2>1, LruAssumption DEF Good
  <2>3. cache'.size <= cache'.capacity /\ cache'.capacity >= 1
    BY <1>1, <1>6, <1>8, <2>1 DEF CacheRecords
  <2>4. \E ll, mm : Good(node', cache', lost', ll, mm)
    BY <1>1, <1>5, <2>1
  <2> QED BY <1>1, <2>2, <2>3, <2>4 DEF LruInv
<1> QED BY <1>7, <1>8

LEMMA LruFree == LruInv /\ Free => LruInv'
<1> SUFFICES ASSUME LruInv, Free PROVE LruInv'
  OBVIOUS
<1>1. /\ cache # NULL /\ cache' = NULL /\ lost' = lost /\ lost \subseteq Nodes /\ node \in Memories
      /\ node' = [n \in Nodes |-> IF n \in Following(cache.head) THEN NULL ELSE node[n]]
  BY DEF Free, LruInv
<1>2. PICK l, m : Good(node, cache, lost, l, m)
  BY <1>1 DEF LruInv
<1>3. Following(cache.head) = {l[i] : i \in 1 .. m}
  <2>1. Linked(node, l, m) /\ cache.head = l[1]
    BY <1>2 DEF Good
  <2> QED BY <2>1, FollowingIs, LruAssumption
<1>4. \A n \in Nodes : node'[n] = IF \E i \in 1 .. m : l[i] = n THEN NULL ELSE node[n]
  BY <1>1, <1>3
<1>5. \A n \in Nodes : node'[n] \in NodeRecords <=> n \in lost
  BY <1>2, <1>4, LruAssumption DEF Good
<1>6. node' \in Memories
  <2>1. \A n \in Nodes : node'[n] \in NodeRecords \cup {NULL}
    BY <1>1, <1>4 DEF Memories
  <2> QED BY <1>1, <2>1 DEF Memories
<1> QED BY <1>1, <1>5, <1>6 DEF LruInv

LEMMA LruInvariant == Spec => []LruInv
<1>1. LruInv /\ [Next]_vars => LruInv'
  <2> SUFFICES ASSUME LruInv, [Next]_vars PROVE LruInv'
    OBVIOUS
  <2>1. CASE UNCHANGED vars
    BY <2>1 DEF LruInv, vars
  <2> QED BY <2>1, LruCreate, LruGet, LruUpdate, LruInsert, LruFree DEF Next
<1> QED BY <1>1, LruInit, PTL DEF Spec

-------------------------------------------------------------------------------
\* lruCacheFree and the walks of the list meet the nodes of the list, the entries
\* between the sentinels.
LEMMA ListedIs ==
  ASSUME NEW l, NEW m, Good(node, cache, lost, l, m)
  PROVE  /\ Following(cache.head) = {l[i] : i \in 1 .. m}
         /\ Listed = {l[i] : i \in 2 .. m - 1}
         /\ Cardinality(Listed) = m - 2
         /\ m <= Cardinality(Nodes)
<1>1. Linked(node, l, m) /\ cache.head = l[1] /\ cache.tail = l[m] /\ m \in Nat /\ m >= 2
  BY DEF Good, Linked
<1>2. Following(cache.head) = {l[i] : i \in 1 .. m} /\ m <= Cardinality(Nodes)
  BY <1>1, FollowingIs, LruAssumption
<1>3. Listed = {l[i] : i \in 2 .. m - 1}
  <2>1. ASSUME NEW i \in 1 .. m PROVE i \in 2 .. m - 1 <=> l[i] # l[1] /\ l[i] # l[m]
    <3>1. 1 \in 1 .. m /\ m \in 1 .. m /\ (i \in 2 .. m - 1 <=> i # 1 /\ i # m)
      BY <1>1
    <3> QED BY <1>1, <3>1 DEF Linked
  <2>2. 2 .. m - 1 \subseteq 1 .. m
    BY <1>1
  <2> QED BY <1>1, <1>2, <2>1, <2>2 DEF Listed
<1>4. Cardinality({l[i] : i \in 2 .. m - 1}) = m - 2
  <2>1. PICK S : S = 2 .. m - 1
    OBVIOUS
  <2>2. IsFiniteSet(S) /\ Cardinality(S) = m - 2
    BY <1>1, <2>1, FS_Interval
  <2>3. \A i, j \in S : l[i] = l[j] => i = j
    BY <1>1, <2>1 DEF Linked
  <2>4. Cardinality({l[i] : i \in S}) = Cardinality(S)
    BY <2>2, <2>3, CountPositions
  <2> QED BY <2>1, <2>2, <2>4
<1> QED BY <1>2, <1>3, <1>4

\* After any sequence of lruCacheCreate, Get, Put and Free, failed allocations included,
\* the list can be walked both ways, the table leads to its entries and to nothing else,
\* and size counts them.
THEOREM ListKeepsWhole == Spec => []ListAndHashAgree
<1>1. LruInv => ListAndHashAgree
  <2> SUFFICES ASSUME LruInv, cache # NULL
               PROVE  /\ Following(cache.head) \subseteq Allocated
                      /\ cache.tail \in Following(cache.head)
                      /\ node[cache.head].prev = NULL /\ node[cache.tail].next = NULL
                      /\ \A n \in Following(cache.head) \ {cache.tail} : node[node[n].next].prev = n
                      /\ \A k \in Hashed, n \in Nodes :
                           cache.hash[k] = n <=> n \in Listed /\ node[n].key = k
                      /\ Cardinality(Listed) = cache.size
    BY DEF ListAndHashAgree
  <2>1. PICK l, m : Good(node, cache, lost, l, m)
    BY DEF LruInv
  <2>2. /\ Linked(node, l, m) /\ cache.head = l[1] /\ cache.tail = l[m] /\ cache.size = m - 2
        /\ m \in Nat /\ m >= 2 /\ 1 \in 1 .. m /\ m \in 1 .. m
    BY <2>1 DEF Good, Linked
  <2>3. /\ Following(cache.head) = {l[i] : i \in 1 .. m} /\ Listed = {l[i] : i \in 2 .. m - 1}
        /\ Cardinality(Listed) = m - 2
    BY <2>1, ListedIs
  <2>4. Following(cache.head) \subseteq Allocated
    BY <2>2, <2>3, LruAssumption DEF Linked, Allocated
  <2>5. node[cache.head].prev = NULL /\ node[cache.tail].next = NULL
    BY <2>2 DEF Linked
  <2>6. ASSUME NEW n \in Following(cache.head) \ {cache.tail} PROVE node[node[n].next].prev = n
    <3>1. PICK i \in 1 .. m : n = l[i] /\ i # m
      BY <2>2, <2>3, <2>6
    <3>2. i + 1 \in 1 .. m /\ i + 1 # 1 /\ i + 1 - 1 = i
      BY <2>2, <3>1
    <3>3. node[n].next = l[i + 1] /\ node[l[i + 1]].prev = l[i]
      BY <2>2, <3>1, <3>2 DEF Linked
    <3> QED BY <3>1, <3>3
  <2>7. ASSUME NEW k \in Hashed, NEW n \in Nodes
        PROVE  cache.hash[k] = n <=> n \in Listed /\ node[n].key = k
    <3>1. cache.hash[k] = n <=> \E i \in 2 .. m - 1 : l[i] = n /\ node[n].key = k
      BY <2>1 DEF Good
    <3> QED BY <2>3, <3>1
  <2> QED BY <2>2, <2>3, <2>4, <2>5, <2>6, <2>7
<1> QED BY <1>1, LruInvariant, PTL

\* Every node is in the list, free, or the sentinel of a creation that failed: neither
\* an eviction, nor an update, nor lruCacheFree loses one.
THEOREM OnlySentinelsLeak == Spec => []NothingElseLeaks
<1>1. LruInv => NothingElseLeaks
  <2> SUFFICES ASSUME LruInv
               PROVE  Allocated = lost \cup (IF cache = NULL THEN {} ELSE Following(cache.head))
    BY DEF NothingElseLeaks
  <2>1. /\ Allocated = {n \in Nodes : node[n] \in NodeRecords}
        /\ lost \subseteq Nodes
    BY LruAssumption DEF LruInv, Memories, Allocated
  <2>2. CASE cache = NULL
    BY <2>1, <2>2 DEF LruInv
  <2>3. CASE cache # NULL
    <3>1. PICK l, m : Good(node, cache, lost, l, m)
      BY <2>3 DEF LruInv
    <3>2. Following(cache.head) = {l[i] : i \in 1 .. m}
      BY <3>1, ListedIs
    <3>3. \A i \in 1 .. m : l[i] \in Nodes
      BY <3>1 DEF Good, Linked
    <3>4. \A n \in Nodes : node[n] \in NodeRecords <=> n \in lost \/ \E i \in 1 .. m : l[i] = n
      BY <3>1 DEF Good
    <3> QED BY <2>1, <2>3, <3>2, <3>3, <3>4
  <2> QED BY <2>2, <2>3
<1> QED BY <1>1, LruInvariant, PTL

-------------------------------------------------------------------------------
(***************************************************************************)
(* The store: its entries are those of the list, position by position.     *)
(***************************************************************************)
EntryRecords == [key : Hashed, value : Values \cup {0}]

Pair(mem, n) == [key |-> mem[n].key, value |-> mem[n].value]

Shown(mem, l, m) == [i \in 1 .. m - 2 |-> Pair(mem, l[i + 1])]

LEMMA EntriesAre ==
  ASSUME NEW l, NEW m, Good(node, cache, lost, l, m)
  PROVE  Entries = Shown(node, l, m)
<1>1. PICK c : c = Cardinality(Nodes)
  OBVIOUS
<1>2. /\ Linked(node, l, m) /\ cache.head = l[1] /\ cache.tail = l[m]
      /\ m \in Nat /\ m >= 2 /\ c \in Nat /\ m <= c
      /\ Listed = {l[i] : i \in 2 .. m - 1} /\ NULL \notin Nodes
  <2>1. Linked(node, l, m) /\ cache.head = l[1] /\ cache.tail = l[m] /\ m \in Nat /\ m >= 2
    BY DEF Good, Linked
  <2>2. m <= c /\ Listed = {l[i] : i \in 2 .. m - 1}
    BY <1>1, ListedIs
  <2>3. c \in Nat /\ NULL \notin Nodes
    BY <1>1, FS_CardinalityType, LruAssumption
  <2> QED BY <2>1, <2>2, <2>3
<1> DEFINE Rest(f) == [i \in 0 .. c |-> IF i = 0 THEN cache.head
                         ELSE IF f[i - 1] \in {cache.tail, NULL} THEN NULL
                         ELSE node[f[i - 1]].next]
<1>3. PICK w : w = [i \in 0 .. c |-> IF i < m THEN l[i + 1] ELSE NULL]
  OBVIOUS
<1>4. \A i \in 0 .. c : w[i] = IF i < m THEN l[i + 1] ELSE NULL
  BY <1>3
<1>5. \A i \in 1 .. m : /\ l[i] \in Nodes /\ l[i] # NULL /\ (l[i] = l[m] => i = m)
                        /\ i # m => node[l[i]].next = l[i + 1]
  <2>1. m \in 1 .. m
    BY <1>2
  <2> QED BY <1>2, <2>1 DEF Linked
<1>6. ASSUME NEW i \in 0 .. c, i # 0
      PROVE  w[i] = IF w[i - 1] \in {cache.tail, NULL} THEN NULL ELSE node[w[i - 1]].next
  <2>1. i - 1 \in 0 .. c /\ i - 1 + 1 = i
    BY <1>2, <1>6
  <2>2. CASE i < m
    <3>1. w[i - 1] = l[i] /\ i \in 1 .. m /\ i # m /\ w[i] = l[i + 1]
      BY <1>2, <1>4, <1>6, <2>1, <2>2
    <3> QED BY <1>2, <1>5, <3>1
  <2>3. CASE i = m
    <3>1. w[i - 1] = l[i] /\ i \in 1 .. m /\ w[i] = NULL
      BY <1>2, <1>4, <1>6, <2>1, <2>3
    <3> QED BY <1>2, <2>3, <3>1
  <2>4. CASE i > m
    BY <1>2, <1>4, <1>6, <2>1, <2>4
  <2> QED BY <1>2, <2>2, <2>3, <2>4
<1>7. w = Rest(w)
  <2>1. w[0] = l[1] /\ 0 \in 0 .. c
    BY <1>2, <1>4
  <2>2. \A i \in 0 .. c : w[i] = Rest(w)[i]
    BY <1>2, <1>6, <2>1
  <2> QED BY <1>3, <2>2
<1>8. ASSUME NEW f, f = Rest(f) PROVE f = w
  <2>1. PICK S : S = {i \in Nat : i \in 0 .. c => f[i] = w[i]}
    OBVIOUS
  <2>2. \A i \in 0 .. c : f[i] = IF i = 0 THEN cache.head
                     ELSE IF f[i - 1] \in {cache.tail, NULL} THEN NULL ELSE node[f[i - 1]].next
    BY <1>8
  <2>3. \A i \in 0 .. c : w[i] = IF i = 0 THEN cache.head
                     ELSE IF w[i - 1] \in {cache.tail, NULL} THEN NULL ELSE node[w[i - 1]].next
    BY <1>7
  <2>4. 0 \in S
    BY <1>2, <2>1, <2>2, <2>3
  <2>5. ASSUME NEW i \in Nat, i \in S, i + 1 \in 0 .. c PROVE f[i + 1] = w[i + 1]
    <3>1. i \in 0 .. c /\ i + 1 # 0 /\ i + 1 - 1 = i
      BY <1>2, <2>5
    <3>2. f[i] = w[i]
      BY <2>1, <2>5, <3>1
    <3> QED BY <2>2, <2>3, <2>5, <3>1, <3>2
  <2>6. ASSUME NEW i \in Nat, i \in S PROVE i + 1 \in S
    <3>1. i + 1 \in Nat
      OBVIOUS
    <3>2. i + 1 \in 0 .. c => f[i + 1] = w[i + 1]
      BY <2>5, <2>6
    <3> QED BY <2>1, <3>1, <3>2
  <2>7. Nat \subseteq S
    BY <2>4, <2>6, SetInduction
  <2>8. \A i \in 0 .. c : f[i] = w[i]
    BY <1>2, <2>1, <2>7
  <2>9. f = [i \in 0 .. c |-> f[i]]
    BY <1>8
  <2> QED BY <1>3, <1>4, <2>8, <2>9
<1>9. (CHOOSE f : f = Rest(f)) = w
  <2> HIDE DEF Rest
  <2> QED BY <1>7, <1>8
<1>10. PICK k : k = Cardinality({i \in DOMAIN w : w[i] \in Listed})
  OBVIOUS
<1>11. Entries = [i \in 1 .. k |-> [key |-> node[w[i]].key, value |-> node[w[i]].value]]
  <2>1. (CHOOSE f : f = [i \in 0 .. c |-> IF i = 0 THEN cache.head
                ELSE IF f[i - 1] \in {cache.tail, NULL} THEN NULL ELSE node[f[i - 1]].next]) = w
    BY <1>9
  <2> QED BY <1>1, <1>10, <2>1 DEF Entries
<1>12. k = m - 2
  <2>1. ASSUME NEW i \in 0 .. c PROVE w[i] \in Listed <=> i \in 1 .. m - 2
    <3>1. CASE i < m
      <4>1. i + 1 \in 1 .. m /\ w[i] = l[i + 1]
        BY <1>2, <1>4, <3>1
      <4>2. \A j \in 2 .. m - 1 : j \in 1 .. m
        BY <1>2
      <4>3. w[i] \in Listed <=> i + 1 \in 2 .. m - 1
        BY <1>2, <4>1, <4>2 DEF Linked
      <4> QED BY <1>2, <4>3
    <3>2. CASE ~(i < m)
      <4>1. w[i] = NULL /\ i \notin 1 .. m - 2
        BY <1>2, <1>4, <3>2
      <4>2. \A j \in 2 .. m - 1 : l[j] # NULL
        BY <1>2, <1>5
      <4> QED BY <1>2, <4>1, <4>2
    <3> QED BY <3>1, <3>2
  <2>2. 1 .. m - 2 \subseteq 0 .. c /\ DOMAIN w = 0 .. c
    BY <1>2, <1>3
  <2>3. {i \in DOMAIN w : w[i] \in Listed} = 1 .. m - 2
    BY <2>1, <2>2
  <2>4. Cardinality(1 .. m - 2) = m - 2
    BY <1>2, FS_Interval
  <2> QED BY <1>10, <2>3, <2>4
<1>13. \A i \in 1 .. m - 2 : w[i] = l[i + 1]
  BY <1>2, <1>4
<1> QED BY <1>11, <1>12, <1>13 DEF Shown, Pair

LEMMA ShownElements ==
  ASSUME NEW mem, NEW l, NEW m, Linked(mem, l, m)
  PROVE  /\ Shown(mem, l, m) \in Seq(EntryRecords)
         /\ Len(Shown(mem, l, m)) = m - 2
         /\ \A i \in 1 .. m - 2 : /\ Shown(mem, l, m)[i] \in EntryRecords
                                  /\ Shown(mem, l, m)[i].key = mem[l[i + 1]].key
                                  /\ Shown(mem, l, m)[i].value = mem[l[i + 1]].value
<1>1. PICK s : s = Shown(mem, l, m)
  OBVIOUS
<1>2. m \in Nat /\ m >= 2 /\ m - 2 \in Nat
  BY DEF Linked
<1>3. ASSUME NEW i \in 1 .. m - 2
      PROVE  /\ s[i] \in EntryRecords
             /\ s[i].key = mem[l[i + 1]].key /\ s[i].value = mem[l[i + 1]].value
  <2>1. i + 1 \in 1 .. m
    BY <1>2
  <2>2. mem[l[i + 1]] \in NodeRecords
    BY <2>1 DEF Linked
  <2>3. s[i] = [key |-> mem[l[i + 1]].key, value |-> mem[l[i + 1]].value]
    BY <1>1 DEF Shown, Pair
  <2> QED BY <2>2, <2>3 DEF NodeRecords, EntryRecords
<1>4. s \in [1 .. m - 2 -> EntryRecords]
  <2>1. s = [i \in 1 .. m - 2 |-> s[i]]
    BY <1>1 DEF Shown
  <2> QED BY <1>3, <2>1
<1>5. s \in Seq(EntryRecords) /\ Len(s) = m - 2
  BY <1>2, <1>4
<1> QED BY <1>1, <1>3, <1>5

\* What is left of a sequence without position i.
LEMMA RemovedElements ==
  ASSUME NEW S, NEW s \in Seq(S), NEW i \in 1 .. Len(s)
  PROVE  /\ Store!RemoveAt(s, i) \in Seq(S)
         /\ Len(Store!RemoveAt(s, i)) = Len(s) - 1
         /\ \A k \in 1 .. Len(s) - 1 : Store!RemoveAt(s, i)[k] = s[Old(k, i)]
<1> DEFINE front == SubSeq(s, 1, i - 1)
           back  == SubSeq(s, i + 1, Len(s))
<1>1. Len(s) \in Nat
  OBVIOUS
<1>2. front \in Seq(S) /\ Len(front) = i - 1 /\ \A k \in 1 .. i - 1 : front[k] = s[k]
  BY <1>1
<1>3. /\ back \in Seq(S) /\ Len(back) = Len(s) - i
      /\ \A k \in 1 .. Len(s) - i : back[k] = s[k + i]
  BY <1>1
<1>4. Store!RemoveAt(s, i) = front \o back
  BY DEF Store!RemoveAt
<1> HIDE DEF front, back
<1>5. /\ front \o back \in Seq(S) /\ Len(front \o back) = Len(s) - 1
      /\ \A k \in 1 .. Len(s) - 1 :
           (front \o back)[k] = IF k < i THEN front[k] ELSE back[k - (i - 1)]
  <2>1. /\ front \o back \in Seq(S) /\ Len(front \o back) = Len(front) + Len(back)
        /\ \A k \in 1 .. Len(front) + Len(back) :
             (front \o back)[k] = IF k <= Len(front) THEN front[k] ELSE back[k - Len(front)]
    BY <1>2, <1>3, ConcatProperties
  <2>2. Len(front) + Len(back) = Len(s) - 1
    BY <1>1, <1>2, <1>3
  <2>3. ASSUME NEW k \in 1 .. Len(s) - 1
        PROVE  k < i <=> k <= Len(front)
    BY <1>1, <1>2
  <2> QED BY <1>2, <2>1, <2>2, <2>3
<1>6. ASSUME NEW k \in 1 .. Len(s) - 1
      PROVE  (front \o back)[k] = s[Old(k, i)]
  <2>1. CASE k < i
    BY <1>1, <1>2, <1>5, <2>1 DEF Old
  <2>2. CASE ~(k < i)
    <3>1. k - (i - 1) \in 1 .. Len(s) - i /\ (k - (i - 1)) + i = k + 1
      BY <1>1, <2>2
    <3>2. (front \o back)[k] = back[k - (i - 1)]
      BY <1>5, <2>2
    <3> QED BY <1>3, <2>2, <3>1, <3>2 DEF Old
  <2> QED BY <2>1, <2>2
<1> QED BY <1>4, <1>5, <1>6

LEMMA ConsElements ==
  ASSUME NEW S, NEW e \in S, NEW s \in Seq(S)
  PROVE  /\ <<e>> \o s \in Seq(S)
         /\ Len(<<e>> \o s) = Len(s) + 1
         /\ \A i \in 1 .. Len(s) + 1 : (<<e>> \o s)[i] = IF i = 1 THEN e ELSE s[i - 1]
<1>1. <<e>> \in Seq(S) /\ Len(<<e>>) = 1 /\ <<e>>[1] = e /\ Len(s) \in Nat
  OBVIOUS
<1>2. /\ <<e>> \o s \in Seq(S) /\ Len(<<e>> \o s) = Len(<<e>>) + Len(s)
      /\ \A i \in 1 .. Len(<<e>>) + Len(s) :
           (<<e>> \o s)[i] = IF i <= Len(<<e>>) THEN <<e>>[i] ELSE s[i - Len(<<e>>)]
  BY <1>1, ConcatProperties
<1>3. Len(<<e>>) + Len(s) = Len(s) + 1
  BY <1>1
<1>4. ASSUME NEW i \in 1 .. Len(s) + 1 PROVE (<<e>> \o s)[i] = IF i = 1 THEN e ELSE s[i - 1]
  <2>1. i <= 1 <=> i = 1
    BY <1>1
  <2> QED BY <1>1, <1>2, <1>3, <2>1
<1> QED BY <1>2, <1>3, <1>4

\* Two lists with the same entries show the same sequence.
LEMMA SameShown ==
  ASSUME NEW s \in Seq(EntryRecords), NEW t \in Seq(EntryRecords), Len(s) = Len(t),
         \A i \in 1 .. Len(s) : s[i].key = t[i].key /\ s[i].value = t[i].value
  PROVE  s = t
<1>1. \A e, f \in EntryRecords : e.key = f.key /\ e.value = f.value => e = f
  BY DEF EntryRecords
<1>2. \A i \in 1 .. Len(s) : s[i] \in EntryRecords /\ t[i] \in EntryRecords
  BY ElementOfSeq
<1>3. \A i \in 1 .. Len(s) : s[i] = t[i]
  BY <1>1, <1>2
<1> QED BY <1>3, SeqEqual

LEMMA MovedShown ==
  ASSUME NEW old, NEW new, NEW l, NEW m, Linked(old, l, m), NEW p \in 2 .. m - 1,
         Linked(new, Moved(l, m, p), m),
         \A i \in 2 .. m - 1 : i # p => new[l[i]].key = old[l[i]].key /\ new[l[i]].value = old[l[i]].value,
         Pair(new, l[p]) \in EntryRecords
  PROVE  Shown(new, Moved(l, m, p), m) = <<Pair(new, l[p])>> \o Store!RemoveAt(Shown(old, l, m), p - 1)
<1>0. PICK e \in EntryRecords : /\ e = Pair(new, l[p])
                                /\ e.key = new[l[p]].key /\ e.value = new[l[p]].value
  BY DEF Pair
<1>1. PICK d, s, t, r : /\ d = Moved(l, m, p) /\ s = Shown(new, d, m) /\ t = Shown(old, l, m)
                        /\ r = Store!RemoveAt(t, p - 1)
  OBVIOUS
<1>2. m \in Nat /\ m >= 2 /\ p \in Nat /\ p - 1 \in 1 .. m - 2
  BY DEF Linked
<1>3. /\ s \in Seq(EntryRecords) /\ Len(s) = m - 2
      /\ \A i \in 1 .. m - 2 : s[i].key = new[d[i + 1]].key /\ s[i].value = new[d[i + 1]].value
  <2>1. Linked(new, d, m)
    BY <1>1
  <2> QED BY <1>1, <2>1, ShownElements
<1>4. /\ t \in Seq(EntryRecords) /\ Len(t) = m - 2
      /\ \A i \in 1 .. m - 2 : t[i].key = old[l[i + 1]].key /\ t[i].value = old[l[i + 1]].value
  BY <1>1, ShownElements
<1>5. /\ r \in Seq(EntryRecords) /\ Len(r) = m - 3
      /\ \A k \in 1 .. m - 3 : r[k] = t[Old(k, p - 1)]
  <2>1. m - 2 - 1 = m - 3 /\ p - 1 \in 1 .. Len(t)
    BY <1>2, <1>4
  <2>2. /\ r \in Seq(EntryRecords) /\ Len(r) = Len(t) - 1
        /\ \A k \in 1 .. Len(t) - 1 : r[k] = t[Old(k, p - 1)]
    BY <1>1, <1>4, <2>1, RemovedElements
  <2> QED BY <1>2, <1>4, <2>1, <2>2
<1>6. /\ <<e>> \o r \in Seq(EntryRecords) /\ Len(<<e>> \o r) = m - 2
      /\ \A i \in 1 .. m - 2 : (<<e>> \o r)[i] = IF i = 1 THEN e ELSE r[i - 1]
  <2>1. m - 3 + 1 = m - 2
    BY <1>2
  <2> QED BY <1>0, <1>5, <2>1, ConsElements
<1>7. ASSUME NEW i \in 1 .. m - 2
      PROVE  s[i].key = (<<e>> \o r)[i].key /\ s[i].value = (<<e>> \o r)[i].value
  <2>1. CASE i = 1
    <3>1. d[i + 1] = l[p]
      BY <1>1, <1>2, <2>1 DEF Moved
    <3> QED BY <1>0, <1>3, <1>6, <2>1, <3>1
  <2>2. CASE i # 1
    <3>1. PICK j : j = Old(i, p)
      OBVIOUS
    <3>2. /\ j \in 2 .. m - 1 /\ j # p /\ j - 1 \in 1 .. m - 2 /\ j - 1 + 1 = j
          /\ i - 1 \in 1 .. m - 3 /\ Old(i - 1, p - 1) = j - 1 /\ Old(i + 1 - 1, p) = j
      BY <1>2, <2>2, <3>1 DEF Old
    <3>3. d[i + 1] = l[j]
      BY <1>1, <1>2, <2>2, <3>2 DEF Moved
    <3>4. r[i - 1] = t[j - 1]
      BY <1>5, <3>2
    <3>5. t[j - 1].key = old[l[j]].key /\ t[j - 1].value = old[l[j]].value
      BY <1>4, <3>2
    <3>6. (<<e>> \o r)[i] = r[i - 1]
      BY <1>6, <2>2
    <3>7. s[i].key = new[l[j]].key /\ s[i].value = new[l[j]].value
      BY <1>3, <3>3
    <3> QED BY <3>2, <3>4, <3>5, <3>6, <3>7
  <2> QED BY <2>1, <2>2
<1>8. s = <<e>> \o r
  BY <1>3, <1>6, <1>7, SameShown
<1> QED BY <1>0, <1>1, <1>8

LEMMA AddedShown ==
  ASSUME NEW old, NEW new, NEW l, NEW m, Linked(old, l, m), NEW n,
         Linked(new, Added(l, m, n), m + 1),
         \A i \in 2 .. m - 1 : new[l[i]].key = old[l[i]].key /\ new[l[i]].value = old[l[i]].value,
         Pair(new, n) \in EntryRecords
  PROVE  Shown(new, Added(l, m, n), m + 1) = <<Pair(new, n)>> \o Shown(old, l, m)
<1>0. PICK e \in EntryRecords : e = Pair(new, n) /\ e.key = new[n].key /\ e.value = new[n].value
  BY DEF Pair
<1>1. PICK d, s, t, b : /\ d = Added(l, m, n) /\ b = m + 1 /\ s = Shown(new, d, b)
                        /\ t = Shown(old, l, m)
  OBVIOUS
<1>2. m \in Nat /\ m >= 2 /\ b \in Nat /\ b - 2 = m - 1
  BY <1>1 DEF Linked
<1>3. /\ s \in Seq(EntryRecords) /\ Len(s) = m - 1
      /\ \A i \in 1 .. m - 1 : s[i].key = new[d[i + 1]].key /\ s[i].value = new[d[i + 1]].value
  <2>1. Linked(new, d, b)
    BY <1>1
  <2>2. /\ s \in Seq(EntryRecords) /\ Len(s) = b - 2
        /\ \A i \in 1 .. b - 2 : s[i].key = new[d[i + 1]].key /\ s[i].value = new[d[i + 1]].value
    BY <1>1, <2>1, ShownElements
  <2> QED BY <1>2, <2>2
<1>4. /\ t \in Seq(EntryRecords) /\ Len(t) = m - 2
      /\ \A i \in 1 .. m - 2 : t[i].key = old[l[i + 1]].key /\ t[i].value = old[l[i + 1]].value
  BY <1>1, ShownElements
<1>5. /\ <<e>> \o t \in Seq(EntryRecords) /\ Len(<<e>> \o t) = m - 1
      /\ \A i \in 1 .. m - 1 : (<<e>> \o t)[i] = IF i = 1 THEN e ELSE t[i - 1]
  <2>1. m - 2 + 1 = m - 1
    BY <1>2
  <2> QED BY <1>0, <1>4, <2>1, ConsElements
<1>6. ASSUME NEW i \in 1 .. m - 1
      PROVE  s[i].key = (<<e>> \o t)[i].key /\ s[i].value = (<<e>> \o t)[i].value
  <2>1. CASE i = 1
    <3>1. d[i + 1] = n
      BY <1>1, <1>2, <2>1 DEF Added
    <3> QED BY <1>0, <1>3, <1>5, <2>1, <3>1
  <2>2. CASE i # 1
    <3>1. i \in 2 .. m - 1 /\ i - 1 \in 1 .. m - 2 /\ i - 1 + 1 = i /\ i + 1 - 1 = i
      BY <1>2, <2>2
    <3>2. d[i + 1] = l[i]
      BY <1>1, <1>2, <2>2 DEF Added
    <3>3. t[i - 1].key = old[l[i]].key /\ t[i - 1].value = old[l[i]].value
      BY <1>4, <3>1
    <3>4. (<<e>> \o t)[i] = t[i - 1]
      BY <1>5, <2>2
    <3>5. s[i].key = new[l[i]].key /\ s[i].value = new[l[i]].value
      BY <1>3, <3>2
    <3> QED BY <3>1, <3>3, <3>4, <3>5
  <2> QED BY <2>1, <2>2
<1>7. s = <<e>> \o t
  BY <1>3, <1>5, <1>6, SameShown
<1> QED BY <1>0, <1>1, <1>7

LEMMA DroppedShown ==
  ASSUME NEW old, NEW new, NEW l, NEW m, Linked(old, l, m), m >= 3,
         Linked(new, Dropped(l, m, m - 1), m - 1),
         \A i \in 2 .. m - 2 : new[l[i]].key = old[l[i]].key /\ new[l[i]].value = old[l[i]].value
  PROVE  Shown(new, Dropped(l, m, m - 1), m - 1) = SubSeq(Shown(old, l, m), 1, m - 3)
<1>1. PICK p, d, s, t, r : /\ p = m - 1 /\ d = Dropped(l, m, p) /\ s = Shown(new, d, p)
                           /\ t = Shown(old, l, m) /\ r = SubSeq(t, 1, m - 3)
  OBVIOUS
<1>2. m \in Nat /\ m >= 2 /\ p \in Nat /\ p - 2 = m - 3 /\ m - 3 \in Nat
  BY <1>1 DEF Linked
<1>3. /\ s \in Seq(EntryRecords) /\ Len(s) = m - 3
      /\ \A i \in 1 .. m - 3 : s[i].key = new[d[i + 1]].key /\ s[i].value = new[d[i + 1]].value
  <2>1. Linked(new, d, p)
    BY <1>1
  <2>2. /\ s \in Seq(EntryRecords) /\ Len(s) = p - 2
        /\ \A i \in 1 .. p - 2 : s[i].key = new[d[i + 1]].key /\ s[i].value = new[d[i + 1]].value
    BY <1>1, <2>1, ShownElements
  <2> QED BY <1>2, <2>2
<1>4. /\ t \in Seq(EntryRecords) /\ Len(t) = m - 2
      /\ \A i \in 1 .. m - 2 : t[i].key = old[l[i + 1]].key /\ t[i].value = old[l[i + 1]].value
  BY <1>1, ShownElements
<1>5. r \in Seq(EntryRecords) /\ Len(r) = m - 3 /\ \A i \in 1 .. m - 3 : r[i] = t[i]
  BY <1>1, <1>2, <1>4
<1>6. ASSUME NEW i \in 1 .. m - 3
      PROVE  s[i].key = r[i].key /\ s[i].value = r[i].value
  <2>1. i \in 1 .. m - 2 /\ i + 1 \in 2 .. m - 2
    BY <1>2
  <2>2. d[i + 1] = l[i + 1]
    BY <1>1, <1>2, <2>1 DEF Dropped, Old
  <2> QED BY <1>3, <1>4, <1>5, <2>1, <2>2
<1>7. s = r
  BY <1>3, <1>5, <1>6, SameShown
<1> QED BY <1>1, <1>7

-------------------------------------------------------------------------------
(***************************************************************************)
(* Every call is a call of the store.                                      *)
(***************************************************************************)
EntriesKnown == \A l, m : Good(node, cache, lost, l, m) => Entries = Shown(node, l, m)

StoreStep == [Store!Next]_(Store!vars)

LEMMA HeldIs ==
  ASSUME EntriesKnown, NEW l, NEW m, Good(node, cache, lost, l, m)
  PROVE  cache # NULL /\ Capacity = cache.capacity /\ Held = Shown(node, l, m)
<1>1. cache # NULL
  BY LruAssumption DEF Good
<1> QED BY <1>1 DEF EntriesKnown, Capacity, Held

LEMMA HeldNext ==
  ASSUME EntriesKnown', NEW l, NEW m, Good(node', cache', lost', l, m)
  PROVE  cache' # NULL /\ Capacity' = cache'.capacity /\ Held' = Shown(node', l, m)
<1>1. cache' # NULL
  BY LruAssumption DEF Good
<1> QED BY <1>1 DEF EntriesKnown, Capacity, Held

LEMMA SameStore ==
  ASSUME LruInv, EntriesKnown, EntriesKnown', UNCHANGED <<node, cache, lost>>
  PROVE  Capacity' = Capacity /\ Held' = Held
<1>1. CASE cache = NULL
  BY <1>1 DEF Capacity, Held
<1>2. CASE cache # NULL
  <2>1. PICK l, m : Good(node, cache, lost, l, m)
    BY <1>2 DEF LruInv
  <2>2. Good(node', cache', lost', l, m)
    BY <2>1
  <2>3. node' = node /\ cache' = cache
    OBVIOUS
  <2> QED BY <2>1, <2>2, <2>3, HeldIs, HeldNext
<1> QED BY <1>1, <1>2

LEMMA StoreCreate ==
  ASSUME LruInv, EntriesKnown, EntriesKnown', NEW c \in Capacities, Create(c)
  PROVE  StoreStep
<1>1. cache = NULL /\ answer' = answer /\ Capacity = 0 /\ Held = <<>>
  BY DEF Create, Capacity, Held
<1>2. CASE cache' = NULL
  BY <1>1, <1>2 DEF StoreStep, Store!vars, Capacity, Held
<1>3. ASSUME NEW h \in Unused, NEW t \in Unused, c > 0, h # t,
             node' = [node EXCEPT ![h] = [NewNode(0, 0) EXCEPT !.next = t],
                                  ![t] = [NewNode(0, 0) EXCEPT !.prev = h]],
             cache' = [capacity |-> c, size |-> 0, head |-> h, tail |-> t,
                       hash |-> [k \in Hashed |-> NULL]],
             lost' = lost
      PROVE  StoreStep
  <2>1. /\ c \in Nat /\ cache' # NULL /\ cache'.capacity = c
        /\ \E l : Good(node', cache', lost', l, 2)
    BY <1>1, <1>3, CreateNew, Zenon
  <2>2. PICK l : Good(node', cache', lost', l, 2)
    BY <2>1
  <2>3. Capacity' = c /\ Held' = Shown(node', l, 2)
    BY <2>1, <2>2, HeldNext
  <2>4. Held' \in Seq(EntryRecords) /\ Len(Held') = 2 - 2
    <3>1. Linked(node', l, 2)
      BY <2>2 DEF Good
    <3> QED BY <2>3, <3>1, ShownElements
  <2>5. Held' = <<>>
    BY <2>4
  <2>6. Store!Create(c)
    BY <1>1, <2>1, <2>3, <2>5 DEF Store!Create
  <2> QED BY <2>6 DEF StoreStep, Store!Next
<1> QED BY <1>1, <1>2, <1>3 DEF Create

\* A key the table does not have is not among the entries.
LEMMA NotHeld ==
  ASSUME LruInv, EntriesKnown, NEW k, Find(k) = NULL
  PROVE  ~Store!Holds(k)
<1>1. CASE cache = NULL
  BY <1>1 DEF Held, Store!Holds
<1>2. CASE cache # NULL
  <2>1. PICK l, m : Good(node, cache, lost, l, m)
    BY <1>2 DEF LruInv
  <2>2. Linked(node, l, m) /\ m \in Nat
    BY <2>1 DEF Good, Linked
  <2>3. /\ Held \in Seq(EntryRecords) /\ Len(Held) = m - 2
        /\ \A i \in 1 .. m - 2 : Held[i] \in EntryRecords /\ Held[i].key = node[l[i + 1]].key
    <3>1. Held = Shown(node, l, m)
      BY <2>1, HeldIs
    <3> QED BY <2>2, <3>1, ShownElements
  <2>4. ASSUME NEW i \in 1 .. m - 2 PROVE Held[i].key # k
    <3>1. i + 1 \in 2 .. m - 1
      BY <2>2
    <3>2. CASE k \in Hashed
      <4>1. cache.hash[k] = NULL
        BY <1>2, <3>2 DEF Find
      <4>2. \A p \in 2 .. m - 1 : node[l[p]].key # k
        BY <2>1, <3>2, <4>1, FindPosition, LruAssumption
      <4> QED BY <2>3, <3>1, <4>2
    <3>3. CASE k \notin Hashed
      BY <2>3, <3>3 DEF EntryRecords
    <3> QED BY <3>2, <3>3
  <2>5. DOMAIN Held = 1 .. m - 2
    BY <2>2, <2>3
  <2> QED BY <2>4, <2>5 DEF Store!Holds
<1> QED BY <1>1, <1>2

LEMMA StoreGet ==
  ASSUME LruInv, EntriesKnown, EntriesKnown', NEW k \in Keys, Get(k)
  PROVE  StoreStep
<1>1. cache' = cache /\ lost' = lost /\ k \in Store!Keys
  BY DEF Get, Keys, Store!Keys
<1>2. CASE Find(k) = NULL
  <2>1. answer' = NotFound /\ UNCHANGED <<node, cache, lost>>
    BY <1>1, <1>2 DEF Get
  <2>2. Store!Get(k)
    BY <1>2, <2>1, SameStore, NotHeld DEF Store!Get, Store!NotFound, NotFound
  <2> QED BY <1>1, <2>2 DEF StoreStep, Store!Next
<1>3. CASE Find(k) # NULL
  <2>1. /\ node' = MoveToHead(node, cache.head, Find(k)) /\ answer' = node[Find(k)].value
    BY <1>3 DEF Get
  <2>2. PICK l, m, p : /\ Good(node, cache, lost, l, m) /\ p \in 2 .. m - 1
                       /\ l[p] = Find(k) /\ node[l[p]].key = k
    BY <1>3, FindInv
  <2>3. Good(node', cache', lost', Moved(l, m, p), m)
    BY <1>1, <2>1, <2>2, MoveGood
  <2>4. /\ node \in Memories /\ Linked(node, l, m) /\ Linked(node', Moved(l, m, p), m)
        /\ m \in Nat /\ cache.head = l[1] /\ \A i \in 1 .. m : l[i] \in Nodes /\ node[l[i]] \in NodeRecords
    BY <2>2, <2>3 DEF Good, Linked
  <2>5. SameEntries(node, node')
    BY <2>1, <2>2, <2>4, MoveList
  <2>6. \A i \in 2 .. m - 1 : node'[l[i]].key = node[l[i]].key /\ node'[l[i]].value = node[l[i]].value
    <3>1. \A i \in 2 .. m - 1 : i \in 1 .. m
      BY <2>4
    <3> QED BY <2>4, <2>5, <3>1 DEF SameEntries
  <2>7. PICK e : e = Held[p - 1]
    OBVIOUS
  <2>8. /\ Held = Shown(node, l, m) /\ Capacity = cache.capacity
        /\ Held' = Shown(node', Moved(l, m, p), m) /\ Capacity' = cache'.capacity
    BY <2>2, <2>3, HeldIs, HeldNext
  <2>9. /\ p - 1 \in DOMAIN Held /\ e \in EntryRecords
        /\ e.key = node[l[p]].key /\ e.value = node[l[p]].value
    <3>1. p - 1 \in 1 .. m - 2 /\ p - 1 + 1 = p
      BY <2>2, <2>4
    <3>2. Held \in Seq(EntryRecords) /\ Len(Held) = m - 2
      BY <2>4, <2>8, ShownElements
    <3>3. /\ Held[p - 1] \in EntryRecords /\ Held[p - 1].key = node[l[p - 1 + 1]].key
          /\ Held[p - 1].value = node[l[p - 1 + 1]].value
      BY <2>4, <2>8, <3>1, ShownElements
    <3> QED BY <2>7, <3>1, <3>2, <3>3
  <2>10. Held' = <<e>> \o Store!RemoveAt(Held, p - 1)
    <3>1. /\ p \in 2 .. m - 1 /\ e.key = node'[l[p]].key /\ e.value = node'[l[p]].value
          /\ \A i \in 2 .. m - 1 :
               i # p => node'[l[i]].key = node[l[i]].key /\ node'[l[i]].value = node[l[i]].value
      BY <2>2, <2>6, <2>9
    <3>2. e = Pair(node', l[p])
      BY <2>9, <3>1 DEF EntryRecords, Pair
    <3>3. Shown(node', Moved(l, m, p), m) = <<Pair(node', l[p])>> \o Store!RemoveAt(Shown(node, l, m), p - 1)
      <4>1. Linked(node, l, m) /\ Linked(node', Moved(l, m, p), m) /\ Pair(node', l[p]) \in EntryRecords
        BY <2>4, <2>9, <3>2
      <4> QED BY <3>1, <4>1, MovedShown
    <3> QED BY <2>8, <3>2, <3>3
  <2>11. Store!Get(k)
    BY <1>1, <2>1, <2>2, <2>7, <2>8, <2>9, <2>10 DEF Store!Get
  <2> QED BY <1>1, <2>11 DEF StoreStep, Store!Next
<1> QED BY <1>2, <1>3

LEMMA StoreUpdate ==
  ASSUME LruInv, EntriesKnown, EntriesKnown', NEW k \in Keys, NEW v \in Values, Update(k, v)
  PROVE  StoreStep
<1>1. /\ cache' = cache /\ lost' = lost /\ answer' = answer /\ Find(k) # NULL
      /\ node' = MoveToHead([node EXCEPT ![Find(k)].value = v], cache.head, Find(k))
      /\ k \in Store!Keys
  BY DEF Update, Keys, Store!Keys
<1>2. PICK l, m, p : /\ Good(node, cache, lost, l, m) /\ p \in 2 .. m - 1
                     /\ l[p] = Find(k) /\ node[l[p]].key = k /\ k \in Hashed
  BY <1>1, FindInv
<1>3. PICK mid : mid = [node EXCEPT ![l[p]].value = v]
  OBVIOUS
<1>4. Good(mid, cache, lost, l, m)
  BY <1>2, <1>3, ValueGood
<1>5. Good(node', cache', lost', Moved(l, m, p), m)
  BY <1>1, <1>2, <1>3, <1>4, MoveGood
<1>6. /\ node \in Memories /\ mid \in Memories
      /\ Linked(node, l, m) /\ Linked(mid, l, m) /\ Linked(node', Moved(l, m, p), m)
      /\ m \in Nat /\ cache.head = l[1]
      /\ \A i \in 1 .. m : l[i] \in Nodes /\ node[l[i]] \in NodeRecords /\ mid[l[i]] \in NodeRecords
      /\ \A i, j \in 1 .. m : l[i] = l[j] => i = j
  BY <1>2, <1>4, <1>5 DEF Good, Linked
<1>7. SameEntries(mid, node')
  BY <1>1, <1>2, <1>3, <1>6, MoveList
<1>8. /\ \A i \in 2 .. m - 1 : i \in 1 .. m
      /\ p \in 1 .. m
  BY <1>2, <1>6
<1>9. /\ mid[l[p]].key = k /\ mid[l[p]].value = v
      /\ \A i \in 2 .. m - 1 : i # p => mid[l[i]] = node[l[i]]
  <2>1. mid[l[p]] = [node[l[p]] EXCEPT !.value = v]
    BY <1>3, <1>6, <1>8 DEF Memories
  <2>2. mid[l[p]].key = k /\ mid[l[p]].value = v
    BY <1>2, <1>6, <1>8, <2>1 DEF NodeRecords
  <2>3. \A i \in 2 .. m - 1 : i # p => l[i] # l[p]
    BY <1>2, <1>6, <1>8
  <2> QED BY <1>3, <1>6, <1>8, <2>2, <2>3 DEF Memories
<1>10. \A i \in 2 .. m - 1 :
         i # p => node'[l[i]].key = node[l[i]].key /\ node'[l[i]].value = node[l[i]].value
  BY <1>6, <1>7, <1>8, <1>9 DEF SameEntries
<1>11. PICK e : e = [key |-> k, value |-> v]
  OBVIOUS
<1>12. e \in EntryRecords /\ e.key = node'[l[p]].key /\ e.value = node'[l[p]].value
  <2>1. node'[l[p]].key = k /\ node'[l[p]].value = v
    BY <1>2, <1>6, <1>7, <1>8, <1>9 DEF SameEntries
  <2> QED BY <1>2, <1>11, <2>1 DEF EntryRecords
<1>13. /\ Held = Shown(node, l, m) /\ Capacity = cache.capacity
       /\ Held' = Shown(node', Moved(l, m, p), m) /\ Capacity' = cache'.capacity
  BY <1>2, <1>5, HeldIs, HeldNext
<1>14. Held' = <<e>> \o Store!RemoveAt(Held, p - 1)
  <2>1. e = Pair(node', l[p])
    BY <1>12 DEF EntryRecords, Pair
  <2>2. Shown(node', Moved(l, m, p), m) = <<Pair(node', l[p])>> \o Store!RemoveAt(Shown(node, l, m), p - 1)
    BY <1>2, <1>6, <1>10, <1>12, <2>1, MovedShown
  <2> QED BY <1>13, <2>1, <2>2
<1>15. p - 1 \in DOMAIN Held /\ Held[p - 1].key = k
  <2>1. p - 1 \in 1 .. m - 2 /\ p - 1 + 1 = p
    BY <1>2, <1>6
  <2>2. Held \in Seq(EntryRecords) /\ Len(Held) = m - 2
    BY <1>6, <1>13, ShownElements
  <2>3. Held[p - 1].key = node[l[p - 1 + 1]].key
    BY <1>6, <1>13, <2>1, ShownElements
  <2> QED BY <1>2, <2>1, <2>2, <2>3
<1>16. Capacity > 0
  <2>1. cache # NULL /\ cache \in CacheRecords
    BY <1>1, <1>2, FindInv DEF Good
  <2> QED BY <1>13, <2>1 DEF LruInv, CacheRecords
<1>17. Store!Put(k, v)
  <2>1. Store!Valid(k) /\ Capacity' = Capacity
    BY <1>1, <1>2, <1>13 DEF Store!Valid, Hashed
  <2>2. \E i \in DOMAIN Held :
          Held[i].key = k /\ Held' = <<[key |-> k, value |-> v]>> \o Store!RemoveAt(Held, i)
    BY <1>11, <1>14, <1>15
  <2> QED BY <1>1, <1>16, <2>1, <2>2 DEF Store!Put
<1> QED BY <1>1, <1>17 DEF StoreStep, Store!Next

LEMMA StoreInsert ==
  ASSUME LruInv, LruInv', EntriesKnown, EntriesKnown', NEW k \in Keys, NEW v \in Values, Insert(k, v)
  PROVE  StoreStep
<1>1. /\ cache # NULL /\ k \in Hashed /\ cache.hash[k] = NULL /\ lost' = lost /\ answer' = answer
      /\ cache.size <= cache.capacity /\ cache.capacity >= 1 /\ k \in Store!Keys
      /\ Find(k) = NULL
  BY DEF Insert, Find, LruInv, Keys, Store!Keys
<1>2. PICK n, mem, added :
        /\ n \in Unused
        /\ mem = AddToHead([node EXCEPT ![n] = NewNode(k, v)], cache.head, n)
        /\ added = [cache EXCEPT !.hash[k] = n, !.size = cache.size + 1]
        /\ IF added.size > added.capacity
           THEN node' = RemoveTail(mem, added).mem /\ cache' = RemoveTail(mem, added).cache
           ELSE node' = mem /\ cache' = added
  BY DEF Insert
<1>3. n \in Nodes /\ node[n] \notin NodeRecords /\ NULL \notin Nodes /\ NULL \notin NodeRecords
  BY <1>2, LruAssumption DEF Unused, Allocated
<1>4. PICK l, m : Good(node, cache, lost, l, m)
  BY <1>1 DEF LruInv
<1>5. PICK mid : mid = [node EXCEPT ![n] = NewNode(k, v)]
  OBVIOUS
<1>6. PICK a, b : a = Added(l, m, n) /\ b = m + 1
  OBVIOUS
<1>7. Good(mem, added, lost, a, b)
  BY <1>1, <1>2, <1>3, <1>4, <1>6, AddGood
<1>8. /\ node \in Memories /\ Linked(node, l, m) /\ Linked(mem, a, b) /\ cache.head = l[1]
      /\ m \in Nat /\ m >= 2 /\ b \in Nat
      /\ cache \in CacheRecords /\ added \in CacheRecords /\ cache.size = m - 2
      /\ \A i \in 1 .. m : l[i] \in Nodes /\ node[l[i]] \in NodeRecords /\ l[i] # n
  BY <1>3, <1>4, <1>6, <1>7 DEF Good, Linked
<1>9. /\ added.size = m - 1 /\ added.capacity = cache.capacity
  <2>1. added.size = cache.size + 1 /\ added.capacity = cache.capacity
    BY <1>2, <1>8 DEF CacheRecords
  <2> QED BY <1>8, <2>1
<1>10. /\ mid \in Memories /\ mid[n] \in NodeRecords /\ mid[n].key = k /\ mid[n].value = v
       /\ \A x \in Nodes : x # n => mid[x] = node[x]
  <2>1. NewNode(k, v) \in NodeRecords /\ NewNode(k, v).key = k /\ NewNode(k, v).value = v
    BY <1>1 DEF NewNode, NodeRecords
  <2> QED BY <1>3, <1>5, <1>8, <2>1 DEF Memories
<1>11. Linked(mid, l, m)
  BY <1>8, <1>10 DEF Linked
<1>12. SameEntries(mid, mem)
  <2>1. \A i \in 1 .. m : l[i] # n
    BY <1>8
  <2>2. SameEntries(mid, AddToHead(mid, l[1], n))
    BY <1>3, <1>10, <1>11, <2>1, AddList
  <2> QED BY <1>2, <1>5, <1>8, <2>2
<1>13. PICK e : e = [key |-> k, value |-> v]
  OBVIOUS
<1>14. e \in EntryRecords /\ e.key = mem[n].key /\ e.value = mem[n].value
  <2>1. mem[n].key = k /\ mem[n].value = v
    BY <1>3, <1>10, <1>12 DEF SameEntries
  <2> QED BY <1>1, <1>13, <2>1 DEF EntryRecords
<1>15. \A i \in 2 .. m - 1 : mem[l[i]].key = node[l[i]].key /\ mem[l[i]].value = node[l[i]].value
  <2>1. \A i \in 2 .. m - 1 : i \in 1 .. m
    BY <1>8
  <2> QED BY <1>8, <1>10, <1>12, <2>1 DEF SameEntries
<1>16. Shown(mem, a, b) = <<e>> \o Shown(node, l, m)
  <2>1. Linked(node, l, m) /\ Linked(mem, Added(l, m, n), m + 1)
    BY <1>6, <1>8
  <2>2. e = Pair(mem, n)
    BY <1>14 DEF EntryRecords, Pair
  <2>3. Shown(mem, Added(l, m, n), m + 1) = <<Pair(mem, n)>> \o Shown(node, l, m)
    BY <1>14, <1>15, <2>1, <2>2, AddedShown
  <2> QED BY <1>6, <2>2, <2>3
<1>17. Held = Shown(node, l, m) /\ Capacity = cache.capacity
  BY <1>4, HeldIs
<1>18. Shown(mem, a, b) \in Seq(EntryRecords) /\ Len(Shown(mem, a, b)) = m - 1
  <2>1. b - 2 = m - 1
    BY <1>6, <1>8
  <2> QED BY <1>8, <2>1, ShownElements
<1>19. Capacity' = Capacity /\ Held' = Store!Keep(<<e>> \o Held)
  <2>1. CASE added.size > added.capacity
    <3>1. b >= 3 /\ cache.capacity = m - 2
      BY <1>1, <1>6, <1>8, <1>9, <2>1 DEF CacheRecords
    <3>2. PICK g, q : g = Dropped(a, b, b - 1) /\ q = b - 1
      OBVIOUS
    <3>3. Good(node', cache', lost', g, q)
      BY <1>1, <1>2, <1>3, <1>7, <2>1, <3>1, <3>2, RemoveGood
    <3>4. cache'.capacity = cache.capacity
      BY <1>2, <1>8, <1>9, <2>1 DEF RemoveTail, CacheRecords
    <3>5. Held' = Shown(node', g, q) /\ Capacity' = cache'.capacity
      BY <3>3, HeldNext
    <3>6. Linked(node', g, q)
      BY <3>3 DEF Good
    <3>7. PICK out : out = Unlink(mem, a[b - 1])
      OBVIOUS
    <3>8. /\ b - 1 \in 2 .. b - 1 /\ b - 1 \in 1 .. b /\ b \in 1 .. b /\ b # 1
          /\ \A i \in 2 .. b - 2 : i \in 1 .. b /\ i # b - 1
      BY <1>8, <3>1
    <3>9. /\ SameEntries(mem, out) /\ mem \in Memories /\ added.tail = a[b]
      BY <1>7, <1>8, <3>7, <3>8, UnlinkList DEF Good
    <3>10. mem[a[b]].prev = a[b - 1]
      BY <1>8, <3>8 DEF Linked
    <3>11. \A x \in Nodes : x # a[b - 1] => node'[x] = out[x]
      <4>1. node' = [out EXCEPT ![a[b - 1]] = NULL]
        BY <1>2, <2>1, <3>7, <3>9, <3>10 DEF RemoveTail
      <4> QED BY <3>9, <4>1 DEF SameEntries, Memories
    <3>12. \A i \in 2 .. b - 2 : node'[a[i]].key = mem[a[i]].key /\ node'[a[i]].value = mem[a[i]].value
      <4>1. \A i \in 2 .. b - 2 : a[i] \in Nodes /\ mem[a[i]] \in NodeRecords /\ a[i] # a[b - 1]
        BY <1>8, <3>8 DEF Linked
      <4> QED BY <3>9, <3>11, <4>1 DEF SameEntries
    <3>13. Shown(node', g, q) = SubSeq(Shown(mem, a, b), 1, b - 3)
      BY <1>8, <3>1, <3>2, <3>6, <3>12, DroppedShown
    <3>14. b - 3 = m - 2
      BY <1>6, <1>8
    <3>15. Held' = SubSeq(<<e>> \o Held, 1, Capacity) /\ Len(<<e>> \o Held) > Capacity
      BY <1>8, <1>16, <1>17, <1>18, <3>1, <3>5, <3>13, <3>14
    <3> QED BY <1>17, <3>4, <3>5, <3>15 DEF Store!Keep
  <2>2. CASE ~(added.size > added.capacity)
    <3>1. node' = mem /\ cache' = added
      BY <1>2, <2>2
    <3>2. Good(node', cache', lost', a, b)
      BY <1>1, <1>7, <3>1
    <3>3. Held' = Shown(node', a, b) /\ Capacity' = cache'.capacity
      BY <3>2, HeldNext
    <3>4. Held' = <<e>> \o Held /\ Capacity' = Capacity
      BY <1>9, <1>16, <1>17, <3>1, <3>3
    <3>5. ~(Len(<<e>> \o Held) > Capacity)
      BY <1>9, <1>16, <1>17, <1>18, <2>2
    <3> QED BY <3>4, <3>5 DEF Store!Keep
  <2> QED BY <2>1, <2>2
<1>20. Store!Put(k, v)
  <2>1. Capacity > 0 /\ Store!Valid(k) /\ ~Store!Holds(k)
    BY <1>1, <1>8, <1>17, NotHeld DEF Store!Valid, Hashed, CacheRecords
  <2> QED BY <1>1, <1>13, <1>19, <2>1 DEF Store!Put
<1> QED BY <1>1, <1>20 DEF StoreStep, Store!Next

\* For any memory, capacity, keys and values the pointers implement the store: lruCacheGet
\* answers with the value put last unless the key has been evicted, and what a put
\* evicts is the entry whose last use is the oldest.
THEOREM LruImplementsStore == Spec => ImplementsStore
<1>1. EntriesKnown
  BY EntriesAre DEF EntriesKnown
<1>2. Init => Store!Init
  BY DEF Init, Store!Init, Capacity, Held, NotFound, Store!NotFound
<1>3. LruInv /\ LruInv' /\ EntriesKnown /\ EntriesKnown' /\ [Next]_vars => StoreStep
  <2> SUFFICES ASSUME LruInv, LruInv', EntriesKnown, EntriesKnown', [Next]_vars PROVE StoreStep
    OBVIOUS
  <2>1. CASE UNCHANGED vars
    BY <2>1, SameStore DEF StoreStep, Store!vars, vars
  <2>2. ASSUME Free PROVE StoreStep
    <3>1. Store!Free
      BY <2>2 DEF Free, Store!Free, Capacity, Held
    <3> QED BY <3>1 DEF StoreStep, Store!Next
  <2> QED BY <2>1, <2>2, StoreCreate, StoreGet, StoreUpdate, StoreInsert DEF Next
<1> QED BY <1>1, <1>2, <1>3, LruInvariant, PTL DEF Spec, StoreStep, ImplementsStore, Store!Spec

=============================================================================
