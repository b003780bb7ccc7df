---------------------------- MODULE TaskScheduler ----------------------------
(***************************************************************************)
(* getOrder of src/Single-threaded CPU/task_scheduler.c: the CPU takes,    *)
(* whenever it is free, the shortest of the tasks that have arrived, of    *)
(* equal ones the one with the smallest index.  The tasks are sorted by    *)
(* arrival (qsort leaves equal ones in any order) and wait in a binary     *)
(* heap; the time is an int, and goes back to an arrival when the heap is  *)
(* found empty.                                                            *)
(***************************************************************************)
EXTENDS Integers, Sequences, FiniteSets, SequencesExt

CONSTANTS
  MaxTasks,         (* bound: tasks                                        *)
  Times, Lengths,   (* bounds: enqueueTime and processingTime              *)
  IntRange          (* 2^32: int arithmetic is modulo this                 *)

(* Times are not negative, as in the problem statement: then compareTasks, *)
(* which subtracts one from the other, does not overflow and sorts right.  *)
SchedulerAssumption ==
  /\ MaxTasks \in Nat /\ IntRange \in Nat \ {0}
  /\ Times \subseteq 0 .. IntRange \div 2 - 1 /\ Lengths \subseteq Int

VARIABLES
  tasks,         (* the argument, a sequence of [at, length]; the index is *)
                 (* the position                                           *)
  waiting,       (* sortedTasks from taskIndex on, as a set of indices     *)
  heap,          (* nodes[0 .. size-1], as a sequence                      *)
  currentTime,
  filling,       (* the inner loop, which adds what has arrived            *)
  result

vars == <<tasks, waiting, heap, currentTime, filling, result>>

Init ==
  /\ \E n \in 0 .. MaxTasks : tasks \in [1 .. n -> [at: Times, length: Lengths]]
  /\ waiting = DOMAIN tasks
  /\ heap = <<>> /\ currentTime = 0 /\ filling = FALSE /\ result = <<>>

(* int arithmetic: an overflow wraps around in the builds there are. *)
AsInt(n) == ((n + IntRange \div 2) % IntRange) - IntRange \div 2

-----------------------------------------------------------------------------
(* The order of the heap: the length, then the index. *)
Less(i, j) ==
  \/ tasks[i].length < tasks[j].length
  \/ tasks[i].length = tasks[j].length /\ i < j

Swap(h, i, j) == [h EXCEPT ![i] = h[j], ![j] = h[i]]

(* A call o of heapifyUp or heapifyDown has a heap and a position in it,   *)
(* counted from 1: the parent of i is i \div 2.  It ends by calling itself *)
(* for the position that it has swapped with, and that at most once for    *)
(* each node.                                                              *)
Call(h, i) == [nodes |-> h, at |-> i]
Swapped(o, i) == Call(Swap(o.nodes, o.at, i), i)

CallUp(o) ==
  IF o.at > 1 /\ Less(o.nodes[o.at], o.nodes[o.at \div 2])
  THEN Swapped(o, o.at \div 2) ELSE o

heapifyUp(h, i) ==
  LET call[n \in 0 .. Len(h)] == IF n = 0 THEN Call(h, i) ELSE CallUp(call[n - 1])
  IN call[Len(h)].nodes

(* Looks at the left child only. *)
SmallestLeft(h, i) ==
  IF 2 * i =< Len(h) /\ Less(h[2 * i], h[i]) THEN 2 * i ELSE i

(* The smallest of a node and its children. *)
Smallest(h, i) ==
  LET family == {k \in {i, 2 * i, 2 * i + 1} : k =< Len(h)}
  IN CHOOSE k \in family : \A j \in family \ {k} : Less(h[k], h[j])

CallDown(o) ==
  LET s == Smallest(o.nodes, o.at) IN IF s = o.at THEN o ELSE Swapped(o, s)

heapifyDown(h, i) ==
  LET call[n \in 0 .. Len(h)] == IF n = 0 THEN Call(h, i) ELSE CallDown(call[n - 1])
  IN call[Len(h)].nodes

(* The last node takes the place of the first. *)
Popped(h) ==
  IF Len(h) = 1 THEN <<>>
  ELSE heapifyDown([Front(h) EXCEPT ![1] = Last(h)], 1)

(* A turn of the outer loop begins; if the heap is empty the time becomes  *)
(* that at which the next task arrives, or arrived.                        *)
Turn ==
  /\ ~filling /\ (waiting # {} \/ heap # <<>>)
  /\ filling' = TRUE
  /\ currentTime' = IF heap # <<>> THEN currentTime
                    ELSE CHOOSE t \in Times :
                           /\ \E i \in waiting : tasks[i].at = t
                           /\ \A i \in waiting : t =< tasks[i].at
  /\ UNCHANGED <<tasks, waiting, heap, result>>

(* One of the first of sortedTasks, if it has arrived. *)
Arrives(i) == i \in waiting /\ \A j \in waiting : tasks[i].at =< tasks[j].at

push(i) ==
  /\ filling /\ Arrives(i) /\ tasks[i].at =< currentTime
  /\ heap' = heapifyUp(Append(heap, i), Len(heap) + 1)
  /\ waiting' = waiting \ {i}
  /\ UNCHANGED <<tasks, currentTime, filling, result>>

pop ==
  /\ filling /\ \A i \in waiting : tasks[i].at > currentTime
  /\ result' = Append(result, heap[1])
  /\ currentTime' = AsInt(currentTime + tasks[heap[1]].length)
  /\ heap' = Popped(heap)
  /\ filling' = FALSE
  /\ UNCHANGED <<tasks, waiting>>

Next == Turn \/ (\E i \in 1 .. MaxTasks : push(i)) \/ pop

Spec == Init /\ [][Next]_vars

-----------------------------------------------------------------------------
(* No task is lost and none runs twice, even when the time has gone beyond *)
(* an int; and the one that runs next is the least of those in the heap.   *)
LeastOfHeapNext ==
  /\ IsInjective(heap \o result)
  /\ Range(heap \o result) = DOMAIN tasks \ waiting
  /\ \A i \in Range(heap) : i = heap[1] \/ Less(heap[1], i)

(* When each task of an order starts, if the CPU is idle only as long as   *)
(* nothing has arrived.                                                    *)
StartTimes(order) ==
  LET start[k \in 0 .. Len(order)] ==
        IF k = 0 THEN 0
        ELSE LET free == IF k = 1 THEN 0
                         ELSE start[k - 1] + tasks[order[k - 1]].length
             IN IF tasks[order[k]].at > free THEN tasks[order[k]].at ELSE free
  IN start

(* Each time the CPU is free it takes the least of the tasks that have     *)
(* arrived by then ("#run.txt", line 6).                                   *)
ShortestFirst ==
  LET start == StartTimes(result)
      later(k) == DOMAIN tasks \ {result[j] : j \in 1 .. k}
  IN \A k \in DOMAIN result : \A i \in later(k) :
       tasks[i].at =< start[k] => Less(result[k], i)
=============================================================================
