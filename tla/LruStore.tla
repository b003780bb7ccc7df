------------------------------- MODULE LruStore -------------------------------
(***************************************************************************)
(* What an LRU cache promises, as the tests of day19-LRU.cpp describe it:  *)
(* the entries in the order of their last use, at most capacity of them.   *)
(***************************************************************************)
EXTENDS Integers, SequencesExt

CONSTANTS
  Capacities,  \* what callers pass to lruCacheCreate
  MaxKey,      \* largest key
  Values       \* values put

VARIABLES
  capacity,    \* of the cache, 0 while there is none
  entries,     \* [key, value] pairs, the one used last first
  answer       \* what the last Get returned

vars == <<capacity, entries, answer>>

NotFound == -1

Keys == -1 .. MaxKey + 1   \* those of callers, one beyond either end included
Valid(k) == k \in 0 .. MaxKey
Holds(k) == \E i \in DOMAIN entries : entries[i].key = k
Keep(s) == IF Len(s) > capacity THEN SubSeq(s, 1, capacity) ELSE s

Init == capacity = 0 /\ entries = <<>> /\ answer = NotFound

Create(c) ==
  /\ capacity = 0
  /\ capacity' \in {0, c} \cap Nat
  /\ UNCHANGED <<entries, answer>>

Get(k) ==
  /\ UNCHANGED capacity
  /\ \/ ~Holds(k) /\ answer' = NotFound /\ UNCHANGED entries
     \/ \E i \in DOMAIN entries :
          /\ entries[i].key = k
          /\ answer' = entries[i].value
          /\ entries' = <<entries[i]>> \o RemoveAt(entries, i)

\* A new key may find no memory and is then not stored.
Put(k, v) ==
  /\ capacity > 0 /\ Valid(k)
  /\ \/ \E i \in DOMAIN entries :
          /\ entries[i].key = k
          /\ entries' = <<[key |-> k, value |-> v]>> \o RemoveAt(entries, i)
     \/ ~Holds(k) /\ entries' = Keep(<<[key |-> k, value |-> v]>> \o entries)
     \/ ~Holds(k) /\ UNCHANGED entries
  /\ UNCHANGED <<capacity, answer>>

Free ==
  /\ capacity' = 0 /\ entries' = <<>>
  /\ UNCHANGED answer

Next ==
  \/ \E c \in Capacities : Create(c)
  \/ \E k \in Keys : Get(k) \/ \E v \in Values : Put(k, v)
  \/ Free

Spec == Init /\ [][Next]_vars

=============================================================================
