--------------------------- MODULE ProgramsProofs ---------------------------
(***************************************************************************)
(* What the run of MCPrograms checks of four of its programs, for every    *)
(* value of the constants.                                                 *)
(*                                                                         *)
(* The scan of /proc never takes a process that is still there for one     *)
(* that has ended, where both words it reads are start times and no read   *)
(* fails: start times only grow, so a PID that has lost the process the    *)
(* scan saw never gets it back; if it is there when a time is read, it was *)
(* there all the while, and the time read first is its own.                *)
(*                                                                         *)
(* The list of riders still to be asked is right at every turn of          *)
(* handNotifyNearbyRider: taking out one position keeps the others         *)
(* distinct and takes out one rider, so the sequence stays an enumeration  *)
(* of the riders who have not refused.                                     *)
(*                                                                         *)
(* The ring buffer delivers every message whole: numbering all the bytes   *)
(* that were ever written, the unread ones are less than a ring apart, so  *)
(* no two of them share a cell, and a byte is written in a free one.       *)
(*                                                                         *)
(* The threads count the words of their chunks and main adds them up: a    *)
(* thread that has read up to some byte has counted the words that ended   *)
(* before it, wherever its blocks were cut, and what is left of its chunk  *)
(* is a remainder that is zero at the end of the chunk only.               *)
(***************************************************************************)
EXTENDS MCPrograms, Sequences, FiniteSets, FiniteSetTheorems, FunctionTheorems,
        SequenceTheorems, WellFoundedInduction, TLAPS

(***************************************************************************)
(* The scan of /proc                                                       *)
(***************************************************************************)

ScanTypeOK ==
  /\ start \in [Scan!Pids -> Nat] /\ now \in Nat
  /\ pc \in {"sleep", "readdir", "first", "stat", "second"}
  /\ pid \in Nat /\ original \in Nat /\ seen \in Nat /\ timed \in BOOLEAN

(* No process starts in the future. *)
TimesPast == \A p \in Scan!Pids : start[p] =< now

(* The process under examination. *)
Looking ==
  pc \in {"first", "stat", "second"} => pid \in Scan!Pids /\ 0 < seen /\ seen =< now

(* What was read first is, if it is a start time and the process seen is   *)
(* still there, that of the process.                                       *)
OriginalRight ==
  pc \in {"stat", "second"} => (timed /\ start[pid] = seen => original = seen)

ScanInv == ScanTypeOK /\ TimesPast /\ Looking /\ OriginalRight /\ Scan!CleansOnlyGone

-----------------------------------------------------------------------------
(* A kernel step moves no start time forward to one that was seen before:  *)
(* whichever process ends or begins, what the scan knows stays right.      *)
LEMMA KernelStep ==
  ASSUME ScanInv, NEW p \in Scan!Pids,
         Scan!End(p) \/ Scan!Begin(p) \/ \E n \in 0 .. 2 : Scan!Rename(p, n)
  PROVE  ScanInv'
<1> USE DEF ScanInv
<1>1. ScanTypeOK'
  <2>1. CASE Scan!End(p)
    BY <2>1 DEF ScanTypeOK, Scan!End
  <2>2. CASE Scan!Begin(p)
    BY <2>2 DEF ScanTypeOK, Scan!Begin
  <2>3. CASE \E n \in 0 .. 2 : Scan!Rename(p, n)
    BY <2>3 DEF ScanTypeOK, Scan!Rename
  <2> QED BY <2>1, <2>2, <2>3
<1>2. now =< now'
  BY DEF ScanTypeOK, Scan!End, Scan!Begin, Scan!Rename
<1>3. \A q \in Scan!Pids : start'[q] = start[q] \/ start'[q] = 0 \/ start'[q] > now
  BY DEF ScanTypeOK, Scan!End, Scan!Begin, Scan!Rename
<1>4. TimesPast'
  <2>1. CASE Scan!End(p)
    BY <2>1 DEF ScanTypeOK, Scan!End, TimesPast
  <2>2. CASE Scan!Begin(p)
    BY <2>2 DEF ScanTypeOK, Scan!Begin, TimesPast
  <2>3. CASE \E n \in 0 .. 2 : Scan!Rename(p, n)
    BY <2>3 DEF Scan!Rename, TimesPast
  <2> QED BY <2>1, <2>2, <2>3
<1>5. UNCHANGED <<pc, pid, original, seen, timed, cleaned>>
  BY DEF Scan!End, Scan!Begin, Scan!Rename
<1>6. Looking'
  <2> SUFFICES ASSUME pc \in {"first", "stat", "second"}
               PROVE  pid \in Scan!Pids /\ 0 < seen /\ seen =< now'
    BY <1>5 DEF Looking
  <2>1. pid \in Scan!Pids /\ 0 < seen /\ seen =< now
    BY DEF Looking
  <2> QED BY <1>1, <1>2, <2>1 DEF ScanTypeOK
<1>7. OriginalRight'
  <2> SUFFICES ASSUME pc \in {"stat", "second"}, timed, start'[pid] = seen
               PROVE  original = seen
    BY <1>5 DEF OriginalRight
  <2>1. pid \in Scan!Pids /\ 0 < seen /\ seen =< now
    BY DEF Looking
  <2>2. start[pid] = seen
    BY <2>1, <1>3 DEF ScanTypeOK
  <2> QED BY <2>2 DEF OriginalRight
<1>8. Scan!CleansOnlyGone'
  BY <1>5 DEF Scan!CleansOnlyGone
<1> QED BY <1>1, <1>4, <1>6, <1>7, <1>8

(* A clean-up of an ended process, after a failed read or after one of     *)
(* something else is in order.                                             *)
LEMMA CleanUpRight ==
  ASSUME ScanInv, NEW failed \in BOOLEAN, NEW times \in BOOLEAN,
         Scan!CleanUp(failed, times), failed \/ start[pid] # seen \/ ~times
  PROVE  Scan!CleansOnlyGone'
BY DEF Scan!CleanUp, Scan!CleansOnlyGone

(* The three reads of the scan, and the step to the next entry. *)
LEMMA ScanStep ==
  ASSUME ScanInv, Scan!Wake \/ Scan!ReadDir \/ Scan!ReadStart \/ Scan!Stat \/ Scan!IsPidReused
  PROVE  ScanInv'
<1> USE DEF ScanInv
<1>0. start' = start /\ now' = now
  BY DEF Scan!Wake, Scan!ReadDir, Scan!ReadStart, Scan!Stat, Scan!IsPidReused
<1>1. CASE Scan!Wake
  BY <1>1 DEF Scan!Wake, ScanTypeOK, TimesPast, Looking, OriginalRight, Scan!CleansOnlyGone
<1>2. CASE Scan!ReadDir
  <2>1. CASE pc' = "sleep" /\ UNCHANGED <<pid, seen>>
    BY <1>2, <2>1
    DEF Scan!ReadDir, ScanTypeOK, TimesPast, Looking, OriginalRight, Scan!CleansOnlyGone
  <2>2. ASSUME NEW p \in Scan!Pids, start[p] # 0,
               pc' = "first", pid' = p, seen' = start[p]
        PROVE  ScanInv'
    <3>1. ScanTypeOK' /\ Looking'
      BY <1>2, <2>2 DEF Scan!ReadDir, ScanTypeOK, TimesPast, Looking, Scan!Pids
    <3> QED
      BY <1>2, <2>2, <3>1 DEF Scan!ReadDir, TimesPast, OriginalRight, Scan!CleansOnlyGone
  <2> QED BY <1>2, <2>1, <2>2 DEF Scan!ReadDir
<1>3. ASSUME pc \in {"first", "stat", "second"}
      PROVE  /\ pid \in Scan!Pids /\ start[pid] \in Nat
             /\ start[pid] = 0 => start[pid] # seen
  BY <1>3 DEF Looking, ScanTypeOK
<1>4. ASSUME pc \in {"first", "stat", "second"}, UNCHANGED <<pid, seen>>,
             original' \in Nat,
             timed' \in BOOLEAN,
             NEW failed \in BOOLEAN, NEW times \in BOOLEAN,
             Scan!CleanUp(failed, times), failed \/ start[pid] # seen \/ ~times
      PROVE  ScanInv'
  <2>1. Scan!CleansOnlyGone'
    BY <1>4, CleanUpRight
  <2>2. pc' = "readdir"
    BY <1>4 DEF Scan!CleanUp
  <2> QED
    BY <1>0, <1>4, <2>1, <2>2 DEF ScanTypeOK, TimesPast, Looking, OriginalRight
<1>5. CASE Scan!ReadStart
  <2>1. pc = "first" /\ UNCHANGED <<pid, seen>>
    BY <1>5 DEF Scan!ReadStart
  <2>2. CASE Scan!Unreadable /\ UNCHANGED <<original, timed>>
    BY <1>3, <1>4, <2>1, <2>2 DEF ScanTypeOK, Scan!Unreadable
  <2>3. CASE /\ original' \in Scan!Words22 /\ timed' = (gaps[pid] = 0)
             /\ pc' = "stat" /\ UNCHANGED cleaned
    <3>1. original' \in Nat
      <4>1. Counters \subseteq Nat /\ start[pid] \in Nat
        BY <1>3, <2>1, ProgramsAssumption DEF Scan!ScanAssumption
      <4>2. Scan!Words22 \in {{start[pid]}, {0}, Counters}
        BY DEF Scan!Words22
      <4>3. {0} \subseteq Nat /\ {start[pid]} \subseteq Nat
        BY <4>1
      <4>4. Scan!Words22 \subseteq Nat
        BY <4>1, <4>2, <4>3
      <4> QED BY <2>3, <4>4
    <3>2. ASSUME timed' PROVE original' = start[pid]
      <4>1. gaps[pid] = 0
        BY <2>3, <3>2
      <4>2. Scan!Words22 = {start[pid]}
        BY <4>1 DEF Scan!Words22
      <4> QED BY <2>3, <4>2
    <3>3. ScanTypeOK'
      BY <1>0, <1>3, <2>1, <2>3, <3>1 DEF ScanTypeOK
    <3> QED
      BY <1>0, <1>3, <2>1, <2>3, <3>2, <3>3
      DEF TimesPast, Looking, OriginalRight, Scan!CleansOnlyGone
  <2> QED BY <1>5, <2>2, <2>3 DEF Scan!ReadStart
<1>6. CASE Scan!Stat
  <2>1. pc = "stat" /\ UNCHANGED <<pid, seen, original, timed>>
    BY <1>6 DEF Scan!Stat
  <2>2. CASE Scan!CleanUp(start[pid] # 0, timed)
    BY <1>3, <1>4, <2>1, <2>2 DEF ScanTypeOK
  <2>3. CASE pc' = "second" /\ UNCHANGED cleaned
    BY <1>0, <2>1, <2>3
    DEF ScanTypeOK, TimesPast, Looking, OriginalRight, Scan!CleansOnlyGone
  <2> QED BY <1>6, <2>2, <2>3 DEF Scan!Stat
<1>7. CASE Scan!IsPidReused
  <2>1. pc = "second" /\ UNCHANGED <<pid, seen, original, timed>>
    BY <1>7 DEF Scan!IsPidReused
  <2>2. CASE Scan!Unreadable
    BY <1>3, <1>4, <2>1, <2>2 DEF ScanTypeOK, Scan!Unreadable
  <2>3. ASSUME NEW w \in Scan!Words22, w # original,
               Scan!CleanUp(FALSE, timed /\ gaps[pid] = 0)
        PROVE  ScanInv'
    <3>1. (timed /\ gaps[pid] = 0) \in BOOLEAN
      BY DEF ScanTypeOK
    <3>2. start[pid] # seen \/ ~(timed /\ gaps[pid] = 0)
      BY <2>1, <2>3 DEF OriginalRight, Scan!Words22
    <3> QED BY <1>4, <2>1, <2>3, <3>1, <3>2 DEF ScanTypeOK
  <2>4. CASE Scan!Keep
    BY <1>0, <2>1, <2>4
    DEF Scan!Keep, ScanTypeOK, TimesPast, Looking, OriginalRight, Scan!CleansOnlyGone
  <2> QED BY <1>7, <2>2, <2>3, <2>4 DEF Scan!IsPidReused
<1> QED BY <1>1, <1>2, <1>5, <1>6, <1>7

(* CleansOnlyGone holds for any number of PIDs, whenever processes end and *)
(* start, and whichever of the reads fail: where both words are start      *)
(* times, those of two processes are never taken for each other.           *)
THEOREM ScanCleansOnlyGone ==
  ASSUME NULL \notin [seen : Nat, there : Nat, failed : BOOLEAN, timed : BOOLEAN]
  PROVE  Spec => []CleansOnlyGone
<1>1. Init => ScanInv
  BY DEF Init, Scan!Init, Scan!Pids, ScanInv, ScanTypeOK, TimesPast, Looking,
         OriginalRight, Scan!CleansOnlyGone
<1>2. ScanInv /\ [Next]_vars => ScanInv'
  <2> SUFFICES ASSUME ScanInv, [Next]_vars PROVE ScanInv'
    OBVIOUS
  <2>1. CASE Scan!Next
    <3>1. CASE \E p \in Scan!Pids : Scan!End(p) \/ Scan!Begin(p)
                                      \/ \E n \in 0 .. 2 : Scan!Rename(p, n)
      BY <3>1, KernelStep
    <3>2. CASE Scan!Wake \/ Scan!ReadDir \/ Scan!ReadStart \/ Scan!Stat \/ Scan!IsPidReused
      BY <3>2, ScanStep
    <3> QED BY <2>1, <3>1, <3>2 DEF Scan!Next
  <2>2. CASE UNCHANGED scanVars
    BY <2>2 DEF scanVars, ScanInv, ScanTypeOK, TimesPast, Looking, OriginalRight,
                Scan!CleansOnlyGone
  <2> QED BY <2>1, <2>2 DEF Next, vars
<1>3. ScanInv => CleansOnlyGone
  BY DEF ScanInv, CleansOnlyGone
<1> QED BY <1>1, <1>2, <1>3, PTL DEF Spec

(***************************************************************************)
(* The riders to be asked                                                  *)
(***************************************************************************)

(* The operators of the instance are those of the module FiniteSets.       *)
LEMMA SameFinite ==
  ASSUME NEW S PROVE Dispatch!IsFiniteSet(S) <=> IsFiniteSet(S)
BY DEF Dispatch!IsFiniteSet, IsFiniteSet

(* Each instance of FiniteSets has the one Cardinality. *)
LEMMA SameCardinality ==
  ASSUME NEW S PROVE Dispatch!Cardinality(S) = Cardinality(S)
BY DEF Dispatch!Cardinality, Cardinality

(* s enumerates the set S.                                                 *)
Enumerates(s, S) ==
  /\ s \in Seq(S)
  /\ \A r \in S : \E i \in 1 .. Len(s) : s[i] = r
  /\ \A i, j \in 1 .. Len(s) : s[i] = s[j] => i = j

(* Where position k of the list without position i was before.             *)
Old(k, i) == IF k < i THEN k ELSE k + 1

(* The inductive invariant: what the list holds, and what is known at each step. *)
DispatchInv ==
  /\ near \in SUBSET Riders /\ refused \in SUBSET near
  /\ Enumerates(riderIDs, near \ refused)
  /\ at \in {"idle", "query", "choose", "wait"}
  /\ at = "query" => near = {} /\ refused = {}
  /\ at \in {"choose", "wait"} => near # {}
  /\ at # "idle" => answer = "none"
  /\ at = "wait" \/ answer = "accepted" => riderIndex \in 1 .. Len(riderIDs)
  /\ answer = "allRefused" => refused = near /\ near # {}

-----------------------------------------------------------------------------
(* What is left of a sequence without position i.                          *)
LEMMA RemovedElements ==
  ASSUME NEW S, NEW s \in Seq(S), NEW i \in 1 .. Len(s)
  PROVE  /\ Dispatch!Removed(s, i) \in Seq(S)
         /\ Len(Dispatch!Removed(s, i)) = Len(s) - 1
         /\ \A k \in 1 .. Len(s) - 1 : Dispatch!Removed(s, i)[k] = s[Old(k, i)]
<1> DEFINE front == SubSeq(s, 1, i - 1)
           back  == SubSeq(s, i + 1, Len(s))
<1>1. Len(s) \in Nat
  OBVIOUS
<1>2. front \in Seq(S) /\ Len(front) = i - 1 /\ \A k \in 1 .. i - 1 : front[k] = s[k]
  BY <1>1
<1>3. /\ back \in Seq(S) /\ Len(back) = Len(s) - i
      /\ \A k \in 1 .. Len(s) - i : back[k] = s[k + i]
  BY <1>1
<1>4. Dispatch!Removed(s, i) = front \o back
  BY DEF Dispatch!Removed, Dispatch!RemoveAt
<1> HIDE DEF front, back
<1>5. /\ front \o back \in Seq(S) /\ Len(front \o back) = Len(s) - 1
      /\ \A k \in 1 .. Len(s) - 1 :
           (front \o back)[k] = IF k < i THEN front[k] ELSE back[k - (i - 1)]
  <2>1. /\ front \o back \in Seq(S) /\ Len(front \o back) = Len(front) + Len(back)
        /\ \A k \in 1 .. Len(front) + Len(back) :
             (front \o back)[k] = IF k <= Len(front) THEN front[k] ELSE back[k - Len(front)]
    BY <1>2, <1>3, ConcatProperties
  <2>2. Len(front) + Len(back) = Len(s) - 1
    BY <1>1, <1>2, <1>3
  <2>3. ASSUME NEW k \in 1 .. Len(s) - 1
        PROVE  k < i <=> k <= Len(front)
    BY <1>1, <1>2
  <2> QED BY <1>2, <2>1, <2>2, <2>3
<1>6. ASSUME NEW k \in 1 .. Len(s) - 1
      PROVE  (front \o back)[k] = s[Old(k, i)]
  <2>1. CASE k < i
    BY <1>1, <1>2, <1>5, <2>1 DEF Old
  <2>2. CASE ~(k < i)
    <3>1. k - (i - 1) \in 1 .. Len(s) - i /\ (k - (i - 1)) + i = k + 1
      BY <1>1, <2>2
    <3>2. (front \o back)[k] = back[k - (i - 1)]
      BY <1>5, <2>2
    <3> QED BY <1>3, <2>2, <3>1, <3>2 DEF Old
  <2> QED BY <2>1, <2>2
<1> QED BY <1>4, <1>5, <1>6

(* The old positions are those but i, and differ where the new ones do.    *)
LEMMA OldPositions ==
  ASSUME NEW n \in Nat, NEW i \in 1 .. n
  PROVE  /\ \A k \in 1 .. n - 1 : Old(k, i) \in (1 .. n) \ {i}
         /\ \A j, k \in 1 .. n - 1 : Old(j, i) = Old(k, i) => j = k
         /\ \A p \in (1 .. n) \ {i} : \E k \in 1 .. n - 1 : Old(k, i) = p
<1>1. ASSUME NEW k \in 1 .. n - 1 PROVE Old(k, i) \in (1 .. n) \ {i}
  BY DEF Old
<1>2. ASSUME NEW j \in 1 .. n - 1, NEW k \in 1 .. n - 1, Old(j, i) = Old(k, i)
      PROVE  j = k
  BY <1>2 DEF Old
<1>3. ASSUME NEW p \in (1 .. n) \ {i} PROVE \E k \in 1 .. n - 1 : Old(k, i) = p
  <2>1. CASE p < i
    <3>1. p \in 1 .. n - 1 /\ Old(p, i) = p
      BY <2>1 DEF Old
    <3> QED BY <3>1
  <2>2. CASE p > i
    <3>1. p - 1 \in 1 .. n - 1 /\ Old(p - 1, i) = p
      BY <2>2 DEF Old
    <3> QED BY <3>1
  <2> QED BY <2>1, <2>2
<1> QED BY <1>1, <1>2, <1>3

(* A sequence of elements of a smaller set is a sequence over that set.    *)
LEMMA ElementsMakeSeq ==
  ASSUME NEW S, NEW T, NEW t \in Seq(S), \A k \in 1 .. Len(t) : t[k] \in T
  PROVE  t \in Seq(T)
<1>1. Len(t) \in Nat /\ t \in [1 .. Len(t) -> T]
  OBVIOUS
<1> QED BY <1>1

(* Without the position of a rider, the list enumerates the other riders.  *)
LEMMA RemovedEnumerates ==
  ASSUME NEW S, NEW s, Enumerates(s, S), NEW i \in 1 .. Len(s)
  PROVE  Enumerates(Dispatch!Removed(s, i), S \ {s[i]})
<1> DEFINE t == Dispatch!Removed(s, i)
<1>1. /\ s \in Seq(S) /\ Len(s) \in Nat
      /\ \A r \in S : \E k \in 1 .. Len(s) : s[k] = r
      /\ \A j, k \in 1 .. Len(s) : s[j] = s[k] => j = k
  BY DEF Enumerates
<1>2. /\ t \in Seq(S) /\ Len(t) = Len(s) - 1
      /\ \A k \in 1 .. Len(s) - 1 : t[k] = s[Old(k, i)]
  BY <1>1, RemovedElements
<1> HIDE DEF t
<1>3. /\ \A k \in 1 .. Len(t) : Old(k, i) \in (1 .. Len(s)) \ {i}
      /\ \A j, k \in 1 .. Len(t) : Old(j, i) = Old(k, i) => j = k
      /\ \A p \in (1 .. Len(s)) \ {i} : \E k \in 1 .. Len(t) : Old(k, i) = p
  <2> DEFINE n == Len(s)
  <2>1. n \in Nat /\ i \in 1 .. n /\ Len(t) = n - 1
    BY <1>1, <1>2
  <2> HIDE DEF n
  <2>2. /\ \A k \in 1 .. n - 1 : Old(k, i) \in (1 .. n) \ {i}
        /\ \A j, k \in 1 .. n - 1 : Old(j, i) = Old(k, i) => j = k
        /\ \A p \in (1 .. n) \ {i} : \E k \in 1 .. n - 1 : Old(k, i) = p
    BY <2>1, OldPositions
  <2> QED BY <2>1, <2>2 DEF n
<1>8. \A k \in 1 .. Len(t) : t[k] = s[Old(k, i)]
  BY <1>2
<1>9. \A k \in 1 .. Len(s) : s[k] \in S
  BY <1>1
<1>4. t \in Seq(S \ {s[i]})
  <2>1. ASSUME NEW k \in 1 .. Len(t) PROVE t[k] \in S \ {s[i]}
    <3>1. PICK p \in 1 .. Len(s) : p = Old(k, i) /\ p # i
      BY <1>3
    <3>2. t[k] = s[p]
      BY <1>8, <3>1
    <3>3. s[p] \in S /\ s[p] # s[i]
      BY <1>1, <1>9, <3>1
    <3> QED BY <3>2, <3>3
  <2> QED BY <1>2, <2>1, ElementsMakeSeq
<1>5. ASSUME NEW r \in S \ {s[i]}
      PROVE  \E k \in 1 .. Len(t) : t[k] = r
  <2>1. PICK p \in 1 .. Len(s) : s[p] = r
    BY <1>1
  <2>2. PICK k \in 1 .. Len(t) : Old(k, i) = p
    BY <1>3, <2>1
  <2> QED BY <1>8, <2>1, <2>2
<1>6. ASSUME NEW j \in 1 .. Len(t), NEW k \in 1 .. Len(t), t[j] = t[k]
      PROVE  j = k
  <2>1. PICK p \in 1 .. Len(s) : p = Old(j, i)
    BY <1>3
  <2>2. PICK q \in 1 .. Len(s) : q = Old(k, i)
    BY <1>3
  <2>3. s[p] = s[q]
    BY <1>6, <1>8, <2>1, <2>2
  <2>4. p = q
    BY <1>1, <2>3
  <2> QED BY <1>3, <2>1, <2>2, <2>4
<1>7. Enumerates(t, S \ {s[i]})
  BY <1>4, <1>5, <1>6 DEF Enumerates
<1> QED BY <1>7 DEF t

(* The sequence of a finite set has as many positions as the set has elements. *)
LEMMA EnumerationLength ==
  ASSUME NEW S, NEW s, Enumerates(s, S)
  PROVE  Dispatch!ToSet(s) = S /\ Len(s) = Cardinality(S)
<1>1. /\ s \in Seq(S) /\ Len(s) \in Nat /\ DOMAIN s = 1 .. Len(s)
      /\ s \in [1 .. Len(s) -> S]
  BY DEF Enumerates
<1>2. Dispatch!ToSet(s) = S
  BY <1>1 DEF Dispatch!ToSet, Enumerates
<1>3. s \in Bijection(1 .. Len(s), S)
  BY <1>1 DEF Enumerates, Bijection, Injection, Surjection, IsInjective
<1>4. IsFiniteSet(1 .. Len(s)) /\ Cardinality(1 .. Len(s)) = Len(s)
  BY <1>1, FS_Interval
<1>5. Cardinality(S) = Cardinality(1 .. Len(s))
  BY <1>3, <1>4, FS_Bijection DEF ExistsBijection
<1> QED BY <1>2, <1>4, <1>5

(* Dispatch!SetToSeqs gives the enumerations of a finite set.              *)
LEMMA SequencesEnumerate ==
  ASSUME NEW S, IsFiniteSet(S), NEW s \in Dispatch!SetToSeqs(S)
  PROVE  Enumerates(s, S)
<1> DEFINE n == Cardinality(S)
<1>1. n \in Nat
  BY FS_CardinalityType
<1>2. /\ s \in [1 .. n -> S]
      /\ \A i, j \in 1 .. n : i # j => s[i] # s[j]
  BY SameCardinality DEF Dispatch!SetToSeqs
<1>3. s \in Seq(S) /\ Len(s) = n
  BY <1>1, <1>2
<1>4. IsFiniteSet(1 .. n) /\ Cardinality(1 .. n) = n
  <2> HIDE DEF n
  <2> QED BY <1>1, FS_Interval
<1>5. s \in Injection(1 .. n, S)
  BY <1>2 DEF Injection, IsInjective
<1>6. s \in Surjection(1 .. n, S)
  BY <1>4, <1>5, FS_Injection
<1> QED BY <1>2, <1>3, <1>6 DEF Enumerates, Surjection

-----------------------------------------------------------------------------
(* At the beginning nobody is near and nobody has refused.                 *)
LEMMA DispatchInit == Dispatch!Init => DispatchInv
<1> SUFFICES ASSUME Dispatch!Init PROVE DispatchInv
  OBVIOUS
<1>1. Enumerates(<< >>, {} \ {})
  BY DEF Enumerates
<1> QED BY <1>1 DEF Dispatch!Init, DispatchInv

(* Every step keeps the list an enumeration of those who have not refused. *)
LEMMA DispatchStep ==
  ASSUME Dispatch!DispatchAssumption, DispatchInv, [Dispatch!Next]_Dispatch!vars
  PROVE  DispatchInv'
<1> USE DEF DispatchInv
<1>1. CASE Dispatch!Request
  <2>1. Enumerates(<< >>, {} \ {})
    BY DEF Enumerates
  <2> QED BY <1>1, <2>1 DEF Dispatch!Request
<1>2. CASE Dispatch!QueryRiders
  <2>1. PICK found \in SUBSET Riders :
          /\ near' = found /\ riderIDs' \in Dispatch!SetToSeqs(found)
          /\ IF found = {} THEN Dispatch!Answer("nobodyNear") \/ Dispatch!Answer("error")
                           ELSE at' = "choose" /\ UNCHANGED answer
    BY <1>2 DEF Dispatch!QueryRiders
  <2>2. at = "query" /\ refused' = {} /\ answer = "none"
    BY <1>2 DEF Dispatch!QueryRiders
  <2>3. Enumerates(riderIDs', near' \ refused')
    <3>1. IsFiniteSet(found)
      BY FS_Subset, SameFinite DEF Dispatch!DispatchAssumption
    <3>2. Enumerates(riderIDs', found)
      BY <2>1, <3>1, SequencesEnumerate
    <3>3. near' \ refused' = found
      BY <2>1, <2>2
    <3> QED BY <3>2, <3>3
  <2>4. CASE found = {}
    BY <2>1, <2>2, <2>3, <2>4 DEF Dispatch!Answer
  <2>5. CASE found # {}
    BY <2>1, <2>2, <2>3, <2>5
  <2> QED BY <2>4, <2>5
<1>3. CASE Dispatch!Publish
  <2>1. PICK i \in DOMAIN riderIDs :
          IF redisUp THEN riderIndex' = i /\ at' = "wait"
                     ELSE UNCHANGED <<riderIndex, at>>
    BY <1>3 DEF Dispatch!Publish
  <2>2. /\ at = "choose" /\ DOMAIN riderIDs = 1 .. Len(riderIDs)
        /\ UNCHANGED <<riderIDs, near, refused, answer>>
    BY <1>3 DEF Dispatch!Publish, Enumerates
  <2> QED BY <2>1, <2>2
<1>4. CASE Dispatch!WaitForRiderResponse
  <2>1. CASE Dispatch!Answer("accepted") /\ UNCHANGED <<riderIDs, refused>>
    BY <1>4, <2>1 DEF Dispatch!WaitForRiderResponse, Dispatch!Answer
  <2>2. CASE /\ riderIDs' = Dispatch!Removed(riderIDs, riderIndex)
             /\ refused' = refused \cup {riderIDs[riderIndex]}
             /\ IF riderIDs' = << >> THEN Dispatch!Answer("allRefused")
                                     ELSE at' = "choose" /\ UNCHANGED answer
    <3>1. /\ at = "wait" /\ riderIndex \in 1 .. Len(riderIDs) /\ near # {}
          /\ answer = "none" /\ near' = near
      BY <1>4 DEF Dispatch!WaitForRiderResponse
    <3>2. riderIDs[riderIndex] \in near \ refused
      BY <3>1 DEF Enumerates
    <3>3. near' \ refused' = (near \ refused) \ {riderIDs[riderIndex]}
      BY <2>2, <3>1
    <3>4. Enumerates(riderIDs', near' \ refused')
      BY <2>2, <3>1, <3>3, RemovedEnumerates
    <3>5. CASE riderIDs' = << >>
      <4>1. near' \ refused' = {}
        BY <3>4, <3>5 DEF Enumerates
      <4>2. refused' = near'
        BY <2>2, <3>1, <3>2, <4>1
      <4> QED BY <2>2, <3>1, <3>4, <3>5, <4>2 DEF Dispatch!Answer
    <3>6. CASE riderIDs' # << >>
      BY <2>2, <3>1, <3>2, <3>4, <3>6
    <3> QED BY <3>5, <3>6
  <2> QED BY <1>4, <2>1, <2>2 DEF Dispatch!WaitForRiderResponse
<1>5. CASE Dispatch!RedisGoesOrComes
  BY <1>5 DEF Dispatch!RedisGoesOrComes
<1>6. CASE UNCHANGED Dispatch!vars
  BY <1>6 DEF Dispatch!vars
<1> QED BY <1>1, <1>2, <1>3, <1>4, <1>5, <1>6 DEF Dispatch!Next

(* NobodySkipped for any riders: at every turn the list holds exactly those *)
(* in reach who have not refused, each once, and all have refused when the  *)
(* answer says so.                                                          *)
THEOREM DispatchSkipsNobody == Spec => []NobodySkipped
<1>1. Init => DispatchInv
  BY DispatchInit DEF Init
<1>2. DispatchInv /\ [Next]_vars => DispatchInv'
  <2> SUFFICES ASSUME DispatchInv, [Next]_vars PROVE DispatchInv'
    OBVIOUS
  <2>1. CASE Dispatch!Next
    BY <2>1, DispatchStep, ProgramsAssumption
  <2>2. CASE UNCHANGED dispatchVars
    BY <2>2, DispatchStep, ProgramsAssumption DEF dispatchVars, Dispatch!vars
  <2> QED BY <2>1, <2>2 DEF Next, vars, goAndPython
<1>3. DispatchInv => NobodySkipped
  <2> SUFFICES ASSUME DispatchInv PROVE NobodySkipped
    OBVIOUS
  <2>1. Enumerates(riderIDs, near \ refused)
    BY DEF DispatchInv
  <2>2. /\ Dispatch!ToSet(riderIDs) = near \ refused
        /\ Len(riderIDs) = Cardinality(near \ refused)
    BY <2>1, EnumerationLength
  <2>3. answer = "accepted" => riderIDs[riderIndex] \notin refused
    BY <2>1 DEF DispatchInv, Enumerates
  <2> QED BY <2>2, <2>3, SameCardinality DEF NobodySkipped, Dispatch!NobodySkipped, DispatchInv
<1> QED BY <1>1, <1>2, <1>3, PTL DEF Spec

(***************************************************************************)
(* The ring buffer                                                         *)
(***************************************************************************)

(* Division with remainder, and that quotient and remainder are unique.    *)
LEMMA Division ==
  ASSUME NEW n \in Nat \ {0}, NEW x \in Int
  PROVE  /\ x = n * (x \div n) + (x % n)
         /\ x \div n \in Int /\ (x % n) \in 0 .. n - 1
OBVIOUS

(* Quotient and remainder are unique. *)
LEMMA DivisionUnique ==
  ASSUME NEW n \in Nat \ {0}, NEW q \in Int, NEW s \in Int,
         NEW r \in 0 .. n - 1, NEW t \in 0 .. n - 1, n * q + r = n * s + t
  PROVE  q = s /\ r = t
<1>1. n * (q - s) = t - r
  OBVIOUS
<1>2. q - s < 1 /\ s - q < 1
  BY <1>1
<1>3. q = s
  BY <1>2
<1> QED BY <1>1, <1>3

(* What the remainder of a number is, given one way to divide it. *)
LEMMA RemainderIs ==
  ASSUME NEW n \in Nat \ {0}, NEW x \in Int, NEW q \in Int,
         NEW r \in 0 .. n - 1, x = n * q + r
  PROVE  (x % n) = r
BY Division, DivisionUnique

(* Going on by k from a remainder, or from the number, comes to the same.  *)
LEMMA RemainderForward ==
  ASSUME NEW n \in Nat \ {0}, NEW x \in Int, NEW k \in Int
  PROVE  (((x % n) + k) % n) = ((x + k) % n)
<1> DEFINE y == (x % n) + k
           q == y \div n
           r == y % n
           a == x \div n
           b == x % n
<1>1. y = n * q + r /\ q \in Int /\ r \in 0 .. n - 1 /\ y \in Int
  BY Division
<1>2. x = n * a + b /\ a \in Int /\ b \in 0 .. n - 1 /\ y = b + k
  BY Division
<1> HIDE DEF y, q, r, a, b
<1>3. x + k = n * (q + a) + r
  BY <1>1, <1>2
<1>4. q + a \in Int /\ x + k \in Int
  BY <1>1, <1>2
<1>5. ((x + k) % n) = r
  BY <1>1, <1>3, <1>4, RemainderIs
<1> QED BY <1>5 DEF r, y

(* Closer than n apart, different numbers have different remainders, and   *)
(* the distance can be had from the remainders.                            *)
LEMMA RemainderDistance ==
  ASSUME NEW n \in Nat \ {0}, NEW x \in Int, NEW k \in 0 .. n - 1
  PROVE  ((((x + k) % n) - (x % n) + n) % n) = k
<1> DEFINE q == (x + k) \div n
           s == x \div n
           r == (x + k) % n
           t == x % n
<1>1. /\ x + k = n * q + r /\ x = n * s + t
      /\ q \in Int /\ s \in Int /\ r \in 0 .. n - 1 /\ t \in 0 .. n - 1
  <2>1. x + k \in Int
    OBVIOUS
  <2> QED BY <2>1, Division
<1> HIDE DEF q, s, r, t
<1>2. r - t + n = n * (s - q + 1) + k
  BY <1>1
<1>3. r - t + n \in Int /\ s - q + 1 \in Int
  BY <1>1
<1>4. ((r - t + n) % n) = k
  BY <1>2, <1>3, RemainderIs
<1> QED BY <1>4 DEF r, t

(* Numbers less than one ring apart have different cells. *)
LEMMA RemaindersDiffer ==
  ASSUME NEW n \in Nat \ {0}, NEW x \in Int, NEW y \in Int,
         x < y, y < x + n
  PROVE  (x % n) # (y % n)
<1> SUFFICES ASSUME (x % n) = (y % n) PROVE FALSE
  OBVIOUS
<1> DEFINE a == x \div n
           b == y \div n
           r == x % n
<1>1. x = n * a + r /\ y = n * b + r /\ a \in Int /\ b \in Int /\ r \in 0 .. n - 1
  BY Division
<1> HIDE DEF a, b, r
<1>2. n * (b - a) = y - x
  BY <1>1
<1>3. b - a > 0 /\ b - a < 1
  BY <1>1, <1>2
<1> QED BY <1>1, <1>3

-----------------------------------------------------------------------------
(* The ring buffer.  Message i begins at byte position[i] of everything    *)
(* that was ever written; byte x is kept in Cell(x).                       *)
Cell(x) == x % RINGBUFFER_SIZE

(* A message under way is not published yet. *)
Published == Len(sent) - (IF writer.pc = "copy" THEN 1 ELSE 0)

(* How many bytes of message i are in the ring. *)
Stored(i) == IF writer.pc = "copy" /\ i = Len(sent) THEN writer.copied ELSE sent[i]

(* What byte x of message i has to be, the message beginning at p. *)
Content(p, i, x) ==
  <<i, IF x < p + DataHeader THEN 0 ELSE x - p - DataHeader + 1>>

RingTypes ==
  /\ buffer \in [Ring!Cells -> Nat \X Nat]
  /\ sent \in Seq(1 .. MaxLength)
  /\ writer \in [pc : {"idle", "copy"}, head : Nat, copied : Nat]
  /\ reader \in [pc : {"idle", "copy"}, tail : Nat, size : Nat,
                 data : Seq(Nat \X Nat)]
  /\ received \in Nat

(* The messages follow one another, a header before each. *)
Positions(position) ==
  /\ \A i \in Nat : position[i] \in Nat
  /\ \A i \in 1 .. Len(sent) : position[i + 1] = position[i] + DataHeader + sent[i]
  /\ \A i, j \in 1 .. Len(sent) + 1 :
       i < j => position[i] + DataHeader + sent[i] =< position[j]

(* Head and tail stand at the next message to publish and to read, less    *)
(* than a ring apart, and a message under way leaves the ring's bounds     *)
(* alone.                                                                  *)
Ends(position) ==
  /\ received =< Published
  /\ head = Cell(position[Published + 1])
  /\ tail = Cell(position[received + 1])
  /\ position[Published + 1] < position[received + 1] + RINGBUFFER_SIZE
  /\ position[Len(sent) + 1] =< position[received + 1] + RINGBUFFER_SIZE

(* The bytes of the messages that were not read yet are in their cells,    *)
(* and their headers do not cross the end.                                 *)
Contents(position) ==
  \A i \in received + 1 .. Len(sent) :
    /\ Cell(position[i]) + DataHeader =< RINGBUFFER_SIZE
    /\ \A x \in position[i] .. position[i] + DataHeader + Stored(i) - 1 :
         buffer[Cell(x)] = Content(position[i], i, x)

WriterRight(position) ==
  writer.pc = "copy" =>
    /\ Len(sent) > 0 /\ writer.copied =< sent[Len(sent)]
    /\ writer.head = Cell(position[Len(sent)] + DataHeader + writer.copied)

ReaderRight(position) ==
  reader.pc = "copy" =>
    /\ received < Published
    /\ reader.size = sent[received + 1]
    /\ Len(reader.data) =< reader.size
    /\ reader.tail = Cell(position[received + 1] + DataHeader + Len(reader.data))
    /\ reader.data = [k \in 1 .. Len(reader.data) |-> <<received + 1, k>>]

Layout(position) ==
  /\ RingTypes /\ Positions(position) /\ Ends(position) /\ Contents(position)
  /\ WriterRight(position) /\ ReaderRight(position) /\ whole

(* The inductive invariant: as long as nothing was overwritten, there are  *)
(* positions at which the messages lie.                                    *)
RingInv == mishap \/ \E position : Layout(position)

(* What the assumptions say of the ring.                                   *)
LEMMA RingConstants ==
  /\ RINGBUFFER_SIZE \in Nat \ {0} /\ DataHeader \in Nat \ {0}
  /\ MaxLength \in Nat \ {0} /\ RINGBUFFER_SIZE > DataHeader + MaxLength
BY ProgramsAssumption DEF Ring!RingAssumption

(* A cell stands for a byte's place; going forward from it is going        *)
(* forward in what was written, and does not wrap before the end.          *)
LEMMA CellType ==
  ASSUME NEW x \in Nat
  PROVE  Cell(x) \in Ring!Cells /\ Cell(x) \in Nat /\ Cell(x) < RINGBUFFER_SIZE
BY RingConstants, Division DEF Cell, Ring!Cells

(* The pointer that goes forward from a byte's cell, around the end of the *)
(* ring, is at the cell of the byte it has come to.                        *)
LEMMA CellForward ==
  ASSUME NEW x \in Nat, NEW k \in Nat
  PROVE  Ring!Forward(Cell(x), k) = Cell(x + k)
<1>1. x \in Int /\ k \in Int /\ RINGBUFFER_SIZE \in Nat \ {0}
  BY RingConstants
<1>2. (((x % RINGBUFFER_SIZE) + k) % RINGBUFFER_SIZE) = ((x + k) % RINGBUFFER_SIZE)
  BY <1>1, RemainderForward
<1> QED BY <1>2 DEF Cell, Ring!Forward

(* Short of the end of the ring the cells of the bytes follow one another. *)
LEMMA CellAhead ==
  ASSUME NEW x \in Nat, NEW k \in Nat, Cell(x) + k < RINGBUFFER_SIZE
  PROVE  Cell(x + k) = Cell(x) + k
<1> DEFINE y == Cell(x) + k
<1>1. /\ RINGBUFFER_SIZE \in Nat \ {0} /\ y \in Int
      /\ y \in 0 .. RINGBUFFER_SIZE - 1 /\ y = RINGBUFFER_SIZE * 0 + y
  BY RingConstants, CellType
<1>2. (y % RINGBUFFER_SIZE) = y
  <2> HIDE DEF y
  <2> QED BY <1>1, RemainderIs
<1>3. Ring!Forward(Cell(x), k) = y
  BY <1>2 DEF Ring!Forward
<1> QED BY <1>3, CellForward

(* A ring further on is the same cell.                                     *)
LEMMA CellAround ==
  ASSUME NEW x \in Nat
  PROVE  Cell(x + RINGBUFFER_SIZE) = Cell(x)
<1> DEFINE q == x \div RINGBUFFER_SIZE
           r == x % RINGBUFFER_SIZE
<1>1. /\ RINGBUFFER_SIZE \in Nat \ {0} /\ x = RINGBUFFER_SIZE * q + r
      /\ q \in Int /\ r \in 0 .. RINGBUFFER_SIZE - 1
  BY RingConstants, Division
<1> HIDE DEF q, r
<1>2. /\ x + RINGBUFFER_SIZE = RINGBUFFER_SIZE * (q + 1) + r
      /\ x + RINGBUFFER_SIZE \in Int /\ q + 1 \in Int
  BY <1>1
<1>3. ((x + RINGBUFFER_SIZE) % RINGBUFFER_SIZE) = r
  BY <1>1, <1>2, RemainderIs
<1> QED BY <1>3 DEF r, Cell

(* Less than a ring apart, bytes have cells of their own.                  *)
LEMMA CellsDiffer ==
  ASSUME NEW x \in Nat, NEW y \in Nat, x < y, y < x + RINGBUFFER_SIZE
  PROVE  Cell(x) # Cell(y)
<1>1. x \in Int /\ y \in Int /\ RINGBUFFER_SIZE \in Nat \ {0}
  BY RingConstants
<1>2. (x % RINGBUFFER_SIZE) # (y % RINGBUFFER_SIZE)
  BY <1>1, RemaindersDiffer
<1> QED BY <1>2 DEF Cell

(* The facts of a layout that the steps keep needing, above all where the  *)
(* unread messages lie.                                                    *)
LEMMA LayoutBounds ==
  ASSUME NEW position, Layout(position)
  PROVE  /\ Len(sent) \in Nat /\ received \in Nat /\ Published \in Nat
         /\ Published =< Len(sent)
         /\ \A i \in 1 .. Len(sent) : sent[i] \in 1 .. MaxLength
         /\ \A i \in Nat : position[i] \in Nat
         /\ received =< Published
         /\ position[received + 1] =< position[Published + 1]
         /\ \A i \in received + 1 .. Len(sent) :
              /\ i \in 1 .. Len(sent) /\ position[received + 1] =< position[i]
              /\ position[i] + DataHeader + sent[i] =< position[Len(sent) + 1]
              /\ Stored(i) \in Nat /\ Stored(i) =< sent[i]
<1>1. /\ sent \in Seq(1 .. MaxLength) /\ received \in Nat /\ writer.copied \in Nat
      /\ Positions(position) /\ WriterRight(position)
  BY DEF Layout, RingTypes
<1>2. Len(sent) \in Nat /\ \A i \in 1 .. Len(sent) : sent[i] \in 1 .. MaxLength
  BY <1>1, RingConstants
<1>3. Published \in Nat /\ Published =< Len(sent)
  BY <1>1, <1>2 DEF WriterRight, Published
<1>4. /\ \A i \in Nat : position[i] \in Nat
      /\ \A i, j \in 1 .. Len(sent) + 1 :
           i < j => position[i] + DataHeader + sent[i] =< position[j]
  BY <1>1 DEF Positions
<1>5. ASSUME NEW i \in received + 1 .. Len(sent)
      PROVE  /\ i \in 1 .. Len(sent) /\ position[received + 1] =< position[i]
             /\ position[i] + DataHeader + sent[i] =< position[Len(sent) + 1]
             /\ Stored(i) \in Nat /\ Stored(i) =< sent[i]
  <2>1. /\ i \in 1 .. Len(sent) /\ i \in Nat /\ received + 1 \in 1 .. Len(sent)
        /\ i \in 1 .. Len(sent) + 1 /\ received + 1 \in 1 .. Len(sent) + 1
        /\ Len(sent) + 1 \in 1 .. Len(sent) + 1 /\ i < Len(sent) + 1
    BY <1>1, <1>2
  <2>2. position[i] + DataHeader + sent[i] =< position[Len(sent) + 1]
    BY <1>4, <2>1
  <2>3. /\ sent[i] \in Nat /\ sent[received + 1] \in Nat
        /\ position[i] \in Nat /\ position[received + 1] \in Nat
    BY <1>2, <1>4, <2>1
  <2>4. position[received + 1] =< position[i]
    <3>1. CASE i = received + 1
      BY <2>3, <3>1
    <3>2. CASE received + 1 < i
      <4>1. position[received + 1] + DataHeader + sent[received + 1] =< position[i]
        BY <1>4, <2>1, <3>2
      <4> QED BY <2>3, <4>1, RingConstants
    <3> QED BY <1>1, <2>1, <3>1, <3>2
  <2>5. Stored(i) \in Nat /\ Stored(i) =< sent[i]
    BY <1>1, <2>1, <2>3 DEF Stored, WriterRight
  <2> QED BY <2>1, <2>2, <2>4, <2>5
<1>6. received =< Published
  BY DEF Layout, Ends
<1>7. position[received + 1] =< position[Published + 1]
  <2>1. CASE received = Published
    BY <1>1, <1>4, <2>1
  <2>2. CASE received < Published /\ Published < Len(sent)
    <3>1. Published + 1 \in received + 1 .. Len(sent)
      BY <1>1, <1>2, <1>3, <2>2
    <3> QED BY <1>5, <3>1
  <2>3. CASE received < Published /\ Published = Len(sent)
    <3>1. received + 1 \in received + 1 .. Len(sent) /\ received + 1 \in Nat /\ Len(sent) + 1 \in Nat
      BY <1>1, <1>2, <2>3
    <3>2. /\ position[received + 1] + DataHeader + sent[received + 1] =< position[Published + 1]
          /\ sent[received + 1] \in Nat /\ position[received + 1] \in Nat
          /\ position[Published + 1] \in Nat
      BY <1>2, <1>4, <1>5, <2>3, <3>1
    <3> QED BY <3>2, RingConstants
  <2> QED BY <1>1, <1>2, <1>3, <1>6, <2>1, <2>2, <2>3
<1> QED BY <1>1, <1>2, <1>3, <1>4, <1>5, <1>6, <1>7

(* Before the first message any positions that begin with 0 will do.       *)
LEMMA RingInit == Ring!Init => RingInv
<1> SUFFICES ASSUME Ring!Init PROVE RingInv
  OBVIOUS
<1> DEFINE position == [i \in Nat |-> 0]
<1>1. position[1] = 0 /\ \A i \in Nat : position[i] \in Nat
  OBVIOUS
<1>2. sent = <<>> /\ Len(sent) = 0 /\ received = 0 /\ whole
  BY DEF Ring!Init
<1>3. writer = Ring!NoWrite /\ reader = Ring!NoRead /\ head = 0 /\ tail = 0
  BY DEF Ring!Init
<1>4. RingTypes
  BY <1>2, <1>3, RingConstants
  DEF Ring!Init, RingTypes, Ring!NoWrite, Ring!NoRead, Ring!Free
<1>5. Cell(0) = 0
  BY RingConstants DEF Cell
<1> HIDE DEF position
<1>6. Positions(position) /\ Ends(position) /\ Contents(position)
  BY <1>1, <1>2, <1>3, <1>5, RingConstants
  DEF Positions, Ends, Contents, Published, Ring!NoWrite
<1>7. WriterRight(position) /\ ReaderRight(position)
  BY <1>3 DEF WriterRight, ReaderRight, Ring!NoWrite, Ring!NoRead
<1> QED BY <1>1, <1>2, <1>4, <1>6, <1>7 DEF RingInv, Layout

(* A message that fits is laid out behind the others; its header has cells *)
(* that no unread byte is in.                                              *)
LEMMA RingBeginWrite ==
  ASSUME NEW position, Layout(position), ~mishap',
         NEW length \in 1 .. MaxLength, Ring!BeginWrite(length)
  PROVE  RingInv'
<1> DEFINE n   == Len(sent) + 1
           r   == received + 1
           end == position[n] + DataHeader + length
<1>17. PICK new : new = [i \in Nat |-> IF i = n + 1 THEN end ELSE position[i]]
  OBVIOUS
<1>1. /\ writer.pc = "idle" /\ length =< Ring!SpaceAvailable(head, tail)
      /\ sent' = Append(sent, length)
      /\ buffer' = [c \in Ring!Cells |-> IF c \in head .. head + DataHeader - 1
                                         THEN <<n, 0>> ELSE buffer[c]]
      /\ head + DataHeader =< RINGBUFFER_SIZE
      /\ writer' = [pc |-> "copy", head |-> Ring!Forward(head, DataHeader), copied |-> 0]
      /\ UNCHANGED <<head, tail, reader, received, whole>>
  <2>1. ~(head + DataHeader > RINGBUFFER_SIZE)
    BY DEF Ring!BeginWrite
  <2>2. head \in Nat
    <3>1. Published + 1 \in Nat /\ position[Published + 1] \in Nat
      BY LayoutBounds
    <3>2. head = Cell(position[Published + 1])
      BY DEF Layout, Ends
    <3> QED BY <3>1, <3>2, CellType
  <2> QED BY <2>1, <2>2, RingConstants DEF Ring!BeginWrite
<1>2. /\ Len(sent) \in Nat /\ received \in Nat /\ n \in Nat /\ r \in 1 .. n
      /\ n = Len(sent) + 1 /\ r = received + 1
      /\ Published = Len(sent) /\ received =< Len(sent)
      /\ \A i \in 1 .. Len(sent) : sent[i] \in 1 .. MaxLength
      /\ \A i \in Nat : position[i] \in Nat
  BY <1>1, LayoutBounds DEF Published
<1>3. /\ head = Cell(position[n]) /\ tail = Cell(position[r])
      /\ position[r] =< position[n] /\ position[n] < position[r] + RINGBUFFER_SIZE
  BY <1>1, <1>2, LayoutBounds DEF Layout, Ends
<1>4. position[n] \in Nat /\ position[r] \in Nat /\ length \in Nat /\ end \in Nat
  BY <1>2, RingConstants
<1>5. end =< position[r] + RINGBUFFER_SIZE
  <2> DEFINE d == position[n] - position[r]
             t == position[r]
  <2>1. d \in 0 .. RINGBUFFER_SIZE - 1 /\ position[n] = t + d /\ t \in Int
    BY <1>3, <1>4, RingConstants
  <2>2. ((head - tail + RINGBUFFER_SIZE) % RINGBUFFER_SIZE) = d
    <3>1. ((((t + d) % RINGBUFFER_SIZE) - (t % RINGBUFFER_SIZE) + RINGBUFFER_SIZE)
            % RINGBUFFER_SIZE) = d
      <4> HIDE DEF t, d
      <4> QED BY <2>1, RemainderDistance, RingConstants
    <3> QED BY <1>3, <2>1, <3>1 DEF Cell
  <2>3. length =< RINGBUFFER_SIZE - d - DataHeader
    BY <1>1, <2>2 DEF Ring!SpaceAvailable
  <2> QED BY <1>4, <2>1, <2>3, RingConstants
<1>6. /\ sent' \in Seq(1 .. MaxLength) /\ Len(sent') = n
      /\ sent'[n] = length /\ \A i \in 1 .. Len(sent) : sent'[i] = sent[i]
  <2>1. sent \in Seq(1 .. MaxLength)
    BY DEF Layout, RingTypes
  <2> QED BY <1>1, <2>1
<1>7. /\ new[n + 1] = end /\ \A i \in 1 .. n : new[i] = position[i]
      /\ \A i \in Nat : new[i] \in Nat
  BY <1>2, <1>4, <1>17
<1>8. Published' = Len(sent)
  BY <1>1, <1>2, <1>6 DEF Published
<1>16. end = position[n] + DataHeader + length
  OBVIOUS
<1> HIDE DEF end, n, r
<1>9. Positions(new)'
  <2>2. ASSUME NEW i \in 1 .. n
        PROVE  new[i + 1] = new[i] + DataHeader + sent'[i]
    <3>1. CASE i = n
      BY <1>2, <1>6, <1>7, <3>1, <1>16
    <3>2. CASE i # n
      <4>1. i \in 1 .. Len(sent) /\ i \in 1 .. n /\ i + 1 \in 1 .. n
        BY <1>2, <3>2
      <4>2. position[i + 1] = position[i] + DataHeader + sent[i]
        BY <4>1 DEF Layout, Positions
      <4> QED BY <1>6, <1>7, <4>1, <4>2
    <3> QED BY <3>1, <3>2
  <2>3. ASSUME NEW i \in 1 .. n + 1, NEW j \in 1 .. n + 1, i < j
        PROVE  new[i] + DataHeader + sent'[i] =< new[j]
    <3>1. CASE j =< n
      <4>1. i \in 1 .. Len(sent) /\ i \in 1 .. n /\ j \in 1 .. n /\ j \in 1 .. Len(sent) + 1
            /\ i \in 1 .. Len(sent) + 1
        BY <1>2, <2>3, <3>1
      <4>2. position[i] + DataHeader + sent[i] =< position[j]
        BY <2>3, <4>1 DEF Layout, Positions
      <4> QED BY <1>6, <1>7, <4>1, <4>2
    <3>2. CASE j = n + 1 /\ i = n
      <4>1. n \in 1 .. n
        BY <1>2
      <4> QED BY <1>6, <1>7, <1>16, <3>2, <4>1
    <3>3. CASE j = n + 1 /\ i < n
      <4>1. i \in 1 .. Len(sent) /\ i \in 1 .. n /\ n \in 1 .. Len(sent) + 1
            /\ i \in 1 .. Len(sent) + 1 /\ i \in Nat
        BY <1>2, <3>3
      <4>2. position[i] + DataHeader + sent[i] =< position[n]
        BY <3>3, <4>1 DEF Layout, Positions
      <4>3. position[i] \in Nat /\ sent[i] \in Nat /\ position[n] =< end
        <5>1. DataHeader \in Nat /\ position[n] \in Nat /\ length \in Nat
          BY <1>4, RingConstants
        <5>2. position[n] =< end
          BY <1>16, <5>1, SMTT(30)
        <5>3. sent[i] \in Nat
          BY <1>2, <4>1
        <5> QED BY <1>2, <4>1, <5>2, <5>3
      <4>4. position[i] + DataHeader + sent[i] =< end
        BY <1>4, <4>2, <4>3, RingConstants, SMTT(30)
      <4>5. new[i] = position[i] /\ sent'[i] = sent[i] /\ new[j] = end
        BY <1>6, <1>7, <3>3, <4>1
      <4> QED BY <4>4, <4>5
    <3> QED BY <1>2, <2>3, <3>1, <3>2, <3>3
  <2>4. /\ \A i \in 1 .. Len(sent') : new[i + 1] = new[i] + DataHeader + sent'[i]
        /\ \A i, j \in 1 .. Len(sent') + 1 :
             i < j => new[i] + DataHeader + sent'[i] =< new[j]
    BY <1>6, <2>2, <2>3
  <2>5. \A i \in Nat : new[i] \in Nat
    BY <1>7
  <2> QED BY <2>4, <2>5 DEF Positions
<1>10. Ends(new)'
  <2>1. n \in 1 .. n /\ r \in 1 .. n /\ received' = received /\ head' = head /\ tail' = tail
    BY <1>1, <1>2
  <2>2. new[n] = position[n] /\ new[r] = position[r]
    BY <1>7, <2>1
  <2>3. received' =< Published' /\ Published' + 1 = n /\ received' + 1 = r
    BY <1>2, <1>8, <2>1
  <2>4. head' = Cell(new[n]) /\ tail' = Cell(new[r]) /\ new[n] < new[r] + RINGBUFFER_SIZE
    BY <1>3, <2>1, <2>2
  <2>5. new[Len(sent') + 1] =< new[r] + RINGBUFFER_SIZE
    BY <1>5, <1>6, <1>7, <2>2
  <2> QED BY <2>3, <2>4, <2>5 DEF Ends
<1>11. Contents(new)'
  <2> SUFFICES ASSUME NEW i \in r .. n
               PROVE  /\ Cell(new[i]) + DataHeader =< RINGBUFFER_SIZE
                      /\ \A x \in new[i] .. new[i] + DataHeader + Stored(i)' - 1 :
                           buffer'[Cell(x)] = Content(new[i], i, x)
    <3>1. received' + 1 = r /\ Len(sent') = n
      BY <1>1, <1>2, <1>6
    <3> QED BY <3>1 DEF Contents
  <2>1. CASE i = n
    <3>1. new[i] = position[n] /\ Cell(new[i]) = head
      BY <1>2, <1>3, <1>7, <2>1
    <3>2. Stored(i)' = 0
      BY <1>1, <1>6, <2>1 DEF Stored
    <3>3. ASSUME NEW x \in position[n] .. position[n] + DataHeader - 1
          PROVE  buffer'[Cell(x)] = <<n, 0>> /\ x < position[n] + DataHeader
      <4> DEFINE k == x - position[n]
      <4>1. k \in Nat /\ k < DataHeader /\ position[n] + k = x /\ head \in Nat
        BY <1>3, <1>4, CellType, RingConstants
      <4>2. head + k < RINGBUFFER_SIZE
        BY <1>1, <4>1, RingConstants
      <4>3. Cell(x) = head + k
        BY <1>3, <1>4, <4>1, <4>2, CellAhead
      <4>4. Cell(x) \in Ring!Cells /\ Cell(x) \in head .. head + DataHeader - 1
        BY <4>1, <4>2, <4>3, RingConstants DEF Ring!Cells
      <4> QED BY <1>1, <1>4, <4>1, <4>4, RingConstants
    <3>4. new[i] + DataHeader + Stored(i)' - 1 = position[n] + DataHeader - 1
      BY <1>4, <3>1, <3>2, RingConstants
    <3> QED BY <1>1, <2>1, <3>1, <3>3, <3>4 DEF Content
  <2>2. CASE i # n
    <3>1. /\ i \in received + 1 .. Len(sent) /\ i \in 1 .. n /\ i \in Nat
          /\ new[i] = position[i]
      BY <1>2, <1>7, <2>2
    <3>2. /\ Stored(i)' = sent[i] /\ Stored(i) = sent[i] /\ i \in 1 .. Len(sent)
      BY <1>1, <1>6, <2>2, <3>1, LayoutBounds DEF Stored
    <3>3. /\ Cell(position[i]) + DataHeader =< RINGBUFFER_SIZE
          /\ \A x \in position[i] .. position[i] + DataHeader + sent[i] - 1 :
               buffer[Cell(x)] = Content(position[i], i, x)
      BY <3>1, <3>2 DEF Layout, Contents
    <3>4. ASSUME NEW x \in position[i] .. position[i] + DataHeader + sent[i] - 1
          PROVE  buffer'[Cell(x)] = buffer[Cell(x)]
      <4>1. /\ position[r] =< position[i] /\ position[i] + DataHeader + sent[i] =< position[n]
            /\ position[i] \in Nat /\ sent[i] \in Nat
        BY <1>2, <3>1, <3>2, LayoutBounds
      <4>2. x \in Nat /\ position[r] =< x /\ x < position[n]
        BY <1>4, <4>1, RingConstants
      <4>3. Cell(x) \in Ring!Cells
        BY <4>2, CellType
      <4>4. ASSUME Cell(x) \in head .. head + DataHeader - 1 PROVE FALSE
        <5> DEFINE k == Cell(x) - head
        <5>1. head \in Nat /\ Cell(x) \in Nat
          BY <1>3, <1>4, <4>2, CellType
        <5>2. k \in Nat /\ k < DataHeader /\ head + k = Cell(x)
          BY <4>4, <5>1, RingConstants
        <5> HIDE DEF k
        <5>3. head + k < RINGBUFFER_SIZE
          <6>1. Cell(x) \in 0 .. RINGBUFFER_SIZE - 1
            BY <4>3 DEF Ring!Cells
          <6> QED BY <5>2, <6>1, RingConstants
        <5>4. Cell(position[n] + k) = Cell(x)
          BY <1>3, <1>4, <5>2, <5>3, CellAhead
        <5>5. position[n] + k \in Nat /\ x < position[n] + k
              /\ position[n] + k < x + RINGBUFFER_SIZE
          BY <1>4, <1>5, <4>2, <5>2, RingConstants, <1>16
        <5> QED BY <4>2, <5>4, <5>5, CellsDiffer
      <4> QED BY <1>1, <4>3, <4>4
    <3> QED BY <3>1, <3>2, <3>3, <3>4
  <2> QED BY <2>1, <2>2
<1>12. WriterRight(new)'
  <2>1. new[n] = position[n] /\ position[n] + DataHeader + 0 = position[n] + DataHeader
    <3>1. n \in 1 .. n
      BY <1>2
    <3> QED BY <1>4, <1>7, <3>1, RingConstants
  <2>2. Ring!Forward(head, DataHeader) = Cell(position[n] + DataHeader)
    BY <1>3, <1>4, CellForward, RingConstants
  <2>3. writer'.copied = 0 /\ writer'.head = Cell(new[n] + DataHeader + 0)
    BY <1>1, <2>1, <2>2
  <2>4. n > 0 /\ 0 =< sent'[n]
    BY <1>2, <1>4, <1>6
  <2> QED BY <1>6, <2>3, <2>4 DEF WriterRight
<1>13. ReaderRight(new)'
  <2>1. new[r] = position[r] /\ reader' = reader /\ received' = received
    BY <1>1, <1>2, <1>7
  <2>2. ASSUME received < Len(sent) PROVE sent'[r] = sent[r]
    BY <1>2, <1>6, <2>2
  <2> SUFFICES ASSUME reader.pc = "copy"
               PROVE  /\ received < Len(sent) /\ reader.size = sent'[r]
                      /\ Len(reader.data) =< reader.size
                      /\ reader.tail = Cell(new[r] + DataHeader + Len(reader.data))
                      /\ reader.data = [k \in 1 .. Len(reader.data) |-> <<r, k>>]
    BY <1>2, <1>8, <2>1 DEF ReaderRight
  <2> QED BY <1>2, <2>1, <2>2 DEF Layout, ReaderRight
<1>14. RingTypes'
  <2>1. buffer' \in [Ring!Cells -> Nat \X Nat]
    BY <1>1, <1>2 DEF Layout, RingTypes
  <2>2. Ring!Forward(head, DataHeader) \in Nat
    <3>1. position[n] + DataHeader \in Nat /\ DataHeader \in Nat
      BY <1>4, RingConstants
    <3>2. Ring!Forward(head, DataHeader) = Cell(position[n] + DataHeader)
      BY <1>3, <1>4, <3>1, CellForward
    <3> QED BY <3>1, <3>2, CellType
  <2>3. writer' \in [pc : {"idle", "copy"}, head : Nat, copied : Nat]
    BY <1>1, <2>2
  <2> QED BY <1>1, <1>6, <2>1, <2>3 DEF Layout, RingTypes
<1>15. Layout(new)'
  BY <1>1, <1>9, <1>10, <1>11, <1>12, <1>13, <1>14 DEF Layout
<1> QED BY <1>15 DEF RingInv

(* A byte is put behind those of the message under way, in a cell that no  *)
(* unread byte is in.                                                      *)
LEMMA RingWriteByte ==
  ASSUME NEW position, Layout(position), Ring!WriteByte
  PROVE  Layout(position)'
<1>1. PICK n, r, m, p, q, c :
        /\ n = Len(sent) /\ r = received + 1 /\ m = position[n]
        /\ p = m + DataHeader /\ q = p + c /\ c = writer.copied
  OBVIOUS
<1>2. /\ writer.pc = "copy" /\ writer.copied < sent[n]
      /\ buffer' = [buffer EXCEPT ![writer.head] = <<n, c + 1>>]
      /\ writer' = [writer EXCEPT !.head = Ring!Forward(@, 1), !.copied = @ + 1]
      /\ UNCHANGED <<head, tail, sent, reader, received, whole>>
  BY <1>1 DEF Ring!WriteByte
<1>3. /\ writer \in [pc : {"idle", "copy"}, head : Nat, copied : Nat]
      /\ buffer \in [Ring!Cells -> Nat \X Nat] /\ n > 0 /\ writer.head = Cell(q)
      /\ c \in Nat /\ c < sent[n]
  BY <1>1, <1>2 DEF Layout, RingTypes, WriterRight
<1>4. /\ n \in Nat /\ received \in Nat /\ Published = n - 1 /\ n \in 1 .. n
      /\ n \in r .. n /\ r \in Nat /\ sent[n] \in Nat
      /\ \A i \in Nat : position[i] \in Nat
  <2>1. /\ Len(sent) \in Nat /\ received \in Nat /\ received =< Published
        /\ \A i \in 1 .. Len(sent) : sent[i] \in 1 .. MaxLength
        /\ \A i \in Nat : position[i] \in Nat
    BY LayoutBounds
  <2>2. Published = n - 1
    BY <1>1, <1>2 DEF Published
  <2>3. n \in Nat /\ n \in 1 .. n /\ r \in Nat /\ n \in r .. n
    BY <1>1, <1>3, <2>1, <2>2
  <2>4. sent[n] \in 1 .. MaxLength
    BY <1>1, <2>1, <2>3
  <2> QED BY <2>1, <2>2, <2>3, <2>4
<1>5. /\ m \in Nat /\ p \in Nat /\ q \in Nat /\ q + 1 \in Nat
      /\ p = m + DataHeader /\ q = p + c /\ Cell(q) \in Ring!Cells
  <2>1. m \in Nat
    BY <1>1, <1>4
  <2>2. p \in Nat /\ q \in Nat
    <3>1. DataHeader \in Nat /\ c \in Nat /\ p = m + DataHeader /\ q = p + c
      BY <1>1, <1>3, RingConstants
    <3>2. p \in Nat
      BY <2>1, <3>1, SMTT(30)
    <3> QED BY <3>1, <3>2, SMTT(30)
  <2>3. q + 1 \in Nat /\ Cell(q) \in Ring!Cells
    BY <2>2, CellType
  <2> QED BY <1>1, <2>1, <2>2, <2>3
<1>6. /\ writer'.pc = "copy" /\ writer'.copied = c + 1
      /\ writer'.head = Cell(q + 1) /\ Cell(q + 1) \in Nat
      /\ writer' \in [pc : {"idle", "copy"}, head : Nat, copied : Nat]
  <2>1. Ring!Forward(Cell(q), 1) = Cell(q + 1) /\ Cell(q + 1) \in Nat
    BY <1>5, 1 \in Nat, CellForward, CellType
  <2>2. c + 1 \in Nat
    BY <1>3
  <2>3. writer' = [writer EXCEPT !.head = Cell(q + 1), !.copied = c + 1]
    BY <1>1, <1>2, <1>3, <2>1
  <2> QED BY <1>2, <1>3, <2>1, <2>2, <2>3
<1>7. Published' = Published /\ received' = received /\ sent' = sent
  BY <1>2, <1>6 DEF Published
<1>8. \A i \in r .. n : Stored(i)' = IF i = n THEN c + 1 ELSE Stored(i)
  BY <1>1, <1>2, <1>6 DEF Stored
<1>9. q < position[r] + RINGBUFFER_SIZE
  <2>1. m + DataHeader + sent[n] =< position[n + 1]
    BY <1>1, <1>4, LayoutBounds
  <2>2. position[n + 1] =< position[r] + RINGBUFFER_SIZE
    BY <1>1, <1>4 DEF Layout, Ends
  <2>3. position[n + 1] \in Nat /\ position[r] \in Nat
    BY <1>4
  <2>4. m + DataHeader + c < m + DataHeader + sent[n]
    BY <1>3, <1>4, <1>5, RingConstants
  <2> QED BY <1>3, <1>4, <1>5, <2>1, <2>2, <2>3, <2>4, RingConstants
<1>10. Contents(position)'
  <2> SUFFICES ASSUME NEW i \in r .. n
               PROVE  /\ Cell(position[i]) + DataHeader =< RINGBUFFER_SIZE
                      /\ \A x \in position[i] .. position[i] + DataHeader + Stored(i)' - 1 :
                           buffer'[Cell(x)] = Content(position[i], i, x)
    BY <1>1, <1>7 DEF Contents
  <2>1. /\ i \in received + 1 .. Len(sent) /\ i \in Nat /\ position[i] \in Nat
        /\ position[r] =< position[i] /\ position[r] \in Nat
        /\ Stored(i) \in Nat /\ Stored(i) =< sent[i] /\ sent[i] \in Nat
    BY <1>1, <1>4, LayoutBounds
  <2>2. /\ Cell(position[i]) + DataHeader =< RINGBUFFER_SIZE
        /\ \A x \in position[i] .. position[i] + DataHeader + Stored(i) - 1 :
             buffer[Cell(x)] = Content(position[i], i, x)
    BY <2>1 DEF Layout, Contents
  <2>3. position[i] + DataHeader + Stored(i) =< q
    <3>1. CASE i = n
      <4>1. Stored(i) = c /\ position[i] = m
        BY <1>1, <1>2, <3>1 DEF Stored
      <4> QED BY <1>3, <1>5, <4>1, RingConstants
    <3>2. CASE i # n
      <4>1. position[i] + DataHeader + sent[i] =< m
        <5>1. i \in 1 .. Len(sent) + 1 /\ n \in 1 .. Len(sent) + 1 /\ i < n
          BY <1>1, <1>4, <3>2
        <5> QED BY <1>1, <5>1 DEF Layout, Positions
      <4>2. m =< q
        BY <1>3, <1>5, RingConstants
      <4> QED BY <1>5, <2>1, <4>1, <4>2, RingConstants
    <3> QED BY <3>1, <3>2
  <2>4. ASSUME NEW x \in position[i] .. position[i] + DataHeader + Stored(i) - 1
        PROVE  buffer'[Cell(x)] = Content(position[i], i, x)
    <3>1. x \in Nat /\ position[i] =< x /\ x < q
      BY <1>5, <2>1, <2>3, RingConstants
    <3>4. q < x + RINGBUFFER_SIZE
      <4>1. /\ RINGBUFFER_SIZE \in Nat /\ q \in Nat
            /\ position[r] \in Nat /\ position[i] \in Nat
        BY <1>5, <2>1, RingConstants
      <4>2. position[r] =< x
        BY <2>1, <3>1, <4>1, SMTT(30)
      <4> QED BY <1>9, <3>1, <4>1, <4>2, SMTT(30)
    <3>2. Cell(x) # Cell(q) /\ Cell(x) \in Ring!Cells
      BY <1>5, <3>1, <3>4, CellsDiffer, CellType
    <3>3. buffer'[Cell(x)] = buffer[Cell(x)]
      BY <1>2, <1>3, <3>2
    <3> QED BY <2>2, <3>3
  <2>5. CASE i = n
    <3>1. /\ Stored(i) = c /\ Stored(i)' = c + 1
          /\ position[i] + DataHeader + Stored(i) = q
      BY <1>1, <1>2, <1>8, <2>5 DEF Stored
    <3>5. position[i] + DataHeader + Stored(i)' - 1 = q
      BY <1>3, <1>5, <2>1, <3>1, RingConstants
    <3>6. position[i] + DataHeader + Stored(i) - 1 = q - 1
      <4>1. m + DataHeader + c - 1 = q - 1
        BY <1>3, <1>5, RingConstants
      <4> QED BY <1>1, <2>5, <3>1, <4>1
    <3>2. \A x \in position[i] .. q : x \in position[i] .. q - 1 \/ x = q
      BY <1>5, <2>1
    <3>3. buffer'[Cell(q)] = <<n, c + 1>>
      BY <1>2, <1>3, <1>5
    <3>4. Content(position[i], i, q) = <<n, c + 1>>
      <4>1. ~(q < m + DataHeader) /\ q - m - DataHeader + 1 = c + 1
        BY <1>3, <1>5, RingConstants
      <4> QED BY <1>1, <2>5, <4>1 DEF Content
    <3> QED BY <2>2, <2>4, <2>5, <3>2, <3>3, <3>4, <3>5, <3>6
  <2>6. CASE i # n
    BY <1>8, <2>2, <2>4, <2>6
  <2> QED BY <2>5, <2>6
<1>11. WriterRight(position)'
  <2>1. /\ Len(sent') > 0 /\ writer'.copied =< sent'[Len(sent')]
        /\ q + 1 = position[Len(sent')] + DataHeader + writer'.copied
    <3>1. Len(sent') = n /\ sent'[n] = sent[n] /\ position[Len(sent')] = m
      BY <1>1, <1>2
    <3>2. c + 1 =< sent[n] /\ q + 1 = m + DataHeader + (c + 1)
      BY <1>3, <1>4, <1>5, RingConstants
    <3> QED BY <1>3, <1>6, <3>1, <3>2
  <2> QED BY <1>6, <2>1 DEF WriterRight
<1>12. RingTypes'
  <2>1. buffer' \in [Ring!Cells -> Nat \X Nat]
    BY <1>2, <1>3, <1>4, <1>5
  <2> QED BY <1>2, <1>6, <2>1 DEF Layout, RingTypes
<1>13. Positions(position)' /\ Ends(position)' /\ ReaderRight(position)' /\ whole'
  BY <1>2, <1>7 DEF Layout, Positions, Ends, ReaderRight
<1> QED BY <1>10, <1>11, <1>12, <1>13 DEF Layout

(* The message is published: what is unread is still less than a ring,     *)
(* or head would have come to tail.                                        *)
LEMMA RingEndWrite ==
  ASSUME NEW position, Layout(position), ~mishap', Ring!EndWrite
  PROVE  Layout(position)'
<1>1. PICK n, r : n = Len(sent) /\ r = received + 1
  OBVIOUS
<1>2. /\ writer.pc = "copy" /\ writer.copied = sent[n] /\ writer.head # tail
      /\ head' = writer.head /\ writer' = Ring!NoWrite
      /\ UNCHANGED <<buffer, tail, sent, reader, received, whole>>
  BY <1>1 DEF Ring!EndWrite
<1>3. /\ n \in Nat /\ n > 0 /\ received \in Nat /\ Published = n - 1
      /\ \A i \in Nat : position[i] \in Nat
      /\ n \in 1 .. Len(sent) /\ sent[n] \in Nat
  BY <1>1, <1>2, LayoutBounds DEF Layout, WriterRight, Published
<1>4. position[n + 1] = position[n] + DataHeader + sent[n]
  BY <1>1, <1>3 DEF Layout, Positions
<1>5. writer.head = Cell(position[n + 1]) /\ tail = Cell(position[r])
  BY <1>1, <1>2, <1>4 DEF Layout, WriterRight, Ends
<1>6. position[n + 1] < position[r] + RINGBUFFER_SIZE
  <2>1. /\ position[n + 1] =< position[r] + RINGBUFFER_SIZE
        /\ position[n + 1] \in Nat /\ position[r] \in Nat
    BY <1>1, <1>3 DEF Layout, Ends
  <2>2. position[n + 1] # position[r] + RINGBUFFER_SIZE
    BY <1>2, <1>5, <2>1, CellAround
  <2> QED BY <2>1, <2>2, RingConstants
<1>7. Published' = n /\ writer'.pc = "idle"
  BY <1>1, <1>2, <1>3 DEF Published, Ring!NoWrite
<1>8. Ends(position)'
  <2>1. received =< n
    BY <1>3 DEF Layout, Ends
  <2>2. Len(sent') = n /\ received' = received /\ received + 1 = r
    BY <1>1, <1>2
  <2>3. head' = Cell(position[n + 1]) /\ tail' = Cell(position[r])
    BY <1>2, <1>5
  <2>4. position[n + 1] =< position[r] + RINGBUFFER_SIZE
    BY <1>1 DEF Layout, Ends
  <2> QED BY <1>6, <1>7, <2>1, <2>2, <2>3, <2>4 DEF Ends
<1>9. ReaderRight(position)'
  <2>1. received < Published => received < n
    BY <1>3
  <2> QED BY <1>2, <1>7, <2>1 DEF Layout, ReaderRight
<1>10. Contents(position)'
  <2>1. \A i \in r .. n : Stored(i)' = Stored(i)
    BY <1>1, <1>2, <1>7 DEF Stored
  <2> QED BY <1>1, <1>2, <2>1 DEF Layout, Contents
<1>11. RingTypes' /\ WriterRight(position)' /\ Positions(position)' /\ whole'
  BY <1>2, <1>7 DEF Layout, RingTypes, WriterRight, Positions, Ring!NoWrite
<1> QED BY <1>8, <1>9, <1>10, <1>11 DEF Layout

(* What the reader finds at tail: the header of the next message, whole.   *)
LEMMA RingBeginRead ==
  ASSUME NEW position, Layout(position), Ring!BeginRead
  PROVE  Layout(position)'
<1>1. PICK r, n : r = received + 1 /\ n = Len(sent)
  OBVIOUS
<1>2. /\ head # tail \/ Ring!HeadClobbered
      /\ UNCHANGED <<buffer, head, tail, sent, writer, received, whole>>
  BY DEF Ring!BeginRead
<1>3. PICK size \in Ring!HeaderValues :
        reader' = [pc |-> "copy", tail |-> Ring!Forward(tail, DataHeader),
                   size |-> size, data |-> <<>>]
  BY DEF Ring!BeginRead
<1>4. /\ n \in Nat /\ received \in Nat /\ r \in Nat /\ received =< Published
      /\ Published \in Nat /\ Published =< n
      /\ \A i \in Nat : position[i] \in Nat
      /\ head = Cell(position[Published + 1]) /\ tail = Cell(position[r])
  BY <1>1, LayoutBounds DEF Layout, Ends
<1>5. ~Ring!HeadClobbered
  <2> SUFFICES ASSUME writer.pc = "copy"
               PROVE  ~(head + DataHeader > RINGBUFFER_SIZE)
    BY DEF Ring!HeadClobbered
  <2>1. Published + 1 = n
    BY <1>1, <1>4 DEF Published
  <2>2. n \in received + 1 .. Len(sent)
    BY <1>1, <1>4, <2>1
  <2>3. Cell(position[n]) + DataHeader =< RINGBUFFER_SIZE
    BY <2>2 DEF Layout, Contents
  <2>4. Cell(position[n]) \in Nat
    BY <1>4, CellType
  <2> QED BY <1>4, <2>1, <2>3, <2>4, RingConstants
<1>6. received < Published
  BY <1>1, <1>2, <1>4, <1>5
<1>7. r \in received + 1 .. Len(sent) /\ r \in 1 .. Len(sent) /\ r > 0
  BY <1>1, <1>4, <1>6
<1>8. PICK p : p = position[r] /\ p \in Nat /\ tail = Cell(p) /\ tail \in Nat
  BY <1>4, CellType
<1>9. /\ tail + DataHeader =< RINGBUFFER_SIZE
      /\ \A x \in p .. p + DataHeader + Stored(r) - 1 : buffer[Cell(x)] = Content(p, r, x)
      /\ Stored(r) \in Nat /\ sent[r] \in 1 .. MaxLength
  BY <1>7, <1>8, LayoutBounds DEF Layout, Contents
<1>10. \A k \in 0 .. DataHeader - 1 :
         tail + k \in Ring!Cells /\ buffer[tail + k] = <<r, 0>>
  <2> SUFFICES ASSUME NEW k \in 0 .. DataHeader - 1
               PROVE  tail + k \in Ring!Cells /\ buffer[tail + k] = <<r, 0>>
    OBVIOUS
  <2>1. k \in Nat /\ Cell(p) + k < RINGBUFFER_SIZE
    BY <1>8, <1>9, RingConstants
  <2>2. Cell(p + k) = tail + k /\ tail + k \in Ring!Cells
    BY <1>8, <2>1, CellAhead, RingConstants DEF Ring!Cells
  <2>3. p + k \in p .. p + DataHeader + Stored(r) - 1 /\ p + k < p + DataHeader
    BY <1>8, <1>9, RingConstants
  <2>4. buffer[tail + k] = Content(p, r, p + k)
    BY <1>9, <2>2, <2>3
  <2> QED BY <2>2, <2>3, <2>4 DEF Content
<1>11. size = sent[r]
  <2> DEFINE cells == {buffer[c] : c \in (tail .. tail + DataHeader - 1) \cap Ring!Cells}
  <2>1. ASSUME NEW c \in tail .. tail + DataHeader - 1 PROVE buffer[c] = <<r, 0>>
    <3>1. PICK k \in 0 .. DataHeader - 1 : c = tail + k
      <4>1. c - tail \in 0 .. DataHeader - 1 /\ c = tail + (c - tail)
        BY <1>8, RingConstants
      <4> QED BY <4>1
    <3> QED BY <1>10, <3>1
  <2>2. tail \in Ring!Cells /\ tail \in tail .. tail + DataHeader - 1
    <3>1. tail + 0 \in Ring!Cells
      BY <1>10, RingConstants
    <3> QED BY <1>8, <3>1, RingConstants
  <2>3. cells = {<<r, 0>>}
    BY <2>1, <2>2
  <2>4. buffer[tail][1] = r
    BY <2>1, <2>2
  <2> HIDE DEF cells
  <2>5. Ring!HeaderValues = {sent[r]}
    BY <1>7, <1>9, <2>3, <2>4 DEF Ring!HeaderValues, cells
  <2> QED BY <2>5
<1>12. Ring!Forward(tail, DataHeader) = Cell(p + DataHeader) /\ Cell(p + DataHeader) \in Nat
  <2>1. DataHeader \in Nat /\ p + DataHeader \in Nat
    BY <1>8, RingConstants
  <2> QED BY <1>8, <2>1, CellForward, CellType
<1>13. ReaderRight(position)'
  <2>1. Published' = Published /\ received' = received /\ sent' = sent
    BY <1>2 DEF Published
  <2>2. /\ reader'.size = sent[r] /\ reader'.data = <<>> /\ Len(reader'.data) = 0
        /\ reader'.tail = Cell(p + DataHeader)
    BY <1>3, <1>11, <1>12
  <2>3. p + DataHeader = position[r] + DataHeader + 0 /\ 0 =< sent[r]
    BY <1>8, <1>9, RingConstants
  <2>4. <<>> = [k \in 1 .. 0 |-> <<r, k>>]
    OBVIOUS
  <2> QED BY <1>1, <1>6, <2>1, <2>2, <2>3, <2>4 DEF ReaderRight
<1>14. RingTypes'
  <2>1. reader' \in [pc : {"idle", "copy"}, tail : Nat, size : Nat, data : Seq(Nat \X Nat)]
    BY <1>3, <1>9, <1>11, <1>12
  <2> QED BY <1>2, <2>1 DEF Layout, RingTypes
<1>15. /\ Positions(position)' /\ Ends(position)' /\ Contents(position)'
       /\ WriterRight(position)' /\ whole'
  BY <1>2 DEF Layout, Positions, Ends, Contents, Stored, Published, WriterRight
<1> QED BY <1>13, <1>14, <1>15 DEF Layout

(* The next byte of the message is where it was written.                   *)
LEMMA RingReadByte ==
  ASSUME NEW position, Layout(position), Ring!ReadByte
  PROVE  Layout(position)'
<1>1. PICK r, p, m, x :
        /\ r = received + 1 /\ p = position[r] /\ m = Len(reader.data)
        /\ x = p + DataHeader + m
  OBVIOUS
<1>2. /\ reader.pc = "copy" /\ m < reader.size
      /\ reader' = [reader EXCEPT !.tail = Ring!Forward(@, 1),
                                  !.data = Append(@, buffer[reader.tail])]
      /\ UNCHANGED <<buffer, head, tail, sent, writer, received, whole>>
  BY <1>1 DEF Ring!ReadByte
<1>3. /\ received < Published /\ reader.size = sent[r] /\ reader.tail = Cell(x)
      /\ reader.data = [k \in 1 .. m |-> <<r, k>>]
  BY <1>1, <1>2 DEF Layout, ReaderRight
<1>4. /\ reader \in [pc : {"idle", "copy"}, tail : Nat, size : Nat,
                     data : Seq(Nat \X Nat)]
      /\ reader.data \in Seq(Nat \X Nat) /\ m \in Nat
  BY <1>1 DEF Layout, RingTypes
<1>5. /\ Len(sent) \in Nat /\ received \in Nat /\ r \in Nat /\ Published \in Nat
      /\ Published =< Len(sent) /\ \A i \in Nat : position[i] \in Nat
  BY <1>1, LayoutBounds
<1>6. r \in received + 1 .. Len(sent) /\ p \in Nat
  BY <1>1, <1>3, <1>5
<1>7. Stored(r) = sent[r] /\ sent[r] \in Nat
  <2>1. sent[r] \in Nat
    BY <1>6, LayoutBounds
  <2>2. ~(writer.pc = "copy" /\ r = Len(sent))
    BY <1>1, <1>3, <1>5 DEF Published
  <2> QED BY <2>1, <2>2 DEF Stored
<1>8. /\ x \in Nat /\ x \in p .. p + DataHeader + Stored(r) - 1
      /\ ~(x < p + DataHeader) /\ x - p - DataHeader + 1 = m + 1
  <2>1. m < sent[r] /\ x = p + DataHeader + m /\ m \in Nat
    BY <1>1, <1>2, <1>3, <1>4
  <2> QED BY <1>6, <1>7, <2>1, RingConstants
<1>9. buffer[reader.tail] = <<r, m + 1>>
  <2>1. buffer[Cell(x)] = Content(p, r, x)
    BY <1>1, <1>6, <1>8 DEF Layout, Contents
  <2> QED BY <1>3, <1>8, <2>1 DEF Content
<1>10. reader'.data = [k \in 1 .. m + 1 |-> <<r, k>>] /\ Len(reader'.data) = m + 1
  <2>1. reader'.data = Append(reader.data, <<r, m + 1>>)
    BY <1>2, <1>4, <1>9
  <2>2. Append(reader.data, <<r, m + 1>>) = [k \in 1 .. m + 1 |-> <<r, k>>]
    BY <1>1, <1>3, <1>4
  <2>3. Len(Append(reader.data, <<r, m + 1>>)) = m + 1
    BY <1>1, <1>4
  <2> QED BY <2>1, <2>2, <2>3
<1>11. Ring!Forward(Cell(x), 1) = Cell(x + 1) /\ Cell(x + 1) \in Nat
  BY <1>8, 1 \in Nat, CellForward, CellType
<1>12. /\ reader'.pc = "copy" /\ reader'.size = reader.size
       /\ reader'.tail = Cell(x + 1)
  BY <1>2, <1>3, <1>4, <1>11
<1>13. ReaderRight(position)'
  <2>1. Published' = Published /\ received' = received /\ sent' = sent
    BY <1>2 DEF Published
  <2>2. x + 1 = position[r] + DataHeader + (m + 1)
    <3>1. x + 1 = p + DataHeader + (m + 1)
      <4>1. x = p + DataHeader + m
        BY <1>1
      <4> QED BY <1>4, <1>6, <4>1, RingConstants
    <3> QED BY <1>1, <3>1
  <2>3. m + 1 =< reader.size
    BY <1>2, <1>3, <1>4, <1>7
  <2> QED BY <1>1, <1>3, <1>10, <1>12, <2>1, <2>2, <2>3 DEF ReaderRight
<1>14. RingTypes'
  <2>1. <<r, m + 1>> \in Nat \X Nat
    BY <1>4, <1>5
  <2>2. Append(reader.data, buffer[reader.tail]) \in Seq(Nat \X Nat)
    BY <1>4, <1>9, <2>1
  <2>3. reader' \in [pc : {"idle", "copy"}, tail : Nat, size : Nat, data : Seq(Nat \X Nat)]
    BY <1>2, <1>3, <1>4, <1>11, <2>2
  <2> QED BY <1>2, <2>3 DEF Layout, RingTypes
<1>15. /\ Positions(position)' /\ Ends(position)' /\ Contents(position)'
       /\ WriterRight(position)' /\ whole'
  BY <1>2 DEF Layout, Positions, Ends, Contents, Stored, Published, WriterRight
<1> QED BY <1>13, <1>14, <1>15 DEF Layout

(* The message was the next one, and whole; tail goes to the one after it. *)
LEMMA RingEndRead ==
  ASSUME NEW position, Layout(position), Ring!EndRead
  PROVE  Layout(position)'
<1>1. PICK r, p : r = received + 1 /\ p = position[r]
  OBVIOUS
<1>2. /\ reader.pc = "copy" /\ Len(reader.data) = reader.size
      /\ tail' = reader.tail /\ received' = r /\ reader' = Ring!NoRead
      /\ UNCHANGED <<buffer, head, sent, writer>>
  BY <1>1 DEF Ring!EndRead
<1>3. /\ received < Published /\ reader.size = sent[r]
      /\ reader.tail = Cell(p + DataHeader + sent[r])
      /\ reader.data = [k \in 1 .. sent[r] |-> <<r, k>>]
  BY <1>1, <1>2 DEF Layout, ReaderRight
<1>4. /\ Len(sent) \in Nat /\ received \in Nat /\ r \in Nat /\ Published \in Nat
      /\ Published =< Len(sent) /\ \A i \in Nat : position[i] \in Nat
  BY <1>1, LayoutBounds
<1>5. /\ r \in 1 .. Len(sent) /\ r =< Published /\ received < Len(sent)
      /\ sent[r] \in Nat /\ p \in Nat
  <2>1. r \in 1 .. Len(sent) /\ r =< Published /\ received < Len(sent) /\ p \in Nat
    BY <1>1, <1>3, <1>4
  <2>2. sent[r] \in 1 .. MaxLength
    BY <2>1, LayoutBounds
  <2> QED BY <2>1, <2>2
<1>6. whole'
  BY <1>1, <1>3, <1>5 DEF Ring!EndRead, Layout
<1>7. position[r + 1] = p + DataHeader + sent[r] /\ position[r + 1] \in Nat
  BY <1>1, <1>4, <1>5 DEF Layout, Positions
<1>8. Published' = Published
  BY <1>2 DEF Published
<1>9. Ends(position)'
  <2>1. tail' = Cell(position[r + 1])
    BY <1>2, <1>3, <1>7
  <2>2. p < position[r + 1]
    BY <1>5, <1>7, RingConstants
  <2>3. /\ position[Published + 1] < p + RINGBUFFER_SIZE
        /\ position[Len(sent) + 1] =< p + RINGBUFFER_SIZE
        /\ head = Cell(position[Published + 1])
    BY <1>1 DEF Layout, Ends
  <2>4. position[Published + 1] \in Nat /\ position[Len(sent) + 1] \in Nat
    BY <1>4
  <2>5. /\ position[Published + 1] < position[r + 1] + RINGBUFFER_SIZE
        /\ position[Len(sent) + 1] =< position[r + 1] + RINGBUFFER_SIZE
    BY <1>5, <1>7, <2>2, <2>3, <2>4, RingConstants
  <2> QED BY <1>2, <1>5, <1>8, <2>1, <2>3, <2>5 DEF Ends
<1>10. Contents(position)'
  <2>1. \A i \in r + 1 .. Len(sent) : i \in received + 1 .. Len(sent)
    BY <1>1, <1>4
  <2>2. \A i \in r + 1 .. Len(sent) : Stored(i)' = Stored(i)
    BY <1>2 DEF Stored
  <2> QED BY <1>2, <2>1, <2>2 DEF Layout, Contents
<1>11. RingTypes'
  <2>1. reader' \in [pc : {"idle", "copy"}, tail : Nat, size : Nat, data : Seq(Nat \X Nat)]
    BY <1>2 DEF Ring!NoRead
  <2> QED BY <1>2, <1>4, <2>1 DEF Layout, RingTypes
<1>12. Positions(position)' /\ WriterRight(position)' /\ ReaderRight(position)'
  BY <1>2 DEF Layout, Positions, WriterRight, ReaderRight, Ring!NoRead
<1> QED BY <1>6, <1>9, <1>10, <1>11, <1>12 DEF Layout

(* Every step of the writer and of the reader keeps the layout, or is the  *)
(* mishap after which nothing is promised.                                 *)
LEMMA RingStep ==
  ASSUME RingInv, Ring!Next \/ UNCHANGED ringVars
  PROVE  RingInv'
<1>1. CASE UNCHANGED ringVars
  <2>1. CASE mishap
    BY <1>1, <2>1 DEF ringVars, RingInv
  <2>2. ASSUME NEW position, Layout(position)
        PROVE  Layout(position)'
    <3>1. (RingTypes /\ Positions(position) /\ WriterRight(position) /\ whole)'
      BY <1>1, <2>2 DEF ringVars, Layout, RingTypes, Positions, WriterRight
    <3>2. (Ends(position) /\ ReaderRight(position))'
      BY <1>1, <2>2 DEF ringVars, Layout, Ends, ReaderRight, Published
    <3>3. Contents(position)'
      BY <1>1, <2>2 DEF ringVars, Layout, Contents, Stored
    <3> QED BY <3>1, <3>2, <3>3 DEF Layout
  <2> QED BY <2>1, <2>2 DEF RingInv
<1>2. CASE Ring!Next /\ mishap'
  BY <1>2 DEF RingInv
<1>3. CASE Ring!Next /\ ~mishap'
  <2>1. ~mishap
    BY <1>3
    DEF Ring!Next, Ring!BeginWrite, Ring!WriteByte, Ring!EndWrite,
        Ring!BeginRead, Ring!ReadByte, Ring!EndRead
  <2>2. PICK position : Layout(position)
    BY <2>1 DEF RingInv
  <2>3. CASE \E length \in 1 .. MaxLength : Ring!BeginWrite(length)
    BY <1>3, <2>2, <2>3, RingBeginWrite
  <2>4. CASE Ring!WriteByte
    BY <2>2, <2>4, RingWriteByte DEF RingInv
  <2>5. CASE Ring!EndWrite
    BY <1>3, <2>2, <2>5, RingEndWrite DEF RingInv
  <2>6. CASE Ring!BeginRead
    BY <2>2, <2>6, RingBeginRead DEF RingInv
  <2>7. CASE Ring!ReadByte
    BY <2>2, <2>7, RingReadByte DEF RingInv
  <2>8. CASE Ring!EndRead
    BY <2>2, <2>8, RingEndRead DEF RingInv
  <2> QED BY <1>3, <2>3, <2>4, <2>5, <2>6, <2>7, <2>8 DEF Ring!Next
<1> QED BY <1>1, <1>2, <1>3

(* DeliversWhole for a ring of any size, messages of any length and any    *)
(* number of them: as long as no message has filled the ring and no header *)
(* has crossed its end, the reader gets them whole and in order.           *)
THEOREM RingDeliversWhole == Spec => []DeliversWhole
<1>1. Init => RingInv
  BY RingInit DEF Init
<1>2. RingInv /\ [Next]_vars => RingInv'
  BY RingStep DEF Next, vars
<1>3. RingInv => DeliversWhole
  <2> SUFFICES ASSUME ~mishap, NEW position, Layout(position)
               PROVE  Ring!DeliversWhole
    BY DEF RingInv, DeliversWhole, Ring!DeliversWhole
  <2> QED BY DEF Layout, Ends, ReaderRight, Published, Ring!DeliversWhole
<1> QED BY <1>1, <1>2, <1>3, PTL DEF Spec

(***************************************************************************)
(* The word count                                                          *)
(***************************************************************************)

(* A word ends at byte k, as the whole file has it. *)
WordEnds(k) == Words!InWord(k) /\ ~Words!InWord(k + 1)

(* The ends of words at or before byte m. *)
WordsTo(m) == {k \in 1 .. m : WordEnds(k)}

(* The ends of words a thread has seen when it has read the bytes behind a *)
(* and up to b: those with a space behind them.                            *)
Seen(a, b) == {k \in 1 .. b - 1 : a < k /\ ~text[k] /\ text[k + 1]}

(* What it counts if b is its last byte.                                   *)
InChunk(a, b) == {k \in 1 .. b : a < k /\ ~text[k] /\ (k = b \/ text[k + 1])}

(* The end of the chunks of the first j threads. *)
End(j) == IF j = NUM_THREADS THEN Len(text) ELSE j * Words!chunk_size

(* A word lies across the end of the chunk of thread i - 1. *)
Split(i) ==
  i < NUM_THREADS /\ Words!InWord(End(i)) /\ Words!InWord(End(i) + 1)
SplitsTo(j) == {i \in 1 .. j : Split(i)}

WordsTypeOK ==
  /\ text \in Seq(BOOLEAN) /\ Len(text) =< MaxText
  /\ thread \in [Words!Threads ->
                   [pc : {"none", "loop", "done", "failed"}, offset : Nat,
                    length : Nat, count : Nat, in_word : BOOLEAN]]
  /\ counts \in [Words!Threads -> Nat]

(* What thread i, in state t, knows of its chunk, however far it has come. *)
Knows(i, t) ==
  LET a == Words!ChunkOffset(i) IN
  /\ a =< t.offset /\ t.offset =< Len(text)
  /\ t.length = (End(i + 1) - t.offset) % SizeT
  /\ t.count = Cardinality(Seen(a, t.offset))
  /\ t.in_word <=> a < t.offset /\ ~text[t.offset]

(* A thread that is done has counted its chunk.                            *)
ThreadRight(i, t, count) ==
  /\ t.pc \in {"none", "loop"} => Knows(i, t)
  /\ t.pc = "done" => count = Cardinality(InChunk(Words!ChunkOffset(i), End(i + 1)))

(* Once all threads run main joins them: what it has added up are the      *)
(* words of the chunks so far, and one for each that was cut.              *)
MainCounts ==
  IF thread[NUM_THREADS - 1].pc = "none" THEN joined = NULL /\ total = 0
  ELSE /\ \A i \in Words!Threads : thread[i].pc # "none"
       /\ joined \in 0 .. NUM_THREADS
       /\ \A i \in 0 .. joined - 1 : thread[i].pc \in {"done", "failed"}
       /\ (\A i \in 0 .. joined - 1 : thread[i].pc = "done") =>
            total = Cardinality(WordsTo(End(joined))) + Cardinality(SplitsTo(joined))

WordsInv ==
  /\ WordsTypeOK /\ MainCounts
  /\ \A i \in Words!Threads : ThreadRight(i, thread[i], counts[i])

-----------------------------------------------------------------------------
(* What the assumptions say of the word count. *)
LEMMA WordConstants ==
  /\ NUM_THREADS \in Nat /\ NUM_THREADS > 0 /\ READ_SIZE \in Nat
  /\ LOOKAHEAD_SIZE \in Nat /\ LOOKAHEAD_SIZE > 0 /\ MaxText \in Nat
  /\ SizeT \in Nat /\ SizeT > MaxText
BY ProgramsAssumption DEF Words!WordCountAssumption

(* Each instance of FiniteSets has the one Cardinality. *)
LEMMA SameWordCardinality ==
  ASSUME NEW S PROVE Words!Cardinality(S) = Cardinality(S)
BY DEF Words!Cardinality, Cardinality

(* Induction over the numbers, for a set of them.                          *)
LEMMA SetInduction ==
  ASSUME NEW S, 0 \in S, \A n \in Nat : n \in S => n + 1 \in S
  PROVE  Nat \subseteq S
<1> DEFINE R == {ss \in Nat \X Nat : ss[1] < ss[2]}
<1> SUFFICES ASSUME Nat \ S # {} PROVE FALSE
  OBVIOUS
<1>1. IsWellFoundedOn(R, Nat)
  BY NatLessThanWellFounded, Zenon DEF OpToRel
<1>2. PICK x \in Nat \ S : \A y \in Nat \ S : <<y, x>> \notin R
  <2> HIDE DEF R
  <2>1. Nat \ S \subseteq Nat
    OBVIOUS
  <2> QED BY <1>1, <2>1, WFMin
<1>3. x # 0 /\ x - 1 \in Nat /\ x - 1 < x
  BY <1>2
<1>4. x - 1 \in S
  BY <1>2, <1>3
<1>5. (x - 1) + 1 = x
  BY <1>2
<1> QED BY <1>2, <1>3, <1>4, <1>5

(* The chunks follow one another from the first byte to the last.          *)
LEMMA ChunksFollow ==
  ASSUME text \in Seq(BOOLEAN), NEW i \in Words!Threads
  PROVE  /\ i \in Nat /\ i < NUM_THREADS /\ i + 1 \in 1 .. NUM_THREADS
         /\ Words!ChunkOffset(i) = End(i)
         /\ Words!ChunkOffset(i) + Words!ChunkLength(i) = End(i + 1)
         /\ End(i) \in Nat /\ End(i + 1) \in Nat /\ Words!ChunkLength(i) \in Nat
         /\ End(i) =< End(i + 1) /\ End(i + 1) =< Len(text)
         /\ End(i) = End(i + 1) /\ i + 1 < NUM_THREADS => End(i) = 0
<1> DEFINE N == Len(text)
           c == Words!chunk_size
<1>1. /\ NUM_THREADS \in Nat /\ NUM_THREADS > 0 /\ N \in Nat
      /\ i \in Nat /\ i < NUM_THREADS /\ i + 1 \in 1 .. NUM_THREADS
  BY WordConstants DEF Words!Threads
<1>2. c \in Nat /\ NUM_THREADS * c =< N
  <2>1. N = NUM_THREADS * c + (N % NUM_THREADS) /\ c \in Int /\ (N % NUM_THREADS) \in 0 .. NUM_THREADS - 1
    BY <1>1, Division DEF Words!chunk_size
  <2>2. c \in Nat
    BY <1>1 DEF Words!chunk_size
  <2> HIDE DEF c, N
  <2>3. NUM_THREADS * c \in Int
    BY <1>1, <2>1
  <2> QED BY <1>1, <2>1, <2>2, <2>3
<1>3. /\ i * c \in Nat /\ (i + 1) * c \in Nat /\ (i + 1) * c = i * c + c
      /\ (i + 1) * c =< NUM_THREADS * c /\ NUM_THREADS * c \in Nat
  <2> HIDE DEF c, N
  <2>1. i * c \in Nat /\ (i + 1) * c \in Nat /\ (i + 1) * c = i * c + c /\ NUM_THREADS * c \in Nat
    BY <1>1, <1>2
  <2>2. PICK d \in Nat : NUM_THREADS = (i + 1) + d
    <3>1. NUM_THREADS - (i + 1) \in Nat /\ NUM_THREADS = (i + 1) + (NUM_THREADS - (i + 1))
      BY <1>1
    <3> QED BY <3>1
  <2>3. NUM_THREADS * c = (i + 1) * c + d * c /\ d * c \in Nat
    BY <1>1, <1>2, <2>2
  <2> QED BY <2>1, <2>3
<1>4. End(i) = i * c /\ Words!ChunkOffset(i) = i * c
  BY <1>1 DEF End, Words!ChunkOffset
<1>5. End(i + 1) = IF i + 1 = NUM_THREADS THEN N ELSE (i + 1) * c
  BY DEF End
<1>6. Words!ChunkLength(i) = IF i = NUM_THREADS - 1 THEN N - i * c ELSE c
  BY DEF Words!ChunkLength
<1>7. i + 1 = NUM_THREADS <=> i = NUM_THREADS - 1
  BY <1>1
<1>8. c = 0 => i * c = 0
  <2> HIDE DEF c
  <2> QED BY <1>1
<1> HIDE DEF c, N
<1>9. i * c =< N /\ (i + 1) * c =< N
  BY <1>1, <1>2, <1>3
<1>10. N = Len(text)
  BY DEF N
<1>11. CASE i + 1 = NUM_THREADS
  BY <1>1, <1>2, <1>3, <1>4, <1>5, <1>6, <1>7, <1>9, <1>10, <1>11
<1>12. CASE i + 1 # NUM_THREADS
  BY <1>1, <1>2, <1>3, <1>4, <1>5, <1>6, <1>7, <1>8, <1>9, <1>10, <1>12
<1> QED BY <1>11, <1>12

(* What is counted is finite. *)
LEMMA CountsFinite ==
  ASSUME NEW a \in Nat, NEW b \in Nat
  PROVE  /\ IsFiniteSet(Seen(a, b)) /\ Cardinality(Seen(a, b)) \in Nat
         /\ IsFiniteSet(InChunk(a, b)) /\ Cardinality(InChunk(a, b)) \in Nat
         /\ IsFiniteSet(WordsTo(b)) /\ Cardinality(WordsTo(b)) \in Nat
         /\ IsFiniteSet(SplitsTo(b)) /\ Cardinality(SplitsTo(b)) \in Nat
<1>1. IsFiniteSet(1 .. b) /\ IsFiniteSet(1 .. b - 1)
  BY FS_Interval
<1>2. /\ Seen(a, b) \in SUBSET (1 .. b - 1) /\ InChunk(a, b) \in SUBSET (1 .. b)
      /\ WordsTo(b) \in SUBSET (1 .. b) /\ SplitsTo(b) \in SUBSET (1 .. b)
  BY DEF Seen, InChunk, WordsTo, SplitsTo
<1>3. /\ IsFiniteSet(Seen(a, b)) /\ IsFiniteSet(InChunk(a, b))
      /\ IsFiniteSet(WordsTo(b)) /\ IsFiniteSet(SplitsTo(b))
  BY <1>1, <1>2, FS_Subset
<1> QED BY <1>3, FS_CardinalityType

(* A set with at most one number more.                                     *)
LEMMA OneMore ==
  ASSUME NEW S, NEW T, NEW x, NEW more \in BOOLEAN, IsFiniteSet(S), x \notin S,
         T = IF more THEN S \cup {x} ELSE S
  PROVE  Cardinality(T) = Cardinality(S) + (IF more THEN 1 ELSE 0)
<1>1. Cardinality(S) \in Nat
  BY FS_CardinalityType
<1>2. CASE more
  BY <1>2, FS_AddElement
<1>3. CASE ~more
  BY <1>1, <1>3
<1> QED BY <1>2, <1>3

(* The next byte ends a word if it is a space and the one before it is     *)
(* not, and belongs to the chunk.                                          *)
LEMMA SeenNext ==
  ASSUME NEW a \in Nat, NEW b \in Nat
  PROVE  Cardinality(Seen(a, b + 1)) = Cardinality(Seen(a, b))
                 + (IF a < b /\ ~text[b] /\ text[b + 1] THEN 1 ELSE 0)
<1> DEFINE more == a < b /\ ~text[b] /\ text[b + 1]
<1>1. more \in BOOLEAN
  OBVIOUS
<1>2. (b + 1) - 1 = b /\ b \notin 1 .. b - 1 /\ 1 .. b - 1 \subseteq 1 .. b
      /\ (b # 0 => 1 .. b = 1 .. b - 1 \cup {b}) /\ (a < b => b # 0)
      /\ (b = 0 => 1 .. b = {} /\ 1 .. b - 1 = {})
  OBVIOUS
<1>3. b \notin Seen(a, b)
  BY <1>2 DEF Seen
<1>4. Seen(a, b + 1) = {k \in 1 .. b : a < k /\ ~text[k] /\ text[k + 1]}
  BY <1>2 DEF Seen
<1>5. Seen(a, b + 1) = IF more THEN Seen(a, b) \cup {b} ELSE Seen(a, b)
  <2>1. CASE b = 0
    BY <1>2, <1>4, <2>1 DEF Seen
  <2>2. CASE b # 0
    <3>1. 1 .. b = 1 .. b - 1 \cup {b}
      BY <1>2, <2>2
    <3> QED BY <1>4, <3>1, Zenon DEF Seen
  <2> QED BY <2>1, <2>2
<1> HIDE DEF more
<1>6. Cardinality(Seen(a, b + 1)) = Cardinality(Seen(a, b)) + (IF more THEN 1 ELSE 0)
  BY <1>1, <1>3, <1>5, CountsFinite, OneMore
<1> QED BY <1>6 DEF more

(* A thread that ends in a word counts it.                                 *)
LEMMA SeenAtEnd ==
  ASSUME NEW a \in Nat, NEW b \in Nat
  PROVE  Cardinality(InChunk(a, b)) = Cardinality(Seen(a, b))
                 + (IF a < b /\ ~text[b] THEN 1 ELSE 0)
<1> DEFINE more == a < b /\ ~text[b]
<1>1. more \in BOOLEAN
  OBVIOUS
<1>2. /\ b \notin 1 .. b - 1 /\ \A k \in 1 .. b - 1 : k # b
      /\ (b # 0 => 1 .. b = 1 .. b - 1 \cup {b}) /\ (a < b => b # 0)
      /\ (b = 0 => 1 .. b = {} /\ 1 .. b - 1 = {})
  OBVIOUS
<1>3. b \notin Seen(a, b)
  BY <1>2 DEF Seen
<1>4. InChunk(a, b) = IF more THEN Seen(a, b) \cup {b} ELSE Seen(a, b)
  <2>1. CASE b = 0
    BY <1>2, <2>1 DEF Seen, InChunk
  <2>2. CASE b # 0
    <3>1. 1 .. b = 1 .. b - 1 \cup {b}
      BY <1>2, <2>2
    <3> QED BY <1>2, <3>1, Zenon DEF Seen, InChunk
  <2> QED BY <2>1, <2>2
<1> HIDE DEF more
<1>5. Cardinality(InChunk(a, b)) = Cardinality(Seen(a, b)) + (IF more THEN 1 ELSE 0)
  BY <1>1, <1>3, <1>4, CountsFinite, OneMore
<1> QED BY <1>5 DEF more

(* What a thread counts in its chunk are the words that end there, and one *)
(* more if the next chunk begins inside a word.                            *)
LEMMA ChunkAdds ==
  ASSUME text \in Seq(BOOLEAN), NEW i \in Words!Threads
  PROVE  Cardinality(WordsTo(End(i))) + Cardinality(SplitsTo(i))
           + Cardinality(InChunk(End(i), End(i + 1)))
         = Cardinality(WordsTo(End(i + 1))) + Cardinality(SplitsTo(i + 1))
<1>1. PICK a \in Nat, b \in Nat : a = End(i) /\ b = End(i + 1)
  BY ChunksFollow
<1>2. /\ a =< b /\ b =< Len(text) /\ i \in Nat /\ i + 1 =< NUM_THREADS /\ i + 1 \in Nat
      /\ a = b /\ i + 1 < NUM_THREADS => b = 0
      /\ (i + 1 = NUM_THREADS => b = Len(text))
  BY <1>1, ChunksFollow DEF End
<1> DEFINE D == {k \in 1 .. b : a < k /\ WordEnds(k)}
           more == a < b /\ ~text[b] /\ Words!InWord(b + 1)
<1>3. PICK N \in Nat : N = Len(text) /\ DOMAIN text = 1 .. N /\ b =< N
  BY <1>2
<1>4. more \in BOOLEAN
  BY Zenon DEF Words!InWord
<1>5. \A k : Words!InWord(k) <=> k \in 1 .. N /\ ~text[k]
  BY <1>3, Zenon DEF Words!InWord
<1>6. more <=> Split(i + 1)
  <2>1. Split(i + 1) <=> i + 1 < NUM_THREADS /\ Words!InWord(b) /\ Words!InWord(b + 1)
    BY <1>1 DEF Split
  <2>2. Words!InWord(b) => b # 0 /\ ~text[b]
    BY <1>5
  <2>3. Words!InWord(b + 1) => b # Len(text)
    <3>1. b = N => b + 1 \notin 1 .. N
      OBVIOUS
    <3> QED BY <1>3, <1>5, <3>1, Zenon
  <2>4. a < b /\ ~text[b] => Words!InWord(b)
    <3>1. a < b => b \in 1 .. N
      BY <1>3
    <3> QED BY <1>5, <3>1, Zenon
  <2>5. a < b \/ a = b
    BY <1>2
  <2>6. i + 1 < NUM_THREADS \/ i + 1 = NUM_THREADS
    BY <1>2, WordConstants
  <2> QED BY <1>2, <2>1, <2>2, <2>3, <2>4, <2>5, <2>6
<1>7. /\ WordsTo(b) = WordsTo(a) \cup D /\ WordsTo(a) \cap D = {}
      /\ D \in SUBSET WordsTo(b)
  <2>1. \A k \in 1 .. b : k \in 1 .. a <=> ~ (a < k)
    BY <1>2
  <2>2. 1 .. a \subseteq 1 .. b
    BY <1>2
  <2> QED BY <2>1, <2>2, Zenon DEF WordsTo
<1>8. InChunk(a, b) = IF more THEN D \cup {b} ELSE D
  <2>1. ASSUME NEW k \in 1 .. b, a < k, k # b
        PROVE  ~text[k] /\ text[k + 1] <=> WordEnds(k)
    <3>1. k \in 1 .. N /\ k + 1 \in 1 .. N
      BY <1>3, <2>1
    <3> QED BY <1>5, <3>1, Zenon DEF WordEnds
  <2>2. a < b => (WordEnds(b) <=> ~text[b] /\ ~Words!InWord(b + 1))
    <3>1. a < b => b \in 1 .. N
      BY <1>3
    <3> QED BY <1>5, <3>1, Zenon DEF WordEnds
  <2>3. a < b => b \in 1 .. b
    OBVIOUS
  <2>4. ASSUME NEW k \in 1 .. b
        PROVE  (a < k /\ ~text[k] /\ (k = b \/ text[k + 1]))
                 <=> (a < k /\ WordEnds(k)) \/ (more /\ k = b)
    BY <2>1, <2>2, Zenon
  <2>5. more => b \in 1 .. b
    BY <2>3
  <2> HIDE DEF more
  <2> QED BY <2>4, <2>5, Zenon DEF InChunk
<1>9. b \in D => ~more
  BY DEF WordEnds
<1> HIDE DEF D, more
<1>10. more => b \notin D
  BY <1>9
<1>11. IsFiniteSet(D) /\ IsFiniteSet(WordsTo(a)) /\ IsFiniteSet(SplitsTo(i))
  BY <1>1, <1>2, <1>7, CountsFinite, FS_Subset
<1>12. Cardinality(InChunk(a, b)) = Cardinality(D) + (IF more THEN 1 ELSE 0)
  <2>1. CASE more
    BY <1>8, <1>10, <1>11, <2>1, <1>4, OneMore, FS_AddElement
  <2>2. CASE ~more
    BY <1>8, <1>11, <2>2, FS_CardinalityType
  <2> QED BY <2>1, <2>2
<1>13. Cardinality(WordsTo(b)) = Cardinality(WordsTo(a)) + Cardinality(D)
  <2>1. Cardinality(WordsTo(a) \cup D)
          = Cardinality(WordsTo(a)) + Cardinality(D) - Cardinality(WordsTo(a) \cap D)
    BY <1>11, FS_Union
  <2>2. Cardinality(WordsTo(a)) \in Nat /\ Cardinality(D) \in Nat /\ Cardinality({}) = 0
    BY <1>11, FS_CardinalityType, FS_EmptySet
  <2>3. Cardinality(WordsTo(b)) = Cardinality(WordsTo(a) \cup D)
        /\ Cardinality(WordsTo(a) \cap D) = 0
    BY <1>7, <2>2, Zenon
  <2> QED BY <2>1, <2>2, <2>3
<1>14. Cardinality(SplitsTo(i + 1)) = Cardinality(SplitsTo(i)) + (IF more THEN 1 ELSE 0)
  <2>1. /\ 1 .. i + 1 = 1 .. i \cup {i + 1} /\ i + 1 \notin 1 .. i
    BY <1>2
  <2>2. SplitsTo(i + 1) = IF more THEN SplitsTo(i) \cup {i + 1} ELSE SplitsTo(i)
    BY <1>6, <2>1, Zenon DEF SplitsTo
  <2>3. i + 1 \notin SplitsTo(i)
    BY <2>1 DEF SplitsTo
  <2> QED BY <1>11, <1>4, <2>2, <2>3, OneMore
<1>15. /\ Cardinality(D) \in Nat /\ Cardinality(WordsTo(a)) \in Nat /\ Cardinality(SplitsTo(i)) \in Nat
  BY <1>11, FS_CardinalityType
<1> QED BY <1>1, <1>12, <1>13, <1>14, <1>15

(* Max of a set of numbers is one of them. *)
LEMMA GreatestNumber ==
  ASSUME NEW n \in Nat, NEW I, I \subseteq 1 .. n, I # {}
  PROVE  Words!Max(I) \in I
<1> DEFINE S == {m \in Nat : \A J \in SUBSET (1 .. m) : J # {} =>
                               \E i \in J : \A j \in J : i >= j}
<1>1. 0 \in S
  <2>1. 1 .. 0 = {}
    OBVIOUS
  <2> QED BY <2>1
<1>2. ASSUME NEW m \in Nat, m \in S PROVE m + 1 \in S
  <2> SUFFICES ASSUME NEW J \in SUBSET (1 .. m + 1), J # {}
               PROVE  \E i \in J : \A j \in J : i >= j
    OBVIOUS
  <2>1. CASE m + 1 \in J
    BY <2>1
  <2>2. CASE m + 1 \notin J
    <3>1. J \in SUBSET (1 .. m)
      BY <2>2
    <3> QED BY <1>2, <3>1
  <2> QED BY <2>1, <2>2
<1> HIDE DEF S
<1>3. n \in S
  BY <1>1, <1>2, SetInduction
<1>4. \E i \in I : \A j \in I : i >= j
  BY <1>3 DEF S
<1> QED BY <1>4, Zenon DEF Words!Max

(* A block ends within the file, wherever it is cut.                       *)
LEMMA UsedInFile ==
  ASSUME text \in Seq(BOOLEAN), NEW offset \in Nat, offset =< Len(text), NEW length \in Nat
  PROVE  LET used == Words!Used(offset, Words!SmallerOf(length, READ_SIZE))
         IN used \in Nat /\ offset + used =< Len(text)
<1> DEFINE to_read == Words!SmallerOf(length, READ_SIZE)
           left == Len(text) - offset
           ends == {k \in 1 .. LOOKAHEAD_SIZE : text[offset + to_read + k]}
           used == Words!Used(offset, to_read)
<1>1. to_read \in Nat /\ LOOKAHEAD_SIZE \in Nat /\ left \in Nat /\ Len(text) = offset + left
  BY WordConstants DEF Words!SmallerOf
<1>2. used = IF left < to_read + LOOKAHEAD_SIZE THEN left
             ELSE to_read + (IF ends = {} THEN 0 ELSE Words!Max(ends))
  BY DEF Words!Used
<1>3. ends # {} => Words!Max(ends) \in 1 .. LOOKAHEAD_SIZE
  <2> SUFFICES ASSUME ends # {} PROVE Words!Max(ends) \in ends
    OBVIOUS
  <2>1. ends \subseteq 1 .. LOOKAHEAD_SIZE
    OBVIOUS
  <2> HIDE DEF ends
  <2> QED BY <1>1, <2>1, GreatestNumber
<1> HIDE DEF to_read, left, ends, used
<1>4. used \in Nat /\ used =< left
  BY <1>1, <1>2, <1>3
<1>5. offset + used =< Len(text)
  BY <1>1, <1>4
<1> QED BY <1>4, <1>5 DEF used, to_read

(* What is left of a chunk is a remainder, and taking a block off it comes *)
(* to the same as taking it off the number itself.                         *)
LEMMA RemainderBack ==
  ASSUME NEW n \in Nat \ {0}, NEW x \in Int, NEW k \in Int
  PROVE  (((x % n) - k) % n) = ((x - k) % n)
<1>1. -k \in Int
  OBVIOUS
<1>2. (((x % n) + (-k)) % n) = ((x + (-k)) % n)
  BY <1>1, RemainderForward
<1>3. (x % n) \in Int /\ (x % n) + (-k) = (x % n) - k /\ x + (-k) = x - k
  BY Division
<1> QED BY <1>2, <1>3

(* One turn of the loop over a block.                                      *)
ScanByte(block, s, k) ==
  [count   |-> s.count + (IF block[k] /\ s.in_word THEN 1 ELSE 0),
   in_word |-> ~block[k]]

(* The values of the loop's variables after 0, 1, ..., n bytes. *)
Scanned(block, in_word, s, n) ==
  s = [k \in 0 .. n |-> IF k = 0 THEN [count |-> 0, in_word |-> in_word]
                        ELSE ScanByte(block, s[k - 1], k)]

(* The loop can be followed for any number of bytes. *)
LEMMA ScanRuns ==
  ASSUME NEW block, NEW in_word, NEW n \in Nat
  PROVE  \E s : Scanned(block, in_word, s, n)
<1> DEFINE S == {m \in Nat : \E s : Scanned(block, in_word, s, m)}
<1>1. 0 \in S
  <2>1. Scanned(block, in_word, [k \in 0 .. 0 |-> [count |-> 0, in_word |-> in_word]], 0)
    BY DEF Scanned
  <2> QED BY <2>1
<1>2. ASSUME NEW m \in Nat, m \in S PROVE m + 1 \in S
  <2>1. PICK s : Scanned(block, in_word, s, m)
    BY <1>2
  <2> DEFINE At(f, k) == IF k = 0 THEN [count |-> 0, in_word |-> in_word]
                         ELSE ScanByte(block, f[k - 1], k)
             e == [k \in 0 .. m + 1 |->
                     IF k = m + 1 THEN ScanByte(block, s[m], m + 1) ELSE s[k]]
  <2>2. ASSUME NEW k \in 0 .. m + 1
        PROVE  e[k] = At(e, k)
    <3>1. CASE k = m + 1
      <4>1. k # 0 /\ k - 1 = m /\ e[k] = ScanByte(block, s[m], m + 1) /\ e[k - 1] = s[m]
        BY <3>1
      <4> HIDE DEF e
      <4> QED BY <3>1, <4>1
    <3>2. CASE k # m + 1
      <4>1. k \in 0 .. m /\ e[k] = s[k] /\ (k # 0 => k - 1 \in 0 .. m /\ e[k - 1] = s[k - 1])
        BY <3>2
      <4>2. s[k] = At(s, k)
        <5> HIDE DEF e
        <5> QED BY <2>1, <4>1 DEF Scanned
      <4> HIDE DEF e
      <4> QED BY <4>1, <4>2
    <3> QED BY <3>1, <3>2
  <2>3. e = [k \in 0 .. m + 1 |-> e[k]]
    OBVIOUS
  <2> HIDE DEF e
  <2>4. Scanned(block, in_word, e, m + 1)
    BY <2>2, <2>3 DEF Scanned
  <2> QED BY <2>4
<1> HIDE DEF S
<1>3. n \in S
  BY <1>1, <1>2, SetInduction
<1> QED BY <1>3 DEF S

(* So that is what the scan of a block goes through.                       *)
LEMMA ScanIs ==
  ASSUME NEW block, Len(block) \in Nat, NEW in_word
  PROVE  \E s : /\ Words!Scan(block, in_word) = s[Len(block)]
                /\ s[0] = [count |-> 0, in_word |-> in_word]
                /\ \A k \in 1 .. Len(block) : s[k] = ScanByte(block, s[k - 1], k)
<1> DEFINE n == Len(block)
           F(s) == [k \in 0 .. n |->
                      IF k = 0 THEN [count |-> 0, in_word |-> in_word]
                      ELSE [count   |-> s[k - 1].count
                                        + (IF block[k] /\ s[k - 1].in_word THEN 1 ELSE 0),
                            in_word |-> ~block[k]]]
<1>1. PICK s : s = F(s) /\ s = CHOOSE x : x = F(x)
  <2>1. PICK r : Scanned(block, in_word, r, n)
    BY ScanRuns
  <2>2. r = F(r)
    BY <2>1 DEF Scanned, ScanByte
  <2> HIDE DEF F
  <2> QED BY <2>2
<1>2. Words!Scan(block, in_word) = s[n]
  BY <1>1 DEF Words!Scan
<1>3. s[0] = [count |-> 0, in_word |-> in_word]
  <2>1. 0 \in 0 .. n
    OBVIOUS
  <2> HIDE DEF n
  <2> QED BY <1>1, <2>1
<1>4. ASSUME NEW k \in 1 .. n PROVE s[k] = ScanByte(block, s[k - 1], k)
  <2>1. k \in 0 .. n /\ k # 0
    OBVIOUS
  <2> HIDE DEF n
  <2> QED BY <1>1, <2>1 DEF ScanByte
<1> QED BY <1>2, <1>3, <1>4

(* A block between two places of the file, scanned with what the thread    *)
(* knew before.                                                            *)
BlockScanned(a, offset, end, in_word, scan) ==
  /\ a =< offset /\ offset =< end /\ end =< Len(text)
  /\ in_word <=> a < offset /\ ~text[offset]
  /\ scan = Words!Scan(SubSeq(text, offset + 1, end), in_word)

(* What the thread knows behind it.                                        *)
ScanRight(a, offset, end, scan) ==
  /\ scan.count \in Nat /\ scan.in_word \in BOOLEAN
  /\ Cardinality(Seen(a, offset)) + scan.count = Cardinality(Seen(a, end))
  /\ scan.in_word <=> a < end /\ ~text[end]

(* A thread that knows the bytes up to offset knows them up to the end of  *)
(* the block when it has scanned it.                                       *)
LEMMA ScanCounts ==
  ASSUME text \in Seq(BOOLEAN), NEW a \in Nat, NEW offset \in Nat, NEW end \in Nat,
         NEW in_word \in BOOLEAN, NEW scan, BlockScanned(a, offset, end, in_word, scan)
  PROVE  ScanRight(a, offset, end, scan)
<1>0. PICK used \in Nat : end = offset + used
  <2>1. end - offset \in Nat /\ end = offset + (end - offset)
    BY DEF BlockScanned
  <2> QED BY <2>1
<1>1. PICK block : block = SubSeq(text, offset + 1, offset + used) /\ offset + used =< Len(text)
                   /\ scan = Words!Scan(block, in_word)
                   /\ a =< offset /\ (in_word <=> a < offset /\ ~text[offset])
  BY <1>0 DEF BlockScanned
<1>2. Len(block) = used /\ \A k \in 1 .. used : block[k] = text[offset + k]
  <2>1. offset + 1 \in Nat /\ offset + used \in Nat /\ (offset + used) - (offset + 1) + 1 = used
    OBVIOUS
  <2>2. /\ 1 =< offset + 1 /\ \A k \in 1 .. used : offset + 1 + k - 1 = offset + k
        /\ (offset + 1 =< offset + used) \/ used = 0
    OBVIOUS
  <2> QED BY <1>1, <2>1, <2>2
<1>3. PICK s : /\ Words!Scan(block, in_word) = s[used]
               /\ s[0] = [count |-> 0, in_word |-> in_word]
               /\ \A k \in 1 .. used : s[k] = ScanByte(block, s[k - 1], k)
  <2>1. Len(block) \in Nat
    BY <1>2
  <2>2. \E s : /\ Words!Scan(block, in_word) = s[Len(block)]
                /\ s[0] = [count |-> 0, in_word |-> in_word]
                /\ \A k \in 1 .. Len(block) : s[k] = ScanByte(block, s[k - 1], k)
    BY <2>1, ScanIs
  <2> QED BY <1>2, <2>2, Zenon
<1> DEFINE After(k) ==
             /\ s[k].count \in Nat /\ s[k].in_word \in BOOLEAN
             /\ Cardinality(Seen(a, offset)) + s[k].count = Cardinality(Seen(a, offset + k))
             /\ s[k].in_word <=> a < offset + k /\ ~text[offset + k]
           S == {k \in Nat : k =< used => After(k)}
<1>4. 0 \in S
  <2>1. s[0].count = 0 /\ s[0].in_word = in_word /\ offset + 0 = offset
    BY <1>3
  <2>2. Cardinality(Seen(a, offset)) \in Nat
    BY CountsFinite
  <2>3. After(0)
    BY <1>1, <2>1, <2>2
  <2> QED BY <2>3
<1>5. ASSUME NEW k \in Nat, k \in S PROVE k + 1 \in S
  <2> SUFFICES ASSUME k + 1 =< used PROVE After(k + 1)
    OBVIOUS
  <2>1. After(k) /\ k + 1 \in 1 .. used /\ (k + 1) - 1 = k
    BY <1>5
  <2>2. PICK b \in Nat : b = offset + k /\ b + 1 = offset + (k + 1)
    OBVIOUS
  <2>3. s[k + 1] = ScanByte(block, s[k], k + 1) /\ block[k + 1] = text[b + 1]
    BY <1>2, <1>3, <2>1, <2>2
  <2>4. text[b + 1] \in BOOLEAN
    <3>1. b + 1 \in 1 .. Len(text)
      BY <1>1, <2>2
    <3> QED BY <3>1
  <2> DEFINE more == a < b /\ ~text[b] /\ text[b + 1]
  <2>5. s[k].in_word <=> a < b /\ ~text[b]
    BY <2>1, <2>2
  <2>6. (block[k + 1] /\ s[k].in_word) <=> more
    BY <2>3, <2>5, Zenon
  <2>7. /\ s[k + 1].count = s[k].count + (IF more THEN 1 ELSE 0)
        /\ s[k + 1].in_word = ~text[b + 1]
    <3>1. /\ s[k + 1].count = s[k].count + (IF block[k + 1] /\ s[k].in_word THEN 1 ELSE 0)
          /\ s[k + 1].in_word = ~block[k + 1]
      BY <2>3 DEF ScanByte
    <3> HIDE DEF more
    <3>2. (IF block[k + 1] /\ s[k].in_word THEN 1 ELSE 0) = (IF more THEN 1 ELSE 0)
      BY <2>6, Zenon
    <3>3. s[k + 1].in_word = ~text[b + 1]
      BY <2>3, <3>1, Zenon
    <3> QED BY <3>1, <3>2, <3>3
  <2>8. Cardinality(Seen(a, b + 1)) = Cardinality(Seen(a, b)) + (IF more THEN 1 ELSE 0)
    BY SeenNext
  <2>9. a < b + 1
    BY <1>1, <2>2
  <2>10. s[k + 1].in_word \in BOOLEAN /\ (s[k + 1].in_word <=> a < b + 1 /\ ~text[b + 1])
    BY <2>4, <2>7, <2>9, Zenon
  <2>11. /\ s[k + 1].count \in Nat
         /\ Cardinality(Seen(a, offset)) + s[k + 1].count = Cardinality(Seen(a, b + 1))
    <3>1. /\ s[k].count \in Nat /\ Cardinality(Seen(a, offset)) \in Nat
          /\ Cardinality(Seen(a, offset)) + s[k].count = Cardinality(Seen(a, b))
      BY <2>1, <2>2, CountsFinite
    <3>2. PICK d \in Nat : d = IF more THEN 1 ELSE 0
      OBVIOUS
    <3>3. /\ s[k + 1].count = s[k].count + d
          /\ Cardinality(Seen(a, b + 1)) = Cardinality(Seen(a, b)) + d
      BY <2>7, <2>8, <3>2, Zenon
    <3>4. PICK c \in Nat, m \in Nat : c = s[k].count /\ m = Cardinality(Seen(a, offset))
      BY <3>1
    <3>5. s[k + 1].count = c + d /\ Cardinality(Seen(a, b + 1)) = (m + c) + d
      BY <3>1, <3>3, <3>4, Zenon
    <3>6. c + d \in Nat /\ m + (c + d) = (m + c) + d
      OBVIOUS
    <3> QED BY <3>4, <3>5, <3>6, Zenon
  <2> QED BY <2>2, <2>10, <2>11
<1>6. After(used)
  <2>1. used \in S
    <3> HIDE DEF S
    <3> QED BY <1>4, <1>5, SetInduction
  <2> QED BY <2>1
<1> QED BY <1>0, <1>1, <1>3, <1>6 DEF ScanRight

(* The chunks and what is counted depend on the text alone, which nobody   *)
(* writes.                                                                 *)
LEMMA SameText ==
  ASSUME text' = text
  PROVE  /\ \A j : End(j)' = End(j) /\ WordsTo(j)' = WordsTo(j) /\ SplitsTo(j)' = SplitsTo(j)
         /\ \A i : Words!ChunkOffset(i)' = Words!ChunkOffset(i)
         /\ \A a, b : Seen(a, b)' = Seen(a, b) /\ InChunk(a, b)' = InChunk(a, b)
BY DEF End, WordsTo, SplitsTo, Split, WordEnds, Words!InWord, Words!ChunkOffset,
       Words!chunk_size, Seen, InChunk

(* What a thread knows when a step has been taken is what is said of the   *)
(* state it has then.                                                      *)
LEMMA RightNext ==
  ASSUME text' = text, NEW i, NEW t, NEW n, t = thread'[i], n = counts'[i],
         ThreadRight(i, t, n)
  PROVE  ThreadRight(i, thread[i], counts[i])'
<1>1. /\ t.pc \in {"none", "loop"} => Knows(i, t)
      /\ t.pc = "done" => n = Cardinality(InChunk(Words!ChunkOffset(i), End(i + 1)))
  BY DEF ThreadRight
<1>2. t.pc \in {"none", "loop"} => Knows(i, thread[i])'
  BY <1>1, SameText DEF Knows
<1> QED BY <1>1, <1>2, SameText DEF ThreadRight

(* A number below the modulus is its own remainder, and the only one that  *)
(* is near to 0 and has none is 0.                                         *)
LEMMA SmallRemainder ==
  ASSUME NEW n \in Nat \ {0}, NEW x \in Int, -n < x, x < n
  PROVE  /\ x >= 0 => (x % n) = x
         /\ (x % n) = 0 => x = 0
<1>1. x >= 0 => (x % n) = x
  <2>1. x >= 0 => x \in 0 .. n - 1 /\ x = n * 0 + x /\ 0 \in Int
    OBVIOUS
  <2> QED BY <2>1, RemainderIs
<1>2. x < 0 => (x % n) = x + n
  <2>1. x < 0 => x + n \in 0 .. n - 1 /\ x = n * (-1) + (x + n) /\ -1 \in Int
    OBVIOUS
  <2> QED BY <2>1, RemainderIs
<1> QED BY <1>1, <1>2

(* A thread that has not begun knows nothing of its chunk.                 *)
LEMMA KnowsNothing ==
  ASSUME text \in Seq(BOOLEAN), Len(text) =< MaxText, NEW i \in Words!Threads, NEW t,
         t.offset = Words!ChunkOffset(i), t.length = Words!ChunkLength(i),
         t.count = 0, t.in_word = FALSE
  PROVE  Knows(i, t)
<1>1. PICK a \in Nat, l \in Nat : a = Words!ChunkOffset(i) /\ l = Words!ChunkLength(i)
  BY ChunksFollow
<1>2. /\ End(i + 1) = a + l /\ a + l =< Len(text) /\ Len(text) \in Nat
      /\ SizeT \in Nat /\ SizeT > MaxText /\ MaxText \in Nat
  BY <1>1, ChunksFollow, WordConstants
<1>3. End(i + 1) - a = l /\ (l % SizeT) = l
  <2>1. l \in Int /\ -SizeT < l /\ l < SizeT /\ SizeT \in Nat \ {0} /\ (a + l) - a = l
    BY <1>2
  <2> QED BY <1>2, <2>1, SmallRemainder
<1>4. Seen(a, a) = {}
  BY DEF Seen
<1>5. Cardinality(Seen(a, a)) = 0
  BY <1>4, FS_EmptySet
<1>6. a =< Len(text) /\ ~ (a < a) /\ a =< a
  BY <1>2
<1> QED BY <1>1, <1>3, <1>5, <1>6, Zenon DEF Knows

(* As main starts, no thread has begun and nothing is added up.            *)
LEMMA WordsInit ==
  ASSUME Words!Init
  PROVE  WordsInv
<1>1. text \in Seq(BOOLEAN) /\ Len(text) =< MaxText
  <2>1. PICK n \in 0 .. MaxText : text \in [1 .. n -> BOOLEAN]
    BY DEF Words!Init, Words!Texts
  <2>2. n \in Nat /\ n =< MaxText
    BY WordConstants
  <2> QED BY <2>1, <2>2
<1>2. \A i \in Words!Threads :
        Words!ChunkOffset(i) \in Nat /\ Words!ChunkLength(i) \in Nat
  BY <1>1, ChunksFollow
<1>3. \A i \in Words!Threads :
        thread[i] = [pc |-> "none", offset |-> Words!ChunkOffset(i),
                     length |-> Words!ChunkLength(i), count |-> 0, in_word |-> FALSE]
  BY DEF Words!Init
<1>4. WordsTypeOK
  BY <1>1, <1>2 DEF WordsTypeOK, Words!Init
<1>5. MainCounts
  <2>1. NUM_THREADS - 1 \in Words!Threads
    BY WordConstants DEF Words!Threads
  <2> QED BY <1>3, <2>1 DEF MainCounts, Words!Init
<1>6. ASSUME NEW i \in Words!Threads PROVE ThreadRight(i, thread[i], counts[i])
  <2>1. PICK t : t = thread[i]
    OBVIOUS
  <2>2. /\ t.pc = "none" /\ t.offset = Words!ChunkOffset(i)
        /\ t.length = Words!ChunkLength(i) /\ t.count = 0 /\ t.in_word = FALSE
    <3>1. t = [pc |-> "none", offset |-> Words!ChunkOffset(i),
               length |-> Words!ChunkLength(i), count |-> 0, in_word |-> FALSE]
      BY <1>3, <2>1, Zenon
    <3> QED BY <3>1
  <2>3. Knows(i, t)
    BY <1>1, <2>2, KnowsNothing
  <2> QED BY <2>1, <2>2, <2>3 DEF ThreadRight
<1> QED BY <1>4, <1>5, <1>6 DEF WordsInv

(* A step of a thread that runs is none of main's business.                *)
LEMMA MainKeeps ==
  ASSUME WordsInv, NEW i \in Words!Threads, thread[i].pc = "loop",
         NEW t, t.pc # "none", thread' = [thread EXCEPT ![i] = t],
         UNCHANGED <<text, joined, total>>
  PROVE  MainCounts'
<1>1. /\ \A j \in Words!Threads : thread'[j] = IF j = i THEN t ELSE thread[j]
      /\ NUM_THREADS - 1 \in Words!Threads /\ i \in Words!Threads
  BY WordConstants DEF WordsInv, WordsTypeOK, Words!Threads
<1>2. CASE thread[NUM_THREADS - 1].pc = "none"
  <2>1. i # NUM_THREADS - 1
    BY <1>2
  <2> QED BY <1>1, <1>2, <2>1 DEF WordsInv, MainCounts
<1>3. CASE thread[NUM_THREADS - 1].pc # "none"
  <2>1. /\ \A j \in Words!Threads : thread[j].pc # "none"
        /\ joined \in 0 .. NUM_THREADS
        /\ \A j \in 0 .. joined - 1 : thread[j].pc \in {"done", "failed"}
        /\ (\A j \in 0 .. joined - 1 : thread[j].pc = "done") =>
             total = Cardinality(WordsTo(End(joined))) + Cardinality(SplitsTo(joined))
    BY <1>3 DEF WordsInv, MainCounts
  <2>2. ASSUME NEW j \in 0 .. joined - 1 PROVE j \in Words!Threads /\ thread'[j] = thread[j]
    <3>1. j \in Words!Threads
      BY <2>1, WordConstants DEF Words!Threads
    <3>2. j # i
      BY <2>1
    <3> QED BY <1>1, <3>1, <3>2
  <2>3. \A j \in Words!Threads : thread'[j].pc # "none"
    BY <1>1, <2>1
  <2>4. /\ \A j \in 0 .. joined - 1 : thread'[j].pc \in {"done", "failed"}
        /\ (\A j \in 0 .. joined - 1 : thread'[j].pc = "done") =>
             total = Cardinality(WordsTo(End(joined))) + Cardinality(SplitsTo(joined))
    BY <2>1, <2>2
  <2>5. thread'[NUM_THREADS - 1].pc # "none"
    BY <1>1, <2>3
  <2> QED BY <2>1, <2>3, <2>4, <2>5, SameText, Zenon DEF MainCounts
<1> QED BY <1>2, <1>3

(* So a step of a thread that runs has to keep what that thread knows.     *)
LEMMA RunningStep ==
  ASSUME WordsInv, NEW i \in Words!Threads, thread[i].pc = "loop",
         NEW t \in [pc : {"loop", "done", "failed"}, offset : Nat,
                    length : Nat, count : Nat, in_word : BOOLEAN],
         NEW n \in Nat, thread' = [thread EXCEPT ![i] = t],
         counts' = [counts EXCEPT ![i] = n],
         UNCHANGED <<text, joined, total>>, ThreadRight(i, t, n)
  PROVE  WordsInv'
<1>1. WordsTypeOK'
  BY DEF WordsInv, WordsTypeOK
<1>2. MainCounts'
  BY MainKeeps
<1>3. ASSUME NEW j \in Words!Threads PROVE ThreadRight(j, thread[j], counts[j])'
  <2>1. PICK u, m : u = thread'[j] /\ m = counts'[j]
    OBVIOUS
  <2>2. thread \in [Words!Threads -> [pc : {"none", "loop", "done", "failed"}, offset : Nat,
                      length : Nat, count : Nat, in_word : BOOLEAN]]
        /\ counts \in [Words!Threads -> Nat]
    BY DEF WordsInv, WordsTypeOK
  <2>3. ThreadRight(j, u, m)
    <3>1. CASE j = i
      BY <2>1, <2>2, <3>1
    <3>2. CASE j # i
      <4>1. u = thread[j] /\ m = counts[j]
        BY <2>1, <2>2, <3>2
      <4> QED BY <4>1 DEF WordsInv
    <3> QED BY <3>1, <3>2
  <2> QED BY <2>1, <2>3, RightNext
<1> QED BY <1>1, <1>2, <1>3 DEF WordsInv

(* A block more: the rest of the chunk may wrap around, the offset stays   *)
(* in the file.                                                            *)
LEMMA ReadBlockStep ==
  ASSUME WordsInv, NEW i \in Words!Threads, Words!ReadBlock(i)
  PROVE  WordsInv'
<1>1. PICK t : t = thread[i]
  OBVIOUS
<1>2. t \in [pc : {"none", "loop", "done", "failed"}, offset : Nat,
             length : Nat, count : Nat, in_word : BOOLEAN]
  BY <1>1 DEF WordsInv, WordsTypeOK
<1>3. t.pc = "loop" /\ Knows(i, t) /\ text \in Seq(BOOLEAN) /\ Len(text) =< MaxText
  BY <1>1 DEF Words!ReadBlock, WordsInv, WordsTypeOK, ThreadRight
<1>4. PICK used : used = Words!Used(t.offset, Words!SmallerOf(t.length, READ_SIZE))
  OBVIOUS
<1>5. PICK scan : scan = Words!Scan(SubSeq(text, t.offset + 1, t.offset + used), t.in_word)
  OBVIOUS
<1> DEFINE u == [pc |-> "loop", offset |-> t.offset + used,
                 length |-> Words!Remaining(t.length, used),
                 count |-> t.count + scan.count, in_word |-> scan.in_word]
<1>6. /\ thread' = [thread EXCEPT ![i] = u]
      /\ UNCHANGED <<text, counts, joined, total>>
  BY <1>1, <1>4, <1>5 DEF Words!ReadBlock
<1>7. PICK a \in Nat, e \in Nat : a = Words!ChunkOffset(i) /\ e = End(i + 1)
  BY <1>3, ChunksFollow
<1>8. /\ a =< t.offset /\ t.offset =< Len(text) /\ t.length = (e - t.offset) % SizeT
      /\ t.count = Cardinality(Seen(a, t.offset))
      /\ t.in_word <=> a < t.offset /\ ~text[t.offset]
  BY <1>3, <1>7 DEF Knows
<1>9. used \in Nat /\ t.offset + used =< Len(text)
  BY <1>2, <1>3, <1>4, <1>8, UsedInFile
<1>10. /\ scan.count \in Nat /\ scan.in_word \in BOOLEAN
       /\ t.count + scan.count = Cardinality(Seen(a, t.offset + used))
       /\ scan.in_word <=> a < t.offset + used /\ ~text[t.offset + used]
  <2>1. PICK o \in Nat, w \in BOOLEAN : o = t.offset /\ w = t.in_word
    BY <1>2
  <2>2. PICK end \in Nat : end = o + used /\ o =< end
    BY <1>9
  <2>3. BlockScanned(a, o, end, w, scan)
    BY <1>5, <1>8, <1>9, <2>1, <2>2, Zenon DEF BlockScanned
  <2>4. ScanRight(a, o, end, scan)
    BY <1>3, <2>3, ScanCounts, Zenon
  <2> QED BY <1>8, <2>1, <2>2, <2>4, Zenon DEF ScanRight
<1>11. Words!Remaining(t.length, used) = (e - (t.offset + used)) % SizeT
       /\ Words!Remaining(t.length, used) \in Nat
  <2>1. SizeT \in Nat \ {0} /\ e - t.offset \in Int /\ used \in Int
        /\ (e - t.offset) - used = e - (t.offset + used) /\ e - (t.offset + used) \in Int
    BY <1>2, <1>9, WordConstants
  <2>2. (((e - t.offset) % SizeT) - used) % SizeT = ((e - t.offset) - used) % SizeT
    BY <2>1, RemainderBack
  <2>3. ((e - (t.offset + used)) % SizeT) \in Nat
    BY <2>1
  <2> QED BY <1>8, <2>1, <2>2, <2>3 DEF Words!Remaining
<1>12. u \in [pc : {"loop", "done", "failed"}, offset : Nat,
              length : Nat, count : Nat, in_word : BOOLEAN]
  BY <1>2, <1>9, <1>10, <1>11
<1>13. Knows(i, u)
  <2>1. a =< t.offset + used
    BY <1>2, <1>8, <1>9
  <2> QED BY <1>7, <1>9, <1>10, <1>11, <2>1 DEF Knows
<1>14. PICK n \in Nat : n = counts[i] /\ counts' = [counts EXCEPT ![i] = n]
  BY <1>6 DEF WordsInv, WordsTypeOK
<1>15. ThreadRight(i, u, n)
  BY <1>13 DEF ThreadRight
<1> HIDE DEF u
<1> QED BY <1>1, <1>3, <1>6, <1>12, <1>14, <1>15, RunningStep

(* A thread that has come to the end of its chunk: its length is 0 only    *)
(* if its offset is the end, since a block never leads out of the file.    *)
LEMMA ReturnStep ==
  ASSUME WordsInv, NEW i \in Words!Threads, Words!Return(i)
  PROVE  WordsInv'
<1>1. PICK t : t = thread[i]
  OBVIOUS
<1>2. t \in [pc : {"none", "loop", "done", "failed"}, offset : Nat,
             length : Nat, count : Nat, in_word : BOOLEAN]
  BY <1>1 DEF WordsInv, WordsTypeOK
<1>3. /\ t.pc = "loop" /\ t.length = 0 /\ Knows(i, t)
      /\ text \in Seq(BOOLEAN) /\ Len(text) =< MaxText
  BY <1>1 DEF Words!Return, WordsInv, WordsTypeOK, ThreadRight
<1> DEFINE n == t.count + (IF t.in_word THEN 1 ELSE 0)
           u == [t EXCEPT !.pc = "done"]
<1>4. /\ thread' = [thread EXCEPT ![i] = u] /\ counts' = [counts EXCEPT ![i] = n]
      /\ UNCHANGED <<text, joined, total>>
  BY <1>1 DEF Words!Return, WordsInv, WordsTypeOK
<1>5. PICK a \in Nat, e \in Nat : a = Words!ChunkOffset(i) /\ e = End(i + 1) /\ e =< Len(text)
  BY <1>3, ChunksFollow
<1>6. /\ t.offset =< Len(text) /\ t.length = (e - t.offset) % SizeT
      /\ t.count = Cardinality(Seen(a, t.offset))
      /\ t.in_word <=> a < t.offset /\ ~text[t.offset]
  BY <1>3, <1>5 DEF Knows
<1>7. t.offset = e
  <2>1. /\ e - t.offset \in Int /\ -SizeT < e - t.offset /\ e - t.offset < SizeT
        /\ SizeT \in Nat \ {0} /\ t.offset \in Nat
    BY <1>2, <1>3, <1>5, <1>6, WordConstants
  <2>2. e - t.offset = 0
    BY <1>3, <1>6, <2>1, SmallRemainder
  <2> QED BY <2>1, <2>2
<1>8. n = Cardinality(InChunk(a, e))
  <2>1. (IF t.in_word THEN 1 ELSE 0) = (IF a < e /\ ~text[e] THEN 1 ELSE 0)
    BY <1>6, <1>7, Zenon
  <2> QED BY <1>6, <1>7, <2>1, SeenAtEnd
<1>9. n \in Nat /\ u \in [pc : {"loop", "done", "failed"}, offset : Nat,
                          length : Nat, count : Nat, in_word : BOOLEAN]
  BY <1>2
<1>10. ThreadRight(i, u, n)
  <2>1. u.pc = "done"
    BY <1>2
  <2> HIDE DEF n, u
  <2> QED BY <1>5, <1>8, <2>1 DEF ThreadRight
<1> HIDE DEF n, u
<1> QED BY <1>1, <1>3, <1>4, <1>9, <1>10, RunningStep

(* A thread that fails counts nothing, and a lock changes no thread.       *)
LEMMA FailStep ==
  ASSUME WordsInv, NEW i \in Words!Threads, Words!FailMalloc(i) \/ Words!FailRead(i)
  PROVE  WordsInv'
<1>1. PICK t : t = [thread[i] EXCEPT !.pc = "failed"]
  OBVIOUS
<1>2. /\ thread[i].pc = "loop" /\ thread' = [thread EXCEPT ![i] = t]
      /\ UNCHANGED <<text, counts, joined, total>>
  BY <1>1 DEF Words!FailMalloc, Words!FailRead, WordsInv, WordsTypeOK
<1>3. t \in [pc : {"loop", "done", "failed"}, offset : Nat,
             length : Nat, count : Nat, in_word : BOOLEAN] /\ t.pc = "failed"
  BY <1>1 DEF WordsInv, WordsTypeOK
<1>4. PICK n \in Nat : counts' = [counts EXCEPT ![i] = n]
  BY <1>2 DEF WordsInv, WordsTypeOK
<1>5. ThreadRight(i, t, n)
  BY <1>3 DEF ThreadRight
<1> QED BY <1>2, <1>3, <1>4, <1>5, RunningStep

(* The threads are created in their order; the last lets main go on to     *)
(* join them.                                                              *)
LEMMA ThreadCreated ==
  ASSUME WordsInv, NEW i \in Words!Threads, Words!Create(i)
  PROVE  WordsInv'
<1> DEFINE last == NUM_THREADS - 1
<1>1. /\ last \in Words!Threads /\ last \in Nat /\ \A j \in Words!Threads : j \in Nat /\ j =< last
      /\ \A j \in Words!Threads : j \in 0 .. i \/ j \in i .. last
  BY WordConstants DEF Words!Threads
<1>2. /\ thread \in [Words!Threads -> [pc : {"none", "loop", "done", "failed"}, offset : Nat,
                                       length : Nat, count : Nat, in_word : BOOLEAN]]
      /\ thread[i].pc = "none" /\ thread' = [thread EXCEPT ![i].pc = "loop"]
      /\ \A j \in 0 .. i - 1 : thread[j].pc # "none"
      /\ UNCHANGED <<text, counts, total>>
      /\ joined' = IF i = last THEN 0 ELSE NULL
  BY DEF Words!Create, WordsInv, WordsTypeOK
<1>3. thread[last].pc = "none" /\ joined = NULL /\ total = 0
  BY <1>1, <1>2 DEF WordsInv, MainCounts
<1>4. WordsTypeOK'
  BY <1>2 DEF WordsInv, WordsTypeOK
<1>5. /\ \A j \in Words!Threads \ {i} : thread'[j] = thread[j]
      /\ thread'[i].pc = "loop" /\ thread'[i].offset = thread[i].offset
      /\ thread'[i].length = thread[i].length /\ thread'[i].count = thread[i].count
      /\ thread'[i].in_word = thread[i].in_word
  BY <1>2
<1>6. MainCounts'
  <2>1. CASE i # last
    <3>1. thread'[last].pc = "none" /\ joined' = NULL /\ total' = 0
      BY <1>1, <1>2, <1>3, <1>5, <2>1
    <3> HIDE DEF last
    <3> QED BY <3>1 DEF MainCounts, last
  <2>2. CASE i = last
    <3>1. ASSUME NEW j \in Words!Threads PROVE thread'[j].pc # "none"
      <4>1. j # i => j \in 0 .. i - 1
        BY <1>1, <2>2
      <4> QED BY <1>2, <1>5, <4>1
    <3>2. joined' = 0 /\ total' = 0 /\ joined' \in 0 .. NUM_THREADS
      BY <1>2, <1>3, <2>2, WordConstants
    <3>3. \A j \in 0 .. joined' - 1 : FALSE
      BY <3>2
    <3>4. Cardinality(WordsTo(End(0))) = 0 /\ Cardinality(SplitsTo(0)) = 0
      <4>1. End(0) = 0
        BY WordConstants DEF End, Words!chunk_size, WordsInv, WordsTypeOK
      <4>2. WordsTo(0) = {} /\ SplitsTo(0) = {}
        BY DEF WordsTo, SplitsTo
      <4> QED BY <4>1, <4>2, FS_EmptySet
    <3>5. total' = Cardinality(WordsTo(End(0))) + Cardinality(SplitsTo(0))
      BY <3>2, <3>4
    <3>6. total' = Cardinality(WordsTo(End(joined)))' + Cardinality(SplitsTo(joined))'
      BY <1>2, <3>2, <3>5, SameText
    <3>7. thread'[last].pc # "none"
      BY <1>1, <3>1
    <3> HIDE DEF last
    <3> QED BY <3>1, <3>2, <3>3, <3>6, <3>7 DEF MainCounts, last
  <2> QED BY <2>1, <2>2
<1>7. ASSUME NEW j \in Words!Threads PROVE ThreadRight(j, thread[j], counts[j])'
  <2>1. PICK u, m : u = thread'[j] /\ m = counts'[j]
    OBVIOUS
  <2>2. ThreadRight(j, thread[j], counts[j])
    BY DEF WordsInv
  <2>3. ThreadRight(j, u, m)
    <3>1. CASE j = i
      BY <1>2, <1>5, <2>1, <2>2, <3>1 DEF ThreadRight, Knows
    <3>2. CASE j # i
      BY <1>2, <1>5, <2>1, <2>2, <3>2
    <3> QED BY <3>1, <3>2
  <2> QED BY <1>2, <2>1, <2>3, RightNext
<1> QED BY <1>4, <1>6, <1>7 DEF WordsInv

(* main adds what the next thread has counted.                             *)
LEMMA JoinStep ==
  ASSUME WordsInv, Words!Join
  PROVE  WordsInv'
<1>1. /\ joined # NULL /\ joined < NUM_THREADS /\ thread[joined].pc \in {"done", "failed"}
      /\ joined' = joined + 1 /\ total' = total + counts[joined]
      /\ UNCHANGED <<text, thread, counts>>
  BY DEF Words!Join
<1>2. /\ thread[NUM_THREADS - 1].pc # "none"
      /\ \A i \in Words!Threads : thread[i].pc # "none"
      /\ joined \in 0 .. NUM_THREADS
      /\ \A i \in 0 .. joined - 1 : thread[i].pc \in {"done", "failed"}
      /\ (\A i \in 0 .. joined - 1 : thread[i].pc = "done") =>
           total = Cardinality(WordsTo(End(joined))) + Cardinality(SplitsTo(joined))
  BY <1>1, Zenon DEF WordsInv, MainCounts
<1>3. /\ joined \in Words!Threads /\ joined \in Nat /\ joined + 1 \in 0 .. NUM_THREADS
      /\ 0 .. (joined + 1) - 1 = 0 .. joined - 1 \cup {joined}
  BY <1>1, <1>2, WordConstants DEF Words!Threads
<1>4. WordsTypeOK'
  BY <1>1 DEF WordsInv, WordsTypeOK
<1>5. ASSUME NEW j \in Words!Threads PROVE ThreadRight(j, thread[j], counts[j])'
  <2>1. PICK u, m : u = thread'[j] /\ m = counts'[j]
    OBVIOUS
  <2>2. ThreadRight(j, u, m)
    BY <1>1, <2>1 DEF WordsInv
  <2> QED BY <1>1, <2>1, <2>2, RightNext
<1>6. \A i \in 0 .. joined' - 1 : thread'[i].pc \in {"done", "failed"}
  BY <1>1, <1>2, <1>3
<1>7. ASSUME \A i \in 0 .. joined' - 1 : thread'[i].pc = "done"
      PROVE  total' = Cardinality(WordsTo(End(joined + 1))) + Cardinality(SplitsTo(joined + 1))
  <2>1. (\A i \in 0 .. joined - 1 : thread[i].pc = "done") /\ thread[joined].pc = "done"
    BY <1>1, <1>3, <1>7
  <2>2. total = Cardinality(WordsTo(End(joined))) + Cardinality(SplitsTo(joined))
    BY <1>2, <2>1
  <2>3. text \in Seq(BOOLEAN)
    BY DEF WordsInv, WordsTypeOK
  <2>4. counts[joined] = Cardinality(InChunk(End(joined), End(joined + 1)))
    <3>1. ThreadRight(joined, thread[joined], counts[joined])
      BY <1>3 DEF WordsInv
    <3>2. Words!ChunkOffset(joined) = End(joined)
      BY <1>3, <2>3, ChunksFollow
    <3> QED BY <2>1, <3>1, <3>2 DEF ThreadRight
  <2> QED BY <1>1, <1>3, <2>2, <2>3, <2>4, ChunkAdds
<1>8. MainCounts'
  <2>1. (\A i \in 0 .. joined' - 1 : thread'[i].pc = "done") =>
          total' = Cardinality(WordsTo(End(joined)))' + Cardinality(SplitsTo(joined))'
    <3>1. PICK j : j = joined + 1
      OBVIOUS
    <3>2. ASSUME \A i \in 0 .. joined' - 1 : thread'[i].pc = "done"
          PROVE  total' = Cardinality(WordsTo(End(j)))' + Cardinality(SplitsTo(j))'
      BY <1>1, <1>7, <3>1, <3>2, SameText
    <3> QED BY <1>1, <3>1, <3>2
  <2>2. thread'[NUM_THREADS - 1].pc # "none" /\ joined' \in 0 .. NUM_THREADS
        /\ \A i \in Words!Threads : thread'[i].pc # "none"
    BY <1>1, <1>2, <1>3
  <2> QED BY <1>6, <2>1, <2>2 DEF MainCounts
<1> QED BY <1>4, <1>5, <1>8 DEF WordsInv

(* A lock is taken: nothing the invariant speaks of.                       *)
LEMMA WordsUnchanged ==
  ASSUME WordsInv, UNCHANGED <<text, thread, counts, joined, total>>
  PROVE  WordsInv'
<1>1. WordsTypeOK'
  BY DEF WordsInv, WordsTypeOK
<1>2. MainCounts'
  <2>1. PICK t, j, n : t = thread /\ j = joined /\ n = total
    OBVIOUS
  <2>2. thread' = t /\ joined' = j /\ total' = n
    BY <2>1
  <2>3. IF t[NUM_THREADS - 1].pc = "none" THEN j = NULL /\ n = 0
        ELSE /\ \A i \in Words!Threads : t[i].pc # "none"
             /\ j \in 0 .. NUM_THREADS
             /\ \A i \in 0 .. j - 1 : t[i].pc \in {"done", "failed"}
             /\ (\A i \in 0 .. j - 1 : t[i].pc = "done") =>
                  n = Cardinality(WordsTo(End(j))) + Cardinality(SplitsTo(j))
    BY <2>1, Zenon DEF WordsInv, MainCounts
  <2>4. Cardinality(WordsTo(End(j)))' = Cardinality(WordsTo(End(j)))
        /\ Cardinality(SplitsTo(j))' = Cardinality(SplitsTo(j))
    BY SameText
  <2> QED BY <2>2, <2>3, <2>4, Zenon DEF MainCounts
<1>3. ASSUME NEW i \in Words!Threads PROVE ThreadRight(i, thread[i], counts[i])'
  <2>1. PICK t, n : t = thread[i] /\ n = counts[i] /\ t = thread'[i] /\ n = counts'[i]
    OBVIOUS
  <2>2. ThreadRight(i, t, n)
    BY <2>1 DEF WordsInv
  <2> QED BY <2>1, <2>2, RightNext
<1> QED BY <1>1, <1>2, <1>3 DEF WordsInv

(* Every step of main and of its threads keeps the counts right.           *)
LEMMA WordsStep ==
  ASSUME WordsInv, Words!Next \/ UNCHANGED wordVars
  PROVE  WordsInv'
<1>1. CASE UNCHANGED wordVars
  BY <1>1, WordsUnchanged DEF wordVars
<1>2. CASE Words!Join
  BY <1>2, JoinStep
<1>3. ASSUME NEW i \in Words!Threads,
             \/ Words!Create(i) \/ Words!Run(i)
             \/ Words!FailMalloc(i) \/ Words!FailRead(i)
      PROVE  WordsInv'
  <2>1. CASE Words!Create(i)
    BY <2>1, ThreadCreated
  <2>2. CASE Words!Lock(i)
    BY <2>2, WordsUnchanged DEF Words!Lock
  <2>3. CASE Words!ReadBlock(i)
    BY <2>3, ReadBlockStep
  <2>4. CASE Words!Return(i)
    BY <2>4, ReturnStep
  <2>5. CASE Words!FailMalloc(i) \/ Words!FailRead(i)
    BY <2>5, FailStep
  <2> QED BY <1>3, <2>1, <2>2, <2>3, <2>4, <2>5 DEF Words!Run
<1> QED BY <1>1, <1>2, <1>3 DEF Words!Next

(* The words and the cut words of the file are those up to its end.        *)
LEMMA WordsOfFile ==
  ASSUME text \in Seq(BOOLEAN)
  PROVE  /\ Words!Words = Cardinality(WordsTo(End(NUM_THREADS)))
         /\ Words!SplitWords = Cardinality(SplitsTo(NUM_THREADS))
<1>1. Words!Words = Cardinality(WordsTo(End(NUM_THREADS)))
  <2>1. End(NUM_THREADS) = Len(text) /\ DOMAIN text = 1 .. Len(text)
    BY DEF End
  <2>2. {k \in DOMAIN text : Words!InWord(k) /\ ~Words!InWord(k + 1)}
          = WordsTo(End(NUM_THREADS))
    BY <2>1 DEF WordsTo, WordEnds
  <2> QED BY <2>2, SameWordCardinality DEF Words!Words
<1>2. Words!SplitWords = Cardinality(SplitsTo(NUM_THREADS))
  <2> DEFINE Cut(i) == /\ Words!ChunkLength(i) > 0 /\ Words!ChunkOffset(i) > 0
                       /\ Words!InWord(Words!ChunkOffset(i))
                       /\ Words!InWord(Words!ChunkOffset(i) + 1)
  <2>1. PICK N \in Nat : N = Len(text) /\ DOMAIN text = 1 .. N
    OBVIOUS
  <2>2. \A k : Words!InWord(k) => k \in 1 .. N
    BY <2>1 DEF Words!InWord
  <2>3. ASSUME NEW i \in Words!Threads
        PROVE  Cut(i) <=> i \in SplitsTo(NUM_THREADS)
    <3>1. PICK a \in Nat, l \in Nat :
            a = Words!ChunkOffset(i) /\ l = Words!ChunkLength(i) /\ a = End(i)
      BY ChunksFollow
    <3>2. /\ i \in Nat /\ i < NUM_THREADS /\ a + l = End(i + 1) /\ a + l =< N
          /\ a = a + l /\ i + 1 < NUM_THREADS => a = 0
          /\ i + 1 = NUM_THREADS => a + l = N
      BY <2>1, <3>1, ChunksFollow DEF End
    <3>3. i \in SplitsTo(NUM_THREADS)
            <=> i \in 1 .. NUM_THREADS /\ Words!InWord(a) /\ Words!InWord(a + 1)
      BY <3>1, <3>2 DEF SplitsTo, Split
    <3>4. Cut(i) <=> l > 0 /\ a > 0 /\ Words!InWord(a) /\ Words!InWord(a + 1)
      BY <3>1
    <3>5. i = 0 => a = 0
      BY <2>1, <3>1, WordConstants DEF End, Words!chunk_size
    <3>6. Words!InWord(a) => a > 0 /\ i \in 1 .. NUM_THREADS
      BY <2>2, <3>2, <3>5, WordConstants
    <3>7. Words!InWord(a) /\ Words!InWord(a + 1) => l > 0
      <4>1. Words!InWord(a + 1) => a + 1 \in 1 .. N
        BY <2>2
      <4> QED BY <3>2, <3>6, <4>1, WordConstants
    <3> QED BY <3>3, <3>4, <3>6, <3>7, Zenon
  <2>4. SplitsTo(NUM_THREADS) \subseteq Words!Threads
    <3>1. ASSUME NEW i \in 1 .. NUM_THREADS, i < NUM_THREADS PROVE i \in Words!Threads
      BY <3>1, WordConstants DEF Words!Threads
    <3> QED BY <3>1, Zenon DEF SplitsTo, Split
  <2>5. {i \in Words!Threads : Cut(i)} = SplitsTo(NUM_THREADS)
    <3> HIDE DEF Cut
    <3> QED BY <2>3, <2>4, Zenon
  <2> QED BY <2>5, SameWordCardinality DEF Words!SplitWords
<1> QED BY <1>1, <1>2

(* TotalCounts for a file of any length, any number of threads and blocks  *)
(* of any size: if every thread ends, the total is the number of words,    *)
(* and one more for each word that lies across two chunks.                 *)
THEOREM WordsCountedOnce == Spec => []TotalCounts
<1>1. Init => WordsInv
  BY WordsInit DEF Init
<1>2. WordsInv /\ [Next]_vars => WordsInv'
  BY WordsStep DEF Next, vars
<1>3. WordsInv => TotalCounts
  <2> SUFFICES ASSUME WordsInv, joined = NUM_THREADS,
                      \A i \in Words!Threads : thread[i].pc = "done"
               PROVE  total = Words!Words + Words!SplitWords
    BY DEF TotalCounts, Words!TotalCounts
  <2>1. NUM_THREADS - 1 \in Words!Threads /\ 0 .. NUM_THREADS - 1 = Words!Threads
    BY WordConstants DEF Words!Threads
  <2>2. thread[NUM_THREADS - 1].pc # "none"
    BY <2>1
  <2>3. total = Cardinality(WordsTo(End(NUM_THREADS))) + Cardinality(SplitsTo(NUM_THREADS))
    BY <2>1, <2>2, Zenon DEF WordsInv, MainCounts
  <2> QED BY <2>3, WordsOfFile DEF WordsInv, WordsTypeOK
<1> QED BY <1>1, <1>2, <1>3, PTL DEF Spec
=============================================================================
