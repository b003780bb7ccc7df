------------------------------ MODULE ProcScan ------------------------------
(***************************************************************************)
(* The clean-up timer of src/ELF/elf.c: every 30 seconds it walks through  *)
(* /proc and cleans up after processes that have ended or whose PID has    *)
(* been given to another process.  It looks at a process three times (its  *)
(* start time, its directory, its start time again) while processes end    *)
(* and start.  A process is its PID and its start time.                    *)
(*                                                                         *)
(* The start time is the 22nd field of stat, and the code takes the 22nd   *)
(* word: each gap between words in the name, the second field, makes that  *)
(* an earlier field.  A process may change its name at any time.           *)
(***************************************************************************)
EXTENDS Integers, FiniteSets

CONSTANTS
  MaxPid,      (* PIDs are 1 .. MaxPid                                     *)
  MaxStarts,   (* bound: processes started                                 *)
  Counters,    (* bound: what num_threads and the fields before it hold    *)
  NULL

ScanAssumption ==
  MaxPid \in Nat /\ MaxStarts \in Nat \ {0} /\ Counters \subseteq Nat

Pids == 1 .. MaxPid

VARIABLES
  start,      (* /proc: the start time of each process, 0 if there is none *)
  now,        (* the start times so far                                    *)
  gaps,       (* the gaps in the name of each process, 2 for any more      *)
  pc,         (* "sleep", "readdir", "first", "stat", "second"             *)
  pid,        (* the entry of /proc the scan has come to                   *)
  original,   (* original_start_time                                       *)
  seen,       (* the process that readdir saw (not in the code)            *)
  timed,      (* original_start_time is a start time (not in the code)     *)
  cleaned     (* NULL or the clean-up after that entry: which process was  *)
              (* seen, which was there then, whether a read had failed,    *)
              (* and whether what was read were start times                *)

vars == <<start, now, gaps, pc, pid, original, seen, timed, cleaned>>

Init ==
  /\ start \in [Pids -> 0 .. 1] /\ now = 1 /\ gaps = [p \in Pids |-> 0]
  /\ pc = "sleep" /\ pid = 0 /\ original = 0 /\ seen = 0 /\ timed = TRUE
  /\ cleaned = NULL

(* The kernel: a process ends, or a PID that is free is given away. *)
End(p) ==
  /\ start[p] # 0 /\ start' = [start EXCEPT ![p] = 0]
  /\ gaps' = [gaps EXCEPT ![p] = 0]
  /\ UNCHANGED <<now, pc, pid, original, seen, timed, cleaned>>

Begin(p) ==
  /\ start[p] = 0 /\ now < MaxStarts
  /\ now' = now + 1 /\ start' = [start EXCEPT ![p] = now']
  /\ UNCHANGED <<gaps, pc, pid, original, seen, timed, cleaned>>

(* A process gives itself a name: exec, prctl(PR_SET_NAME) or its comm. *)
Rename(p, n) ==
  /\ start[p] # 0 /\ gaps' = [gaps EXCEPT ![p] = n]
  /\ UNCHANGED <<start, now, pc, pid, original, seen, timed, cleaned>>

-----------------------------------------------------------------------------
(* sleep(30) is over; opendir may fail, then there is no scan. *)
Wake ==
  /\ pc = "sleep"
  /\ \/ pc' = "readdir"
     \/ pc' = "sleep"
  /\ pid' = 0 /\ original' = 0 /\ seen' = 0 /\ timed' = TRUE
  /\ UNCHANGED <<start, now, gaps, cleaned>>

(* The next numeric entry of /proc, in the order of the PIDs, or its end.  *)
ReadDir ==
  /\ pc = "readdir"
  /\ LET left == {p \in Pids : p > pid /\ start[p] # 0}
     IN IF left = {} THEN pc' = "sleep" /\ UNCHANGED <<pid, seen>>
        ELSE \E p \in left :
               /\ \A q \in left : p =< q
               /\ pc' = "first" /\ pid' = p /\ seen' = start[p]
  /\ timed' = TRUE /\ cleaned' = NULL
  /\ UNCHANGED <<start, now, gaps, original>>

(* The clean-up of the process data, which the code leaves to be written:  *)
(* a message.  The scan goes on.                                           *)
CleanUp(failed, times) ==
  /\ cleaned' = [seen |-> seen, there |-> start[pid], failed |-> failed,
                 timed |-> times]
  /\ pc' = "readdir"

Keep == pc' = "readdir" /\ UNCHANGED cleaned

(* The 22nd word: the start time, itrealvalue, which is always 0, or a     *)
(* counter or priority, which changes while the process lives.             *)
Words22 ==
  IF gaps[pid] = 0 THEN {start[pid]}
  ELSE IF gaps[pid] = 1 THEN {0}
  ELSE Counters

(* get_process_start_time answers -1: stat cannot be opened (the process   *)
(* has ended, or there is no descriptor left) or read, or the word is -1.  *)
Unreadable == CleanUp(start[pid] # 0, timed)

(* Takes the start time once a scan, of the first process it looks at. *)
ReadStartOnce ==
  /\ pc = "first"
  /\ \/ /\ start[pid] # 0
        /\ \E w \in Words22 :
             original' = IF original = 0 THEN w ELSE original
        /\ timed' = (gaps[pid] = 0)
        /\ pc' = "stat" /\ UNCHANGED cleaned
     \/ Unreadable /\ UNCHANGED <<original, timed>>
  /\ UNCHANGED <<start, now, gaps, pid, seen>>

(* get_process_start_time. *)
ReadStart ==
  /\ pc = "first"
  /\ \/ /\ start[pid] # 0
        /\ original' \in Words22 /\ timed' = (gaps[pid] = 0)
        /\ pc' = "stat" /\ UNCHANGED cleaned
     \/ Unreadable /\ UNCHANGED <<original, timed>>
  /\ UNCHANGED <<start, now, gaps, pid, seen>>

(* stat of the directory. *)
Stat ==
  /\ pc = "stat"
  /\ \/ start[pid] # 0 /\ pc' = "second" /\ UNCHANGED cleaned
     \/ CleanUp(start[pid] # 0, timed)
  /\ UNCHANGED <<start, now, gaps, pid, original, seen, timed>>

(* is_pid_reused: 1 when the word has changed or the process is gone, -1,  *)
(* which counts as true as well, when it cannot be read.                   *)
IsPidReused ==
  /\ pc = "second"
  /\ \/ /\ start[pid] # 0
        /\ \E w \in Words22 :
             IF w # original THEN CleanUp(FALSE, timed /\ gaps[pid] = 0) ELSE Keep
     \/ Unreadable
  /\ UNCHANGED <<start, now, gaps, pid, original, seen, timed>>

Next ==
  \/ \E p \in Pids : End(p) \/ Begin(p) \/ \E n \in 0 .. 2 : Rename(p, n)
  \/ Wake \/ ReadDir \/ ReadStart \/ Stat \/ IsPidReused

Spec == Init /\ [][Next]_vars

-----------------------------------------------------------------------------
(* A process that readdir saw is cleaned up after only when it has ended,  *)
(* whether its PID has another process by then or not, when one of the     *)
(* three reads failed, or when its name made one of the words something    *)
(* else: the start times of two processes are never compared.              *)
CleansOnlyGone ==
  cleaned # NULL =>
    cleaned.failed \/ cleaned.there # cleaned.seen \/ ~cleaned.timed

(* elf.c:534, "the start time differs, the PID has been given away": a     *)
(* clean-up after reads that all succeeded is of a process that has ended. *)
DiffersOnlyIfReused ==
  cleaned # NULL => cleaned.failed \/ cleaned.there # cleaned.seen
=============================================================================
