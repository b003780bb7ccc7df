------------------------------ MODULE MapsFile ------------------------------
(***************************************************************************)
(* What the four programs that look up an address in /proc/<pid>/maps have *)
(* in common: the files, which the kernel changes while they run, and the  *)
(* answer to the last question, with the lines it was found among.         *)
(*                                                                         *)
(* A line is one mapping [start, end).  It is "named" when it ends with a  *)
(* path name, "long" when it does not fit the 255 characters ELF/vma.c     *)
(* reads at once, and "wide" when its range, with two addresses of 16      *)
(* digits, has 33 characters (Vma-search has room for 31).  The kernel     *)
(* writes mappings in address order.                                       *)
(***************************************************************************)
EXTENDS Integers, Sequences, FiniteSets, SequencesExt

CONSTANTS
  Pids,      (* process IDs                                              *)
  Layouts,   (* the contents that a maps file can have                   *)
  Addrs,     (* the addresses that are asked for                         *)
  Garbage,   (* what start and end can be that were not read: [start,end)*)
  NULL       (* a null pointer; for a file: there is no such process     *)

Vmas == [start : Int, end : Int]

Lines ==
  [start : Int, end : Int, named : BOOLEAN, long : BOOLEAN, wide : BOOLEAN]

ASSUME LayoutsAssumption ==
  /\ Addrs \subseteq Int /\ Garbage \subseteq Vmas
  /\ NULL \notin Layouts \cup Lines \cup Vmas \cup Int
  /\ \A f \in Layouts :
       /\ f \in Seq(Lines)
       /\ \A i \in DOMAIN f : f[i].start < f[i].end
       /\ \A i, j \in DOMAIN f : i < j => f[i].end =< f[j].start

VARIABLES
  files,    (* /proc/<pid>/maps of each process                          *)
  sys,      (* what the program keeps (each program says what)           *)
  answer    (* the last answer, NULL before the first                    *)

InitFiles == files \in [Pids -> Layouts \cup {NULL}] /\ answer = NULL

(* The process maps, unmaps, protects, starts or ends. *)
Remap(pid) ==
  /\ \E f \in (Layouts \cup {NULL}) \ {files[pid]} :
       files' = [files EXCEPT ![pid] = f]
  /\ UNCHANGED <<sys, answer>>

(* The first of the vmas that contains the address, NULL if none does. *)
FirstCovering(vmas, addr) ==
  LET at == SelectInSeq(vmas, LAMBDA v : v.start =< addr /\ addr < v.end)
  IN IF at = 0 THEN NULL ELSE vmas[at]

(* The program answers found, which it found among what it read in file. *)
Answer(addr, file, found) ==
  answer' = [addr |-> addr, file |-> file, found |-> found]
=============================================================================
