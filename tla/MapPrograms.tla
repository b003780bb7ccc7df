----------------------------- MODULE MapPrograms -----------------------------
(***************************************************************************)
(* The four programs that look an address up in a maps file, each on its   *)
(* own: one is chosen at the start.  The properties are the same for all:  *)
(* each must answer what its file says, as far as it reads it.             *)
(***************************************************************************)
EXTENDS MapsFile

VARIABLE program   (* the program that runs *)

vars == <<files, sys, answer, program>>

CONSTANTS HASHTABLE_SIZE, MaxVmas

ELF    == INSTANCE ProcessMaps
Map    == INSTANCE VmaMap
Pid    == INSTANCE VmaPid
Search == INSTANCE VmaSearch

(* The bound holds every file.                                             *)
ASSUME MapProgramsAssumption ==
  /\ HASHTABLE_SIZE \in Nat \ {0} /\ Pids \subseteq Nat
  /\ MaxVmas \in Nat /\ NULL \notin 1 .. MaxVmas
  /\ \A f \in Layouts, g \in Garbage : Len(ELF!Pieces(f, g)) =< MaxVmas

Init ==
  \/ program = "ELF/main.c" /\ ELF!Init
  \/ program = "VMA/vma.cpp" /\ Map!Init
  \/ program = "VMA/pid.cpp" /\ Pid!Init
  \/ program = "VMA/Vma-search" /\ Search!Init

Next ==
  /\ \/ program = "ELF/main.c" /\ ELF!Next
     \/ program = "VMA/vma.cpp" /\ Map!Next
     \/ program = "VMA/pid.cpp" /\ Pid!Next
     \/ program = "VMA/Vma-search" /\ Search!Next
  /\ UNCHANGED program

Spec == Init /\ [][Next]_vars

-----------------------------------------------------------------------------
(* The lines that ELF/main.c reads whole. *)
AllShort(file) == \A i \in DOMAIN file : ~file[i].long

(* The lines that Vma-search passes over. *)
Unread(line) == program = "VMA/Vma-search" /\ ~line.named

(* Vma-search has come to an address from which it may have read an end    *)
(* that is not in the file.                                                *)
Overrun(file, addr) ==
  /\ program = "VMA/Vma-search"
  /\ \E i \in DOMAIN file : file[i].wide /\ file[i].start =< addr

(* Every program answers with the mapping of the file that contains the    *)
(* address, from its first address up to its last, and with nothing for an *)
(* address between two mappings, whatever was asked before and however the *)
(* files have changed since it was read: by tree, map or loop.  What each  *)
(* leaves out of the file is left out here: Vma-search finds nothing in a  *)
(* mapping without a path name and is free from the first wide range on,   *)
(* ELF/main.c in a file with lines that it reads in two pieces.            *)
FindsMapping ==
  answer # NULL /\ (program = "ELF/main.c" => AllShort(answer.file)) =>
    LET line  == FirstCovering(answer.file, answer.addr)
        found == answer.found
    IN \/ found = NULL /\ (line = NULL \/ Unread(line))
       \/ /\ found # NULL /\ line # NULL
          /\ found.start = line.start /\ found.end = line.end
       \/ Overrun(answer.file, answer.addr)

(* Vma-search/main.cpp frees at its end what its process holds.            *)
FreedOnSuccess == program = "VMA/Vma-search" => Search!FreedOnSuccess
=============================================================================
