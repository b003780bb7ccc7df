------------------------------- MODULE VmaPid -------------------------------
(***************************************************************************)
(* src/VMA/pid.cpp: main reads the maps of one process into one map from   *)
(* every single address to its mapping, looks one address up and clears    *)
(* the map.  sys is the pair of global maps; the map of the addresses is   *)
(* shared by all processes and find_vma does not look at the PID, so main  *)
(* depends on the cleanup before the next one is read.                     *)
(***************************************************************************)
EXTENDS MapsFile

NoMaps == [processes_vma_maps |-> <<>>, addr_vma_map |-> <<>>]

Init == InitFiles /\ sys = NoMaps

parse_line(l) ==
  [start |-> l.start, end |-> l.end]

(* A file that cannot be opened reads as an empty one. *)
Content(pid) == IF files[pid] = NULL THEN <<>> ELSE files[pid]

(* Every address from start up to, but not including, end. *)
Within(vmas, addr) ==
  SelectLastInSeq(vmas, LAMBDA v : v.start =< addr /\ addr < v.end)

parse_maps_file(pid) ==
  /\ sys = NoMaps
  /\ LET vmas  == [i \in DOMAIN Content(pid) |-> parse_line(Content(pid)[i])]
         fresh == {a \in Addrs : Within(vmas, a) # 0}
     IN sys' = [processes_vma_maps |-> [p \in {pid} |-> Content(pid)],
                addr_vma_map |-> [a \in fresh |-> vmas[Within(vmas, a)]]]
  /\ UNCHANGED <<files, answer>>

(* find_vma and cleanup. *)
find_vma(pid, addr) ==
  /\ pid \in DOMAIN sys.processes_vma_maps
  /\ Answer(addr, sys.processes_vma_maps[pid],
            IF addr \in DOMAIN sys.addr_vma_map THEN sys.addr_vma_map[addr]
                                                ELSE NULL)
  /\ sys' = NoMaps
  /\ UNCHANGED files

Next ==
  \E pid \in Pids :
    \/ Remap(pid)
    \/ parse_maps_file(pid)
    \/ \E addr \in Addrs : find_vma(pid, addr)
=============================================================================
