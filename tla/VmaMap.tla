------------------------------- MODULE VmaMap -------------------------------
(***************************************************************************)
(* src/VMA/vma.cpp: processes in a std::map, each with a std::map from the *)
(* start of a mapping to the mapping.  sys maps the PIDs asked for so far  *)
(* to their process (the keys of the map are its domain).                  *)
(***************************************************************************)
EXTENDS MapsFile

Init == InitFiles /\ sys = <<>>

(* A line as parse_line stores it. *)
parse_line(l) ==
  [start |-> l.start, end |-> l.end]

(* vmas[start] = vma for each line. *)
load_process_vmas(file) ==
  LET starts == {file[i].start : i \in DOMAIN file}
  IN [s \in starts |->
        parse_line(file[SelectLastInSeq(file, LAMBDA l : l.start = s)])]

(* create_process: a PID that is in the map is not read again, also when   *)
(* its file could not be opened the first time.                            *)
create_process(pid) ==
  IF pid \in DOMAIN sys THEN sys[pid]
  ELSE IF files[pid] = NULL THEN [valid |-> FALSE, vmas |-> <<>>, file |-> <<>>]
  ELSE [valid |-> TRUE, vmas |-> load_process_vmas(files[pid]),
        file |-> files[pid]]

(* upper_bound and one step back: the last mapping that starts at or       *)
(* before the address.                                                     *)
find_vma(proc, addr) ==
  LET before == {s \in DOMAIN proc.vmas : s =< addr}
      it     == proc.vmas[CHOOSE s \in before : \A t \in before : t =< s]
  IN IF before # {} /\ it.start =< addr /\ addr < it.end THEN it ELSE NULL

get_process_vma_info(pid, addr) ==
  LET proc == create_process(pid) IN
  /\ sys' = [p \in DOMAIN sys \cup {pid} |-> IF p = pid THEN proc ELSE sys[p]]
  /\ Answer(addr, proc.file,
            IF proc.valid THEN find_vma(proc, addr) ELSE NULL)
  /\ UNCHANGED files

Next ==
  \E pid \in Pids :
    Remap(pid) \/ \E addr \in Addrs : get_process_vma_info(pid, addr)
=============================================================================
