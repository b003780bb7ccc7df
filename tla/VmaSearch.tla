------------------------------ MODULE VmaSearch ------------------------------
(***************************************************************************)
(* src/VMA/Vma-search: processes and their mappings in arrays that grow by *)
(* one with realloc.  sys is the system_info of one run of main, where the *)
(* run stands, and the heap: the allocated blocks, each named for what     *)
(* points at it, so that what main's loops at the end miss stays behind.   *)
(***************************************************************************)
EXTENDS MapsFile

NoRun == [procs |-> <<>>, pc |-> "ready", heap |-> {}, failed |-> FALSE]

Init == InitFiles /\ sys = NoRun

(* sscanf wants six fields: a mapping without a path name is dropped, the  *)
(* array grows by one for each of the others.                              *)
Kept(file) ==
  LET kept[i \in 0 .. Len(file)] ==
        IF i = 0 THEN <<>>
        ELSE IF file[i].named THEN Append(kept[i - 1], file[i]) ELSE kept[i - 1]
  IN kept[Len(file)]

(* A wide range leaves start_end: its last digit may be lost, or what lies *)
(* behind be read as more of them (spill), or no harm is done (NULL).      *)
parse_virtual_memory_area(l, spill) ==
  [start |-> l.start, end |-> IF l.wide /\ spill # NULL THEN spill ELSE l.end]

load_process_vmas(file, spill) ==
  [i \in DOMAIN Kept(file) |-> parse_virtual_memory_area(Kept(file)[i], spill)]

Spills == {NULL} \cup {g.end : g \in Garbage}

(* The names of the mappings, which strdup allocates. *)
Names(vmas) == {<<"name", i>> : i \in DOMAIN vmas}

(* The blocks that the array of mappings and its names are in: a strdup    *)
(* that fails goes unnoticed.                                              *)
VmaBlocks(vmas, names) ==
  names \cup (IF vmas = <<>> THEN {} ELSE {<<"vmas", 0>>})

(* A line that may end the run: its range or its path, which arrives as a  *)
(* line of its own, overruns start_end, or the realloc for it fails.       *)
MayCrash(file) ==
  \E i \in DOMAIN file : file[i].named \/ file[i].wide \/ file[i].long

(* read_process_info: name and command line (read_file answers "" for a    *)
(* file in /proc, whose size is 0), start time (of "" there is no 22nd     *)
(* field) and link.  A process that ends in between makes one of the reads *)
(* fail; what was read before stays allocated.                             *)
Reads == <<{}, {<<"comm", 0>>}, {<<"comm", 0>>, <<"cmdline", 0>>}>>

ReadProcessInfo(pid) ==
  /\ sys.pc = "ready"
  /\ \/ /\ files[pid] # NULL
        /\ \E link \in {{}, {<<"exe", 0>>}} :
             sys' = [sys EXCEPT !.pc = "load", !.heap = Reads[3] \cup link]
     \/ \E i \in DOMAIN Reads :
          sys' = [sys EXCEPT !.pc = "exited", !.failed = TRUE,
                             !.heap = Reads[i]]
  /\ UNCHANGED <<files, answer>>

(* load_process_vmas fails: name, command line and link are freed.         *)
LoadFails ==
  /\ sys.pc = "load"
  /\ sys' = [sys EXCEPT !.pc = "exited", !.failed = TRUE, !.heap = {}]
  /\ UNCHANGED <<files, answer>>

(* load_process_vmas and the realloc of the table, which may fail as well: *)
(* then everything the process points at is freed.                         *)
Load(pid) ==
  /\ sys.pc = "load" /\ files[pid] # NULL
  /\ \/ \E spill \in Spills :
          LET vmas == load_process_vmas(files[pid], spill)
              new  == [pid |-> pid, vmas |-> vmas, file |-> files[pid]]
          IN \E names \in SUBSET Names(vmas) :
               sys' = [sys EXCEPT !.pc = "found", !.procs = <<new>>,
                                  !.heap = sys.heap \cup VmaBlocks(vmas, names)
                                           \cup {<<"procs", 0>>}]
     \/ sys' = [sys EXCEPT !.pc = "exited", !.failed = TRUE, !.heap = {}]
     \/ /\ MayCrash(files[pid])
        /\ sys' = [sys EXCEPT !.pc = "crashed", !.heap = {}]
  /\ UNCHANGED <<files, answer>>

(* The position of the process in procs. *)
find_process(pid) == SelectInSeq(sys.procs, LAMBDA p : p.pid = pid)

find_vma(proc, addr) == FirstCovering(proc.vmas, addr)

(* main frees the mappings without their names. *)
FreedWithoutNames(proc) ==
  {<<"comm", 0>>, <<"cmdline", 0>>, <<"exe", 0>>, <<"vmas", 0>>, <<"procs", 0>>}

(* What the loops at the end of main free. *)
Freed(proc) ==
  {<<"comm", 0>>, <<"cmdline", 0>>, <<"exe", 0>>, <<"vmas", 0>>, <<"procs", 0>>}
    \cup Names(proc.vmas)

(* get_process_vma_info and the rest of main. *)
get_process_vma_info(pid, addr) ==
  /\ sys.pc = "found" /\ find_process(pid) # 0
  /\ LET proc == sys.procs[find_process(pid)]
     IN /\ Answer(addr, proc.file, find_vma(proc, addr))
        /\ sys' = [sys EXCEPT !.pc = "exited", !.procs = <<>>,
                              !.heap = sys.heap \ Freed(proc)]
  /\ UNCHANGED files

(* The next run. *)
Restart ==
  /\ sys.pc \in {"exited", "crashed"} /\ sys' = NoRun
  /\ UNCHANGED <<files, answer>>

Next ==
  \/ \E pid \in Pids :
       \/ Remap(pid)
       \/ ReadProcessInfo(pid)
       \/ Load(pid)
       \/ \E addr \in Addrs : get_process_vma_info(pid, addr)
  \/ LoadFails
  \/ Restart

(* A run of main that answers leaves no block allocated, however many      *)
(* mappings were read and whether the link was readable or not: the blocks *)
(* of the process, its mappings and their names are freed.                 *)
FreedOnSuccess == sys.pc = "exited" /\ ~sys.failed => sys.heap = {}
=============================================================================
