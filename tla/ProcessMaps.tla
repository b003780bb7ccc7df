----------------------------- MODULE ProcessMaps -----------------------------
(***************************************************************************)
(* The process table of src/ELF/main.c and the parser of src/ELF/vma.c: a  *)
(* hash table with chaining of processes, each with a red-black tree of    *)
(* its mappings, read once and searched from then on.  sys is the table,   *)
(* one sequence of processes per slot, and whether the program has crashed.*)
(* (main itself leaves the pointers to its tables null, see the README;    *)
(* the calls are modelled for a caller that allocates them.)               *)
(***************************************************************************)
EXTENDS MapsFile

CONSTANTS
  HASHTABLE_SIZE,   (* slots of the process table                          *)
  MaxVmas           (* bound: mappings of a process                        *)

Rb == INSTANCE RbOps WITH Nodes <- 1 .. MaxVmas

hash(pid) == pid % HASHTABLE_SIZE

Init ==
  /\ InitFiles
  /\ sys = [nodes |-> [i \in 0 .. HASHTABLE_SIZE - 1 |-> <<>>],
            crashed |-> FALSE]

-----------------------------------------------------------------------------
(* What fgets reads: a long line arrives in two pieces, and no number in   *)
(* the second: sscanf leaves start and end as malloc returned them.        *)
Pieces(file, garbage) ==
  FlattenSeq([i \in DOMAIN file |->
    LET l == file[i]
        piece == [start |-> l.start, end |-> l.end]
    IN IF l.long THEN <<piece, garbage>> ELSE <<piece>>])

(* The tree after the first k mappings were inserted. *)
TreeOf(vmas) ==
  LET starts == [i \in 1 .. MaxVmas |->
                   IF i \in DOMAIN vmas THEN vmas[i].start ELSE 0]
      tree[k \in 0 .. Len(vmas)] ==
        IF k = 0 THEN Rb!EmptyTree
        ELSE LET at == Rb!Place(tree[k - 1], starts, k)
             IN Rb!rb_insert_color(Rb!rb_link_node(tree[k - 1], k, at[1], at[2]), k)
  IN tree[Len(vmas)]

parse_process_maps(file, garbage) ==
  LET vmas == Pieces(file, garbage)
  IN [vmas |-> vmas, vma_tree |-> TreeOf(vmas)]

(* The position of the process in its chain, 0 if it is not there. *)
find_process(pid) ==
  SelectInSeq(sys.nodes[hash(pid)], LAMBDA p : p.pid = pid)

(* find_new_process for a PID that is not in the table.  The maps file may *)
(* not open and malloc may fail while it is read: the call fails and the   *)
(* table stays as it is.  The malloc of the table's node is not checked.   *)
GetNewProcess(pid) ==
  /\ ~sys.crashed /\ find_process(pid) = 0
  /\ \/ UNCHANGED sys
     \/ sys' = [sys EXCEPT !.crashed = TRUE] /\ files[pid] # NULL
     \/ /\ files[pid] # NULL
        /\ \E g \in Garbage :
             LET maps == parse_process_maps(files[pid], g)
                 new  == [pid |-> pid, file |-> files[pid],
                          vmas |-> maps.vmas, vma_tree |-> maps.vma_tree]
             IN sys' = [sys EXCEPT !.nodes[hash(pid)] = Append(@, new)]
  /\ UNCHANGED <<files, answer>>

(* Goes left at the end of a mapping as well: one address too far. *)
find_vma_past_end(proc, addr) ==
  LET vma(n) == proc.vmas[n]
      search[n \in DOMAIN proc.vmas \cup {NULL}] ==
        IF n = NULL THEN NULL
        ELSE IF addr < vma(n).start THEN search[proc.vma_tree.kid[n]["left"]]
        ELSE IF addr > vma(n).end THEN search[proc.vma_tree.kid[n]["right"]]
        ELSE vma(n)
  IN search[proc.vma_tree.root]

find_vma_from_process(proc, addr) ==
  LET vma(n) == proc.vmas[n]
      search[n \in DOMAIN proc.vmas \cup {NULL}] ==
        IF n = NULL THEN NULL
        ELSE IF addr < vma(n).start THEN search[proc.vma_tree.kid[n]["left"]]
        ELSE IF addr >= vma(n).end THEN search[proc.vma_tree.kid[n]["right"]]
        ELSE vma(n)
  IN search[proc.vma_tree.root]

(* get_process of a PID in the table and get_vma_from_process. *)
GetVma(pid, addr) ==
  /\ ~sys.crashed /\ find_process(pid) # 0
  /\ LET proc == sys.nodes[hash(pid)][find_process(pid)]
     IN Answer(addr, proc.file, find_vma_from_process(proc, addr))
  /\ UNCHANGED <<files, sys>>

Next ==
  \E pid \in Pids :
    \/ Remap(pid)
    \/ GetNewProcess(pid)
    \/ \E addr \in Addrs : GetVma(pid, addr)
=============================================================================
