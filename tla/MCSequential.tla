---------------------------- MODULE MCSequential ----------------------------
(***************************************************************************)
(* The C and C++ programs in which nothing runs at the same time, one of   *)
(* which is chosen at the start: the programs that look an address up, the *)
(* symbol caches of src/ELF, the structures of src/Redis_data_struct and   *)
(* the scheduler.  Those that do not run stay at one initial state.        *)
(***************************************************************************)
EXTENDS MapPrograms

CONSTANTS
  ElfFiles, Slot, Tables, MaxRefs, FREED_SLOTS, Wild,
  Keys, Vals, HashOf, SizeMask, MaxUsed,
  ListNodes, SkipNodes, Scores, MAX_LEVEL, Header,
  MaxTasks, Times, Lengths, IntRange

VARIABLES
  mem, contents,
  elf_table, elfs, g_cache, live, phase,
  tasks, waiting, heap, currentTime, filling, result

Elfs  == INSTANCE ElfSymbols WITH Files <- ElfFiles
Table == INSTANCE RedisTable
List  == INSTANCE RedisList WITH Nodes <- ListNodes
Skip  == INSTANCE SkipList WITH Nodes <- SkipNodes
Cpu   == INSTANCE TaskScheduler

ASSUME SequentialAssumption == Elfs!ElfAssumption /\ Cpu!SchedulerAssumption

mapVars    == <<files, sys, answer>>
structVars == <<mem, contents>>
elfVars    == <<elf_table, elfs, g_cache, live, phase>>
cpuVars    == <<tasks, waiting, heap, currentTime, filling, result>>
allVars    == <<program, mapVars, structVars, elfVars, cpuVars>>

MapsIdle    == files = NULL /\ sys = NULL /\ answer = NULL
StructsIdle == mem = NULL /\ contents = NULL

InitStructs ==
  \/ program = "dict" /\ Table!Init("dict")
  \/ program = "set" /\ Table!Init("set")
  \/ program = "list" /\ List!Init
  \/ program = "skip list" /\ Skip!Init

AllInit ==
  /\ Elfs!Init /\ Cpu!Init
  /\ \/ Init /\ StructsIdle /\ tasks = <<>>
     \/ MapsIdle /\ InitStructs /\ tasks = <<>>
     \/ MapsIdle /\ StructsIdle /\ program = "symbols" /\ tasks = <<>>
     \/ MapsIdle /\ StructsIdle /\ program = "scheduler"

StructsNext ==
  \/ program \in {"dict", "set"} /\ Table!Next
  \/ program = "list" /\ List!Next
  \/ program = "skip list" /\ Skip!Next

AllNext ==
  \/ Next /\ UNCHANGED <<structVars, elfVars, cpuVars>>
  \/ StructsNext /\ UNCHANGED <<program, mapVars, elfVars, cpuVars>>
  \/ /\ program = "symbols" /\ Elfs!Next
     /\ UNCHANGED <<program, mapVars, structVars, cpuVars>>
  \/ /\ program = "scheduler" /\ Cpu!Next
     /\ UNCHANGED <<program, mapVars, structVars, elfVars>>

AllSpec == AllInit /\ [][AllNext]_allVars

-----------------------------------------------------------------------------
(* The two ELF tables and the symbol cache stay together.                  *)
SymbolsShared == Elfs!SymbolsShared

(* Each structure of src/Redis_data_struct answers what the calls before   *)
(* add up to, and keeps nothing once it is freed.                          *)
StructuresRight ==
  /\ program \in {"dict", "set"} => Table!TableRight
  /\ program = "list" => List!ListRight
  /\ program = "skip list" => Skip!SkipListRight

(* The scheduler runs every task once, and always the least of its heap.   *)
LeastOfHeapNext == Cpu!LeastOfHeapNext

-----------------------------------------------------------------------------
Line(start, end, kinds) ==
  [start |-> start, end |-> end, named |-> "named" \in kinds,
   long |-> "long" \in kinds, wide |-> "wide" \in kinds]

(* A kernel thread, a program with adjacent mappings and a gap, one with a *)
(* long line and one mapping at the top, and one with enough mappings to   *)
(* turn the tree.                                                          *)
MCLayouts ==
  {<<>>,
   <<Line(1, 2, {"named"}), Line(2, 4, {}), Line(5, 6, {"named"})>>,
   <<Line(0, 1, {"named", "long"}), Line(2, 3, {"named"}),
     Line(4, 5, {"named", "wide"})>>,
   <<Line(0, 1, {"named"}), Line(1, 2, {}), Line(2, 3, {"named"}),
     Line(3, 4, {"named"}), Line(4, 5, {"named"})>>}

(* Two of the files share a slot. *)
MCSlot == [f \in {"a.out", "b.out", "c.out"} |-> IF f = "c.out" THEN 1 ELSE 0]

(* Two of the keys share a slot. *)
MCHashOf == [k \in {"k1", "k2", "k3"} |-> IF k = "k2" THEN 1 ELSE 2]

MCGarbage == {[start |-> 0, end |-> 0], [start |-> 2, end |-> 6]}
=============================================================================
