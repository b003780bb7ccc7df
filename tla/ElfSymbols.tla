----------------------------- MODULE ElfSymbols -----------------------------
(***************************************************************************)
(* The ELF objects of src/ELF: the table of elf.c (one object per slot,    *)
(* elf_table), the table with chaining of main.c (elfs), and the list of   *)
(* symbol tables that both share (g_cache).  An object points at a symbol  *)
(* table, at nothing, or - when get_elf_func_symbols returns early in      *)
(* upsert_elf - holds what malloc returned (Wild).                         *)
(*                                                                         *)
(* A symbol is inserted by rb_insert_color alone, without rb_link_node: no *)
(* symbol table ever has a symbol, and the fix-up follows the links that   *)
(* malloc returned.                                                        *)
(*                                                                         *)
(* An entry of the cache whose strdup failed has no name; the next search  *)
(* that comes to it reads through the null pointer.                        *)
(***************************************************************************)
EXTENDS Integers, Sequences, FiniteSets, SequencesExt

CONSTANTS
  Files,         (* file names                                             *)
  Slot,          (* their hash values; two may be equal                    *)
  Tables,        (* addresses of symbol tables                             *)
  MaxRefs,       (* bound: references to one object                        *)
  FREED_SLOTS,   (* 1024: cleanup_system goes no further than that         *)
  NULL, Wild     (* the null pointer, an uninitialised one                 *)

(* The blocks of an object: headers of the program and of its sections.    *)
AllBlocks == {"phdrs", "shdrs", "shstrtab"}

Objects ==
  [filename : Files, syms : Tables \cup {NULL, Wild}, ref_count : Nat,
   blocks : SUBSET AllBlocks]

ElfAssumption ==
  /\ Slot \in [Files -> Nat] /\ MaxRefs \in Nat /\ FREED_SLOTS \in Nat
  /\ NULL # Wild /\ NULL \notin Tables /\ Wild \notin Tables
  /\ NULL \notin Objects \cup Files

Slots == {Slot[f] : f \in Files}

VARIABLES
  elf_table,   (* [slot -> object or NULL]                                 *)
  elfs,        (* [slot -> sequence of objects]                            *)
  g_cache,     (* the cache, newest first                                  *)
  live,        (* the symbol tables that are allocated                     *)
  phase        (* "running", "cleared" at the end of main, "crashed"       *)

vars == <<elf_table, elfs, g_cache, live, phase>>

Init ==
  /\ elf_table = [s \in Slots |-> NULL]
  /\ elfs = [s \in Slots |-> <<>>]
  /\ g_cache = <<>> /\ live = {}
  /\ phase = "running"

Elf(filename, syms, count, blocks) ==
  [filename |-> filename, syms |-> syms, ref_count |-> count, blocks |-> blocks]

-----------------------------------------------------------------------------
(* The steps of init_elf that can fail, in order: open, the header, its    *)
(* magic, then malloc and pread of each of three blocks.  For each step    *)
(* what is allocated when it fails and what the code then frees.           *)
P == {"phdrs"}
S == {"phdrs", "shdrs"}
InitFailures ==
  <<<<{}, {}>>, <<{}, {}>>, <<{}, {}>>,
    <<{}, {}>>, <<P, P>>, <<P, P>>, <<S, S>>, <<S, S>>, <<AllBlocks, AllBlocks>>>>

(* What the object holds after init_elf: every block or what was not freed.*)
InitBlocks ==
  {AllBlocks} \cup {InitFailures[i][1] \ InitFailures[i][2] :
                      i \in DOMAIN InitFailures}

(* Takes the head of the list for the entry of the file. *)
find_head_in_cache(filename) ==
  IF g_cache = <<>> THEN NULL ELSE g_cache[1].symbols

(* Where the walk through the cache ends: at the entry of the file or at   *)
(* one without a name, 0 if it meets neither.                              *)
Walked(filename) ==
  SelectInSeq(g_cache, LAMBDA e : e.filename \in {filename, NULL})

Nameless(filename) ==
  Walked(filename) # 0 /\ g_cache[Walked(filename)].filename = NULL

find_in_cache(filename) ==
  IF Walked(filename) = 0 THEN NULL ELSE g_cache[Walked(filename)].symbols

(* add_to_cache: the entry or its name may fail to be allocated. *)
Cached(filename, symbols) ==
  {g_cache} \cup {<<[filename |-> name, symbols |-> symbols]>> \o g_cache :
                    name \in {filename, NULL}}

(* process_symbol_table for a file with a symbol table: the section it     *)
(* reads may not exist or malloc fail; the table is returned, with no      *)
(* symbol in it; or the malloc of a symbol or its name fails, and the      *)
(* table is forgotten.  Answers the outcomes [returned, made].             *)
process_symbol_table ==
  LET Result(r, m) == [returned |-> r, made |-> m]
  IN {Result(NULL, {})}
     \cup {Result(t, {t}) : t \in Tables \ live}
     \cup {Result(NULL, {t}) : t \in Tables \ live}

(* What get_elf_func_symbols can return and what it leaves in syms, unless *)
(* it crashes.  Answers the outcomes [returned, syms, cache, made].        *)
get_elf_func_symbols(filename, syms) ==
  LET Result(r, s, c, m) == [returned |-> r, syms |-> s, cache |-> c, made |-> m]
      found == find_in_cache(filename)
  IN IF Nameless(filename) THEN {}
     ELSE IF found # NULL THEN {Result(found, found, g_cache, {})}
     ELSE {Result(NULL, syms, g_cache, {}),      (* not opened, not an ELF *)
           Result(NULL, NULL, g_cache, {})}      (* no symbol table        *)
          \cup UNION {{Result(t.returned, t.returned, c, t.made) :
                          c \in IF t.returned = NULL THEN {g_cache}
                                ELSE Cached(filename, t.returned)} :
                        t \in process_symbol_table}

Loaded(o) == g_cache' = o.cache /\ live' = live \cup o.made

(* The insertion of a symbol follows links that malloc returned; before it *)
(* its address is looked up in program headers that init_elf may have      *)
(* freed.  Both are undefined: the program goes on or crashes.             *)
InsertCrash ==
  /\ phase = "running" /\ Tables \ live # {}
  /\ phase' = "crashed"
  /\ UNCHANGED <<elf_table, elfs, g_cache, live>>

(* upsert_elf: whichever object is in the slot is taken for the file's;    *)
(* init_elf is not checked, so the object is stored whether it fails or    *)
(* not.                                                                    *)
upsert_elf(filename) ==
  LET s == Slot[filename] IN
  /\ phase = "running"
  /\ IF elf_table[s] # NULL
     THEN /\ elf_table[s].ref_count < MaxRefs
          /\ elf_table' = [elf_table EXCEPT ![s].ref_count = @ + 1]
          /\ UNCHANGED <<g_cache, live>>
     ELSE \E o \in get_elf_func_symbols(filename, Wild), b \in InitBlocks :
            /\ Loaded(o)
            /\ elf_table' = [elf_table EXCEPT ![s] = Elf(filename, o.syms, 1, b)]
  /\ UNCHANGED <<elfs, phase>>

find_elf(filename) ==
  SelectInSeq(elfs[Slot[filename]], LAMBDA e : e.filename = filename)

(* get_elf for an object that is in the table. *)
GetElf(filename) ==
  /\ phase = "running" /\ find_elf(filename) # 0
  /\ elfs[Slot[filename]][find_elf(filename)].ref_count < MaxRefs
  /\ elfs' = [elfs EXCEPT ![Slot[filename]][find_elf(filename)].ref_count = @ + 1]
  /\ UNCHANGED <<elf_table, g_cache, live, phase>>

(* create_elf takes the symbols it got for a failure, and a failure for    *)
(* success: the object joins the chain without symbols or not at all.      *)
CreateElf(filename) ==
  /\ phase = "running" /\ find_elf(filename) = 0
  /\ \E o \in get_elf_func_symbols(filename, NULL) :
       /\ Loaded(o)
       /\ \/ UNCHANGED elfs       (* a malloc fails, or symbols were found *)
          \/ /\ o.returned = NULL
             /\ elfs' = [elfs EXCEPT ![Slot[filename]] =
                           Append(@, Elf(filename, o.syms, 0, {}))]
  /\ UNCHANGED <<elf_table, phase>>

(* upsert_elf or create_elf looks the file up and comes to an entry        *)
(* without a name.                                                         *)
NamelessEntry(filename) ==
  /\ phase = "running" /\ Nameless(filename)
  /\ elf_table[Slot[filename]] = NULL \/ find_elf(filename) = 0
  /\ phase' = "crashed"
  /\ UNCHANGED <<elf_table, elfs, g_cache, live>>

(* get_symbol_name of a wild object reads where it points.  An empty tree  *)
(* has no name to answer, whatever its uninitialised count says.           *)
GetSymbolName(slot) ==
  /\ phase = "running" /\ elf_table[slot] # NULL
  /\ elf_table[slot].syms = Wild /\ phase' = "crashed"
  /\ UNCHANGED <<elf_table, elfs, g_cache, live>>

(* The symbol tables that are left when the cache has been freed. *)
clear_symbol_gcache == live \ {g_cache[i].symbols : i \in DOMAIN g_cache}

(* cleanup_system, which leaves the slots from FREED_SLOTS on, and         *)
(* clear_symbol_gcache, the end of main.                                   *)
Clear ==
  /\ phase = "running" /\ phase' = "cleared"
  /\ live' = clear_symbol_gcache
  /\ g_cache' = <<>>
  /\ elfs' = [s \in Slots |-> IF s < FREED_SLOTS THEN <<>> ELSE elfs[s]]
  /\ UNCHANGED elf_table

Next ==
  \/ \E f \in Files : upsert_elf(f) \/ GetElf(f) \/ CreateElf(f) \/ NamelessEntry(f)
  \/ \E s \in Slots : GetSymbolName(s)
  \/ InsertCrash
  \/ Clear

-----------------------------------------------------------------------------
(* As long as main runs, an object points at a symbol table that is        *)
(* allocated and was made for its file, whichever table the object is in   *)
(* and whoever made the table, entries that lost their name excepted; the  *)
(* cache has one entry for a file; and init_elf leaves all of its blocks   *)
(* or, where it failed, none.                                              *)
SymbolsShared ==
  phase = "running" =>
    LET objects == {elf_table[s] : s \in Slots} \ {NULL}
        entries == {g_cache[i] : i \in DOMAIN g_cache}
    IN /\ \A a \in objects \cup entries, b \in objects \cup entries :
            LET syms(x) == IF x \in entries THEN x.symbols ELSE x.syms
            IN syms(a) \in Tables =>
                 /\ syms(a) \in live
                 /\ syms(a) = syms(b) =>
                      a.filename = b.filename \/ NULL \in {a.filename, b.filename}
       /\ \A e \in objects : e.blocks \in {{}, AllBlocks}
       /\ \A i, j \in DOMAIN g_cache :
            g_cache[i].filename = g_cache[j].filename /\ g_cache[i].filename # NULL
              => i = j
=============================================================================
