--------------------------- MODULE SequentialProofs ---------------------------
(***************************************************************************)
(* What the run of MCSequential checks of all its programs but the ones of *)
(* src/Redis_data_struct, for every value of the constants.                *)
(*                                                                         *)
(* The two tables of ELF objects share their symbol tables safely.         *)
(* Objects and cache entries are claims of a file to a symbol table.  A    *)
(* call either repeats a claim that the cache makes for the same file, or  *)
(* makes a claim to a table that nobody claimed before, or has none; and   *)
(* tables are freed only when main ends.                                   *)
(*                                                                         *)
(* A run of Vma-search that answers frees all it has allocated: at every   *)
(* step the blocks that are allocated are among those that the loops at    *)
(* the end of main reach from the one process there is.                    *)
(*                                                                         *)
(* The heap of the scheduler hands out its least task: one swap moves the  *)
(* only place where the heap is out of order one level up or down, and     *)
(* there are no more levels than nodes.                                    *)
(*                                                                         *)
(* The programs that look an address up answer what their file says, as    *)
(* far as they read it: lines that two of them pass over or read wrong are *)
(* excepted.  What they keep is always made of files they have read, and   *)
(* in each of the four forms - the red-black tree, the map from the        *)
(* starts, the map of single addresses, the array - a search comes to the  *)
(* one line that holds the address.  The tree is the one of RbOps: that it *)
(* is built and searched right rests on the lemmas of RbShapeProofs.       *)
(***************************************************************************)
EXTENDS MCSequential, FiniteSetTheorems, WellFoundedInduction, SequenceTheorems, TLAPS

(***************************************************************************)
(* The symbol caches                                                       *)
(***************************************************************************)

ElfObjects ==
  [filename : ElfFiles, syms : Tables \cup {NULL, Wild}, ref_count : Nat,
   blocks : {{}, Elfs!AllBlocks}]
CacheEntries == [filename : ElfFiles \cup {NULL}, symbols : Tables]

ElfTypeOK ==
  /\ elf_table \in [Elfs!Slots -> ElfObjects \cup {NULL}]
  /\ g_cache \in Seq(CacheEntries)
  /\ live \subseteq Tables
  /\ phase \in {"running", "cleared", "crashed"}

(* Which file claims which symbol table; an entry that lost its name has   *)
(* none to claim it for.                                                   *)
Claims ==
  {<<elf_table[s].filename, elf_table[s].syms>> :
     s \in {s \in Elfs!Slots : elf_table[s] # NULL}}
  \cup {<<g_cache[i].filename, g_cache[i].symbols>> : i \in DOMAIN g_cache}

ClaimsRight ==
  /\ \A p \in Claims : p[2] \in live \cup {NULL, Wild}
  /\ \A p, q \in Claims :
       p[2] \in Tables /\ p[2] = q[2] => p[1] = q[1] \/ NULL \in {p[1], q[1]}

OneEntry ==
  \A i, j \in DOMAIN g_cache :
    g_cache[i].filename = g_cache[j].filename /\ g_cache[i].filename # NULL => i = j

ElfInv == ElfTypeOK /\ (phase = "running" => ClaimsRight /\ OneEntry)

-----------------------------------------------------------------------------
(* What stands for no table and for a wild pointer is neither a table nor  *)
(* an object.                                                              *)
LEMMA NullIsNothing ==
  /\ NULL \notin Tables /\ Wild \notin Tables /\ NULL # Wild
  /\ NULL \notin ElfObjects /\ NULL \notin ElfFiles
<1>1. ElfObjects \subseteq Elfs!Objects
  BY DEF ElfObjects, Elfs!Objects
<1> QED BY <1>1, SequentialAssumption DEF Elfs!ElfAssumption

(* Numbers have a least one among them. *)
LEMMA MinIsMember ==
  ASSUME NEW I, I \subseteq Nat, I # {}
  PROVE  Elfs!Min(I) \in I
<1> DEFINE R == {ss \in Nat \X Nat : ss[1] < ss[2]}
<1>0. IsWellFoundedOn(R, Nat)
  BY NatLessThanWellFounded, Zenon DEF OpToRel
<1>1. PICK x \in I : \A y \in I : <<y, x>> \notin R
  <2> HIDE DEF R
  <2> QED BY <1>0, WFMin
<1>2. ASSUME NEW y \in I PROVE x =< y
  <2>1. x \in Nat /\ y \in Nat /\ ~ (y < x)
    BY <1>1
  <2> QED BY <2>1
<1> QED BY <1>2 DEF Elfs!Min

(* The walk through the cache meets no entry of the file, or one that lost *)
(* its name, or the search answers the table of an entry of the file.      *)
LEMMA FindInCache ==
  ASSUME ElfTypeOK, NEW f \in ElfFiles
  PROVE  \/ /\ Elfs!find_in_cache(f) = NULL
            /\ \A i \in DOMAIN g_cache : g_cache[i].filename \notin {f, NULL}
         \/ Elfs!Nameless(f)
         \/ /\ Elfs!find_in_cache(f) \in Tables
            /\ <<f, Elfs!find_in_cache(f)>> \in Claims
<1> DEFINE I == {i \in 1..Len(g_cache) : g_cache[i].filename \in {f, NULL}}
<1>1. Elfs!Walked(f) = IF I # {} THEN Elfs!Min(I) ELSE 0
  BY DEF Elfs!Walked, Elfs!SelectInSeq
<1>2. DOMAIN g_cache = 1..Len(g_cache) /\ Len(g_cache) \in Nat
  BY DEF ElfTypeOK
<1>3. CASE I = {}
  <2>1. Elfs!find_in_cache(f) = NULL
    BY <1>1, <1>3 DEF Elfs!find_in_cache
  <2> QED BY <1>2, <1>3, <2>1
<1>4. CASE I # {}
  <2>1. PICK at : at = Elfs!Walked(f)
    OBVIOUS
  <2>2. at \in I
    BY <1>1, <1>2, <1>4, <2>1, MinIsMember
  <2>3. /\ at \in DOMAIN g_cache /\ at # 0
        /\ g_cache[at].filename \in {f, NULL}
    BY <1>2, <2>2
  <2>4. g_cache[at] \in CacheEntries
    BY <2>3 DEF ElfTypeOK
  <2> HIDE DEF I
  <2>5. CASE g_cache[at].filename = NULL
    BY <2>1, <2>3, <2>5 DEF Elfs!Nameless
  <2>6. CASE g_cache[at].filename = f
    <3>1. Elfs!find_in_cache(f) = g_cache[at].symbols
      BY <2>1, <2>3 DEF Elfs!find_in_cache
    <3> QED BY <2>3, <2>4, <2>6, <3>1 DEF Claims, CacheEntries
  <2> QED BY <2>3, <2>5, <2>6
<1> QED BY <1>3, <1>4

(* Whatever get_elf_func_symbols meets, it hands out no table - and may    *)
(* forget one -, or one that the cache has for this file, or one that      *)
(* nobody had.                                                             *)
Outcome(f, o) ==
  \/ o.syms \in {NULL, Wild} /\ o.made \subseteq Tables /\ o.cache = g_cache
  \/ /\ o.syms \in Tables /\ <<f, o.syms>> \in Claims
     /\ o.made = {} /\ o.cache = g_cache
  \/ /\ o.syms \in Tables \ live /\ o.made = {o.syms}
     /\ \/ o.cache = g_cache
        \/ \E name \in {f, NULL} :
             o.cache = <<[filename |-> name, symbols |-> o.syms]>> \o g_cache
     /\ \A i \in DOMAIN g_cache : g_cache[i].filename \notin {f, NULL}

(* Every way that get_elf_func_symbols can end is one of those outcomes. *)
LEMMA GetSymbols ==
  ASSUME ElfTypeOK, NEW f \in ElfFiles, NEW syms \in {NULL, Wild},
         NEW o \in Elfs!get_elf_func_symbols(f, syms)
  PROVE  Outcome(f, o)
<1>1. NULL \notin Tables /\ ~ Elfs!Nameless(f)
  BY NullIsNothing DEF Elfs!get_elf_func_symbols
<1>2. CASE Elfs!find_in_cache(f) # NULL
  <2>1. o = [returned |-> Elfs!find_in_cache(f), syms |-> Elfs!find_in_cache(f),
             cache |-> g_cache, made |-> {}]
    BY <1>1, <1>2 DEF Elfs!get_elf_func_symbols
  <2> QED BY <1>1, <1>2, <2>1, FindInCache DEF Outcome
<1>3. CASE Elfs!find_in_cache(f) = NULL
  <2>1. \A i \in DOMAIN g_cache : g_cache[i].filename \notin {f, NULL}
    BY <1>1, <1>3, FindInCache
  <2> DEFINE Without(s) ==
               [returned |-> NULL, syms |-> s, cache |-> g_cache, made |-> {}]
             Caches(t) == IF t.returned = NULL THEN {g_cache}
                          ELSE Elfs!Cached(f, t.returned)
  <2>2. \/ o = Without(syms) \/ o = Without(NULL)
        \/ \E t \in Elfs!process_symbol_table : \E c \in Caches(t) :
             o = [returned |-> t.returned, syms |-> t.returned, cache |-> c,
                  made |-> t.made]
    BY <1>1, <1>3 DEF Elfs!get_elf_func_symbols
  <2>3. CASE o = Without(syms) \/ o = Without(NULL)
    BY <2>3 DEF Outcome
  <2>4. ASSUME NEW t \in Elfs!process_symbol_table, NEW c \in Caches(t),
               o = [returned |-> t.returned, syms |-> t.returned, cache |-> c,
                    made |-> t.made]
        PROVE  Outcome(f, o)
    <3>1. o.syms = t.returned /\ o.cache = c /\ o.made = t.made
      BY <2>4
    <3>2. \/ t.returned = NULL /\ t.made \subseteq Tables
          \/ t.returned \in Tables \ live /\ t.made = {t.returned}
      BY DEF Elfs!process_symbol_table
    <3>3. CASE t.returned = NULL
      <4>1. c = g_cache /\ t.made \subseteq Tables
        BY <1>1, <3>2, <3>3
      <4> QED BY <3>1, <3>3, <4>1 DEF Outcome
    <3>4. CASE t.returned # NULL
      <4>1. c \in Elfs!Cached(f, t.returned)
        BY <3>4
      <4>2. \/ o.cache = g_cache
            \/ \E name \in {f, NULL} :
                 o.cache = <<[filename |-> name, symbols |-> o.syms]>> \o g_cache
        BY <3>1, <4>1, Zenon DEF Elfs!Cached
      <4>3. o.syms \in Tables \ live /\ o.made = {o.syms}
        BY <3>1, <3>2, <3>4
      <4> QED BY <2>1, <4>2, <4>3, Zenon DEF Outcome
    <3> QED BY <3>3, <3>4
  <2> QED BY <2>2, <2>3, <2>4
<1> QED BY <1>2, <1>3

(* init_elf leaves every block or, where it failed, none. *)
LEMMA BlocksAllOrNone == Elfs!InitBlocks \subseteq {{}, Elfs!AllBlocks}
BY DEF Elfs!InitBlocks, Elfs!InitFailures, Elfs!P, Elfs!S, Elfs!AllBlocks

(* The cache after a call: still one entry for a file, and no claim that   *)
(* was not there but the one just made, with or without the name.          *)
LEMMA LoadedCache ==
  ASSUME ElfInv, phase = "running", NEW f \in ElfFiles,
         NEW o, Outcome(f, o), Elfs!Loaded(o)
  PROVE  /\ g_cache' \in Seq(CacheEntries) /\ live' \subseteq Tables
         /\ live \subseteq live' /\ OneEntry'
         /\ o.syms \in live' \cup {NULL, Wild}
         /\ \A i \in DOMAIN g_cache' :
              <<g_cache'[i].filename, g_cache'[i].symbols>>
                \in Claims \cup {<<f, o.syms>>, <<NULL, o.syms>>}
<1> USE DEF Elfs!Loaded
<1>1. ElfTypeOK /\ ClaimsRight /\ OneEntry
  BY DEF ElfInv
<1>2. CASE g_cache' = g_cache
  <2>1. o.syms \in live' \cup {NULL, Wild}
    BY <1>1 DEF Outcome, ClaimsRight
  <2>2. live' \subseteq Tables
    BY <1>1 DEF Outcome, ElfTypeOK
  <2> QED BY <1>1, <1>2, <2>1, <2>2 DEF ElfTypeOK, OneEntry, Claims
<1>3. CASE g_cache' # g_cache
  <2>1. /\ o.syms \in Tables \ live /\ o.made = {o.syms}
        /\ \A i \in DOMAIN g_cache : g_cache[i].filename \notin {f, NULL}
        /\ \E name \in {f, NULL} :
             g_cache' = <<[filename |-> name, symbols |-> o.syms]>> \o g_cache
    BY <1>3 DEF Outcome
  <2>2. PICK e : /\ e \in CacheEntries /\ e.filename \in {f, NULL} /\ e.symbols = o.syms
                 /\ g_cache' = <<e>> \o g_cache
    <3>1. PICK name \in {f, NULL} :
            g_cache' = <<[filename |-> name, symbols |-> o.syms]>> \o g_cache
      BY <2>1
    <3>2. [filename |-> name, symbols |-> o.syms] \in CacheEntries
      BY <2>1 DEF CacheEntries
    <3> QED BY <3>1, <3>2
  <2>3. g_cache \in Seq(CacheEntries) /\ live \subseteq Tables
    BY <1>1 DEF ElfTypeOK
  <2>4. /\ g_cache' \in Seq(CacheEntries)
        /\ DOMAIN g_cache' = 1..(Len(g_cache) + 1)
        /\ DOMAIN g_cache = 1..Len(g_cache) /\ Len(g_cache) \in Nat
        /\ g_cache'[1] = e
        /\ \A i \in 2..(Len(g_cache) + 1) : g_cache'[i] = g_cache[i - 1]
    BY <2>2, <2>3
  <2>5. OneEntry'
    <3> SUFFICES ASSUME NEW i \in DOMAIN g_cache', NEW j \in DOMAIN g_cache',
                        g_cache'[i].filename = g_cache'[j].filename,
                        g_cache'[i].filename # NULL
                 PROVE  i = j
      BY DEF OneEntry
    <3>1. ASSUME NEW k \in DOMAIN g_cache', k # 1
          PROVE  /\ k - 1 \in DOMAIN g_cache /\ g_cache'[k] = g_cache[k - 1]
                 /\ g_cache'[k].filename \notin {f, NULL}
      BY <2>1, <2>4, <3>1
    <3>2. i \in Int /\ j \in Int
      BY <2>4
    <3>3. CASE i = 1 \/ j = 1
      BY <2>2, <2>4, <3>1, <3>3
    <3>4. CASE i # 1 /\ j # 1
      <4>1. i - 1 = j - 1
        BY <1>1, <3>1, <3>4 DEF OneEntry
      <4> QED BY <3>2, <4>1
    <3> QED BY <3>3, <3>4
  <2>6. ASSUME NEW i \in DOMAIN g_cache'
        PROVE  <<g_cache'[i].filename, g_cache'[i].symbols>>
                 \in Claims \cup {<<f, o.syms>>, <<NULL, o.syms>>}
    <3>1. CASE i = 1
      BY <2>2, <2>4, <3>1
    <3>2. CASE i # 1
      <4>1. i - 1 \in DOMAIN g_cache /\ g_cache'[i] = g_cache[i - 1]
        BY <2>4, <3>2
      <4> QED BY <4>1 DEF Claims
    <3> QED BY <3>1, <3>2
  <2> QED BY <2>1, <2>3, <2>4, <2>5, <2>6
<1> QED BY <1>2, <1>3

(* The claim just made agrees with every other. *)
LEMMA ClaimAdded ==
  ASSUME ElfInv, phase = "running", NEW f \in ElfFiles,
         NEW o, Outcome(f, o), Elfs!Loaded(o),
         Claims' \subseteq Claims \cup {<<f, o.syms>>, <<NULL, o.syms>>}
  PROVE  ClaimsRight'
<1>1. ElfTypeOK /\ ClaimsRight
  BY DEF ElfInv
<1>2. live \subseteq live' /\ o.syms \in live' \cup {NULL, Wild}
  BY LoadedCache
<1>3. \A p \in Claims' : p[2] \in live' \cup {NULL, Wild}
  BY <1>1, <1>2 DEF ClaimsRight
<1>4. ASSUME NEW p \in Claims, o.syms \in Tables, p[2] = o.syms
      PROVE  p[1] = f \/ NULL = p[1]
  <2>1. NULL \notin Tables /\ Wild \notin Tables
    BY NullIsNothing
  <2>2. p[2] \in live
    BY <1>1, <1>4, <2>1 DEF ClaimsRight
  <2>3. <<f, o.syms>> \in Claims
    BY <1>4, <2>1, <2>2 DEF Outcome
  <2>4. f # NULL
    BY NullIsNothing
  <2> QED BY <1>1, <1>4, <2>3, <2>4 DEF ClaimsRight
<1>5. ASSUME NEW p \in Claims', NEW q \in Claims', p[2] \in Tables, p[2] = q[2]
      PROVE  p[1] = q[1] \/ NULL \in {p[1], q[1]}
  <2>1. CASE p \in Claims /\ q \in Claims
    BY <1>1, <1>5, <2>1 DEF ClaimsRight
  <2>2. CASE p = <<f, o.syms>> /\ q \in Claims
    BY <1>4, <1>5, <2>2
  <2>3. CASE p \in Claims /\ q = <<f, o.syms>>
    BY <1>4, <1>5, <2>3
  <2>4. CASE p = <<f, o.syms>> /\ q = <<f, o.syms>>
    BY <2>4
  <2>5. CASE p = <<NULL, o.syms>> \/ q = <<NULL, o.syms>>
    BY <2>5
  <2> QED BY <2>1, <2>2, <2>3, <2>4, <2>5
<1> QED BY <1>3, <1>5 DEF ClaimsRight

-----------------------------------------------------------------------------
(* One lemma for each action that changes what the invariant is about.     *)
LEMMA UpsertStep ==
  ASSUME ElfInv, NEW f \in ElfFiles, Elfs!upsert_elf(f)
  PROVE  ElfInv'
<1> DEFINE s == Slot[f]
<1>1. s \in Elfs!Slots /\ phase = "running" /\ phase' = phase
  BY DEF Elfs!upsert_elf, Elfs!Slots
<1>2. ElfTypeOK /\ ClaimsRight /\ OneEntry
  BY <1>1 DEF ElfInv
<1>3. NULL \notin ElfObjects
  BY NullIsNothing
<1>4. CASE elf_table[s] # NULL
  <2>1. /\ elf_table' = [elf_table EXCEPT ![s].ref_count = @ + 1]
        /\ g_cache' = g_cache /\ live' = live
    BY <1>4 DEF Elfs!upsert_elf
  <2>2. elf_table[s] \in ElfObjects
    BY <1>1, <1>2, <1>4 DEF ElfTypeOK
  <2> DEFINE n == [elf_table[s] EXCEPT !.ref_count = @ + 1]
  <2>3. /\ n \in ElfObjects /\ n.filename = elf_table[s].filename
        /\ n.syms = elf_table[s].syms
    BY <2>2 DEF ElfObjects
  <2>4. elf_table' = [elf_table EXCEPT ![s] = n]
    BY <2>1
  <2> HIDE DEF n
  <2>5. /\ elf_table' \in [Elfs!Slots -> ElfObjects \cup {NULL}]
        /\ elf_table'[s] = n /\ n # NULL
        /\ \A r \in Elfs!Slots \ {s} : elf_table'[r] = elf_table[r]
    BY <1>1, <1>2, <1>3, <2>3, <2>4 DEF ElfTypeOK
  <2>6. ElfTypeOK'
    BY <1>1, <1>2, <2>1, <2>5 DEF ElfTypeOK
  <2>7. Claims' = Claims
    BY <1>1, <1>4, <2>1, <2>3, <2>5 DEF Claims
  <2>8. ClaimsRight' /\ OneEntry'
    BY <1>2, <2>1, <2>7 DEF ClaimsRight, OneEntry
  <2> QED BY <2>6, <2>8 DEF ElfInv
<1>5. CASE elf_table[s] = NULL
  <2>1. PICK o \in Elfs!get_elf_func_symbols(f, Wild), b \in Elfs!InitBlocks :
          /\ Elfs!Loaded(o)
          /\ elf_table' = [elf_table EXCEPT ![s] = Elfs!Elf(f, o.syms, 1, b)]
    BY <1>5 DEF Elfs!upsert_elf
  <2>2. Outcome(f, o)
    BY <1>2, GetSymbols
  <2>3. /\ g_cache' \in Seq(CacheEntries) /\ live' \subseteq Tables /\ OneEntry'
        /\ o.syms \in live' \cup {NULL, Wild}
        /\ \A i \in DOMAIN g_cache' :
             <<g_cache'[i].filename, g_cache'[i].symbols>>
               \in Claims \cup {<<f, o.syms>>, <<NULL, o.syms>>}
    BY <1>1, <2>1, <2>2, LoadedCache
  <2> DEFINE n == Elfs!Elf(f, o.syms, 1, b)
  <2>4. n \in ElfObjects /\ n.filename = f /\ n.syms = o.syms
    BY <2>3, BlocksAllOrNone DEF Elfs!Elf, ElfObjects
  <2> HIDE DEF n
  <2>5. /\ elf_table' \in [Elfs!Slots -> ElfObjects \cup {NULL}]
        /\ elf_table'[s] = n /\ n # NULL
        /\ \A r \in Elfs!Slots \ {s} : elf_table'[r] = elf_table[r]
    BY <1>1, <1>2, <1>3, <2>1, <2>4 DEF ElfTypeOK, n
  <2>6. ElfTypeOK'
    BY <1>1, <1>2, <2>3, <2>5 DEF ElfTypeOK
  <2>7. Claims' \subseteq Claims \cup {<<f, o.syms>>, <<NULL, o.syms>>}
    BY <2>3, <2>4, <2>5 DEF Claims
  <2>8. ClaimsRight'
    BY <1>1, <2>1, <2>2, <2>7, ClaimAdded
  <2> QED BY <2>3, <2>6, <2>8 DEF ElfInv
<1> QED BY <1>4, <1>5

(* CreateElf's object is in the other table: only the cache gets a claim. *)
LEMMA CreateStep ==
  ASSUME ElfInv, NEW f \in ElfFiles, Elfs!CreateElf(f)
  PROVE  ElfInv'
<1>1. phase = "running" /\ phase' = phase /\ elf_table' = elf_table
  BY DEF Elfs!CreateElf
<1>2. ElfTypeOK
  BY DEF ElfInv
<1>3. PICK o \in Elfs!get_elf_func_symbols(f, NULL) : Elfs!Loaded(o)
  BY DEF Elfs!CreateElf
<1>4. Outcome(f, o)
  BY <1>2, GetSymbols
<1>5. /\ g_cache' \in Seq(CacheEntries) /\ live' \subseteq Tables /\ OneEntry'
      /\ \A i \in DOMAIN g_cache' :
           <<g_cache'[i].filename, g_cache'[i].symbols>>
             \in Claims \cup {<<f, o.syms>>, <<NULL, o.syms>>}
  BY <1>1, <1>3, <1>4, LoadedCache
<1>6. Claims' \subseteq Claims \cup {<<f, o.syms>>, <<NULL, o.syms>>}
  BY <1>1, <1>5 DEF Claims
<1>7. ClaimsRight'
  BY <1>1, <1>3, <1>4, <1>6, ClaimAdded
<1>8. ElfTypeOK'
  BY <1>1, <1>2, <1>5 DEF ElfTypeOK
<1> QED BY <1>5, <1>7, <1>8 DEF ElfInv

(* The end of main, or of the program. *)
LEMMA EndStep ==
  ASSUME ElfInv,
         \/ Elfs!Clear \/ Elfs!InsertCrash
         \/ \E s \in Elfs!Slots : Elfs!GetSymbolName(s)
         \/ \E f \in ElfFiles : Elfs!NamelessEntry(f)
  PROVE  ElfInv'
<1>1. elf_table' = elf_table /\ phase' \in {"cleared", "crashed"}
  BY DEF Elfs!Clear, Elfs!InsertCrash, Elfs!GetSymbolName, Elfs!NamelessEntry
<1>2. (g_cache' = g_cache \/ g_cache' = <<>>) /\ live' \subseteq live
  BY DEF Elfs!Clear, Elfs!InsertCrash, Elfs!GetSymbolName, Elfs!NamelessEntry,
         Elfs!clear_symbol_gcache
<1>3. ElfTypeOK
  BY DEF ElfInv
<1>4. g_cache' \in Seq(CacheEntries)
  <2>1. CASE g_cache' = <<>>
    BY <2>1
  <2>2. CASE g_cache' = g_cache
    BY <1>3, <2>2 DEF ElfTypeOK
  <2> QED BY <1>2, <2>1, <2>2
<1>5. ElfTypeOK'
  BY <1>1, <1>2, <1>3, <1>4 DEF ElfTypeOK
<1> QED BY <1>1, <1>5 DEF ElfInv

-----------------------------------------------------------------------------
(* With both tables empty nobody claims anything. *)
LEMMA ElfInit ==
  ASSUME Elfs!Init
  PROVE  ElfInv
<1>1. Claims = {}
  BY DEF Elfs!Init, Claims
<1> QED BY <1>1 DEF Elfs!Init, ElfInv, ElfTypeOK, ClaimsRight, OneEntry

(* The operations on the tables, one by one. *)
LEMMA ElfStep ==
  ASSUME ElfInv, Elfs!Next \/ UNCHANGED elfVars
  PROVE  ElfInv'
<1>1. CASE \E f \in ElfFiles : Elfs!upsert_elf(f)
  BY <1>1, UpsertStep
<1>2. CASE \E f \in ElfFiles : Elfs!GetElf(f)
  BY <1>2 DEF Elfs!GetElf, ElfInv, ElfTypeOK, ClaimsRight, Claims, OneEntry
<1>3. CASE \E f \in ElfFiles : Elfs!CreateElf(f)
  BY <1>3, CreateStep
<1>4. CASE \/ Elfs!Clear \/ Elfs!InsertCrash
           \/ \E s \in Elfs!Slots : Elfs!GetSymbolName(s)
           \/ \E f \in ElfFiles : Elfs!NamelessEntry(f)
  BY <1>4, EndStep
<1>5. CASE UNCHANGED elfVars
  BY <1>5 DEF elfVars, ElfInv, ElfTypeOK, ClaimsRight, Claims, OneEntry
<1> QED BY <1>1, <1>2, <1>3, <1>4, <1>5 DEF Elfs!Next

(* The invariant makes the sharing safe. *)
LEMMA InvariantShares ==
  ASSUME ElfInv
  PROVE  Elfs!SymbolsShared
<1> SUFFICES ASSUME phase = "running" PROVE Elfs!SymbolsShared
  BY DEF Elfs!SymbolsShared
<1>1. ElfTypeOK /\ ClaimsRight /\ OneEntry
  BY DEF ElfInv
<1> DEFINE objects == {elf_table[s] : s \in Elfs!Slots} \ {NULL}
           entries == {g_cache[i] : i \in DOMAIN g_cache}
           syms(x) == IF x \in entries THEN x.symbols ELSE x.syms
<1>2. objects \subseteq ElfObjects /\ entries \subseteq CacheEntries
  BY <1>1 DEF ElfTypeOK
<1>3. \A x \in objects \cup entries : <<x.filename, syms(x)>> \in Claims
  <2>1. \A x \in entries : <<x.filename, x.symbols>> \in Claims
    BY DEF Claims
  <2>2. \A x \in objects : <<x.filename, x.syms>> \in Claims
    BY DEF Claims
  <2> QED BY <2>1, <2>2
<1>4. NULL \notin Tables /\ Wild \notin Tables
  BY NullIsNothing
<1>5. ASSUME NEW a \in objects \cup entries, NEW b \in objects \cup entries,
             syms(a) \in Tables
      PROVE  /\ syms(a) \in live
             /\ syms(a) = syms(b) =>
                  a.filename = b.filename \/ NULL \in {a.filename, b.filename}
  <2> HIDE DEF objects, entries, syms
  <2> DEFINE p == <<a.filename, syms(a)>>
             q == <<b.filename, syms(b)>>
  <2>1. p \in Claims /\ q \in Claims
    BY <1>3
  <2>2. p[2] \in live \cup {NULL, Wild}
    BY <1>1, <2>1 DEF ClaimsRight
  <2>3. p[2] \in Tables /\ p[2] = q[2] => p[1] = q[1] \/ NULL \in {p[1], q[1]}
    BY <1>1, <2>1 DEF ClaimsRight
  <2> QED BY <1>4, <1>5, <2>2, <2>3
<1>6. \A e \in objects : e.blocks \in {{}, Elfs!AllBlocks}
  BY <1>2 DEF ElfObjects
<1> QED BY <1>1, <1>5, <1>6 DEF Elfs!SymbolsShared, OneEntry

(* So the claims are right at every step. *)
LEMMA ElfAlways == AllSpec => []ElfInv
<1>1. AllInit => ElfInv
  BY ElfInit DEF AllInit
<1>2. ElfInv /\ [AllNext]_allVars => ElfInv'
  BY ElfStep DEF AllNext, allVars
<1> QED BY <1>1, <1>2, PTL DEF AllSpec

(* SymbolsShared holds for the two tables together, however the calls of   *)
(* either interleave and whichever reads and allocations fail: entries     *)
(* that lost their name and tables that were forgotten included.           *)
THEOREM SymbolsSharedSafely == AllSpec => []SymbolsShared
<1>1. ElfInv => SymbolsShared
  BY InvariantShares DEF SymbolsShared
<1> QED BY <1>1, ElfAlways, PTL

(***************************************************************************)
(* The blocks of Vma-search                                                *)
(***************************************************************************)

(* What a process holds before its mappings are loaded. *)
OwnBlocks == {<<"comm", 0>>, <<"cmdline", 0>>, <<"exe", 0>>}

(* While a run holds blocks, its process is the one that the loops at the  *)
(* end of main find, and what is allocated is among what they free.        *)
SearchInv ==
  /\ sys = [procs |-> sys.procs, pc |-> sys.pc, heap |-> sys.heap,
            failed |-> sys.failed]
  /\ sys.pc = "load" => sys.heap \subseteq OwnBlocks
  /\ sys.pc = "found" => \E p : sys.procs = <<p>> /\ sys.heap \subseteq Search!Freed(p)
  /\ Search!FreedOnSuccess

(* The process that is found is the one there is. *)
LEMMA FoundIsLoaded ==
  ASSUME NEW p, sys.procs = <<p>>, NEW pid, Search!find_process(pid) # 0
  PROVE  sys.procs[Search!find_process(pid)] = p
<1> DEFINE I == {i \in 1 .. Len(sys.procs) : sys.procs[i].pid = pid}
<1>1. Search!find_process(pid) = IF I # {} THEN Search!Min(I) ELSE 0
  BY DEF Search!find_process, Search!SelectInSeq
<1>2. I \subseteq {1} /\ I # {}
  BY <1>1
<1>3. I = {1}
  BY <1>2
<1>4. Search!Min(I) = 1
  <2> HIDE DEF I
  <2> QED BY <1>3 DEF Search!Min
<1> QED BY <1>1, <1>2, <1>4

(* Each read, each failure and each load keeps to the blocks that the loops *)
(* at the end of main reach.                                               *)
LEMMA SearchStep ==
  ASSUME SearchInv, Search!Next
  PROVE  SearchInv'
<1>1. ASSUME NEW pid \in Pids, Search!Remap(pid) PROVE SearchInv'
  BY <1>1 DEF SearchInv, Search!Remap, Search!FreedOnSuccess
<1>2. ASSUME NEW pid \in Pids, Search!ReadProcessInfo(pid) PROVE SearchInv'
  <2>1. ASSUME NEW link \in {{}, {<<"exe", 0>>}},
               sys' = [sys EXCEPT !.pc = "load", !.heap = Search!Reads[3] \cup link]
        PROVE  SearchInv'
    <3>1. Search!Reads[3] \cup link \subseteq OwnBlocks
      BY DEF Search!Reads, OwnBlocks
    <3>2. sys' = [procs |-> sys.procs, pc |-> "load", heap |-> Search!Reads[3] \cup link,
                  failed |-> sys.failed]
      BY <2>1 DEF SearchInv
    <3> QED BY <3>1, <3>2 DEF SearchInv, Search!FreedOnSuccess
  <2>2. ASSUME NEW blocks,
               sys' = [sys EXCEPT !.pc = "exited", !.failed = TRUE, !.heap = blocks]
        PROVE  SearchInv'
    <3>1. sys' = [procs |-> sys.procs, pc |-> "exited", heap |-> blocks, failed |-> TRUE]
      BY <2>2 DEF SearchInv
    <3> QED BY <3>1 DEF SearchInv, Search!FreedOnSuccess
  <2> QED BY <1>2, <2>1, <2>2 DEF Search!ReadProcessInfo
<1>3. ASSUME NEW pid \in Pids, Search!Load(pid) PROVE SearchInv'
  <2>1. \/ \E spill \in Search!Spills :
             \E names \in SUBSET Search!Names(Search!load_process_vmas(files[pid], spill)) :
               LET vmas == Search!load_process_vmas(files[pid], spill)
                   new  == [pid |-> pid, vmas |-> vmas, file |-> files[pid]]
               IN sys' = [sys EXCEPT !.pc = "found", !.procs = <<new>>,
                                     !.heap = sys.heap \cup Search!VmaBlocks(vmas, names)
                                              \cup {<<"procs", 0>>}]
        \/ sys' = [sys EXCEPT !.pc = "exited", !.failed = TRUE, !.heap = {}]
        \/ sys' = [sys EXCEPT !.pc = "crashed", !.heap = {}]
    BY <1>3 DEF Search!Load
  <2>2. sys.heap \subseteq OwnBlocks
    BY <1>3 DEF SearchInv, Search!Load
  <2>3. ASSUME NEW vmas, NEW names \in SUBSET Search!Names(vmas), NEW new, NEW held,
               new = [pid |-> pid, vmas |-> vmas, file |-> files[pid]],
               held = sys.heap \cup Search!VmaBlocks(vmas, names) \cup {<<"procs", 0>>},
               sys' = [sys EXCEPT !.pc = "found", !.procs = <<new>>, !.heap = held]
        PROVE  SearchInv'
    <3>1. new.vmas = vmas
      BY <2>3
    <3>2. held \subseteq Search!Freed(new)
      BY <2>2, <2>3, <3>1 DEF OwnBlocks, Search!VmaBlocks, Search!Freed
    <3>3. sys' = [procs |-> <<new>>, pc |-> "found", heap |-> held, failed |-> sys.failed]
      BY <2>3 DEF SearchInv
    <3> QED BY <3>2, <3>3 DEF SearchInv, Search!FreedOnSuccess
  <2>4. CASE sys' = [sys EXCEPT !.pc = "crashed", !.heap = {}]
    <3>1. sys' = [procs |-> sys.procs, pc |-> "crashed", heap |-> {}, failed |-> sys.failed]
      BY <2>4 DEF SearchInv
    <3> QED BY <3>1 DEF SearchInv, Search!FreedOnSuccess
  <2>5. CASE sys' = [sys EXCEPT !.pc = "exited", !.failed = TRUE, !.heap = {}]
    <3>1. sys' = [procs |-> sys.procs, pc |-> "exited", heap |-> {}, failed |-> TRUE]
      BY <2>5 DEF SearchInv
    <3> QED BY <3>1 DEF SearchInv, Search!FreedOnSuccess
  <2> QED BY <2>1, <2>3, <2>4, <2>5
<1>4. ASSUME NEW pid \in Pids, NEW addr \in Addrs, Search!get_process_vma_info(pid, addr)
      PROVE  SearchInv'
  <2>1. PICK p : sys.procs = <<p>> /\ sys.heap \subseteq Search!Freed(p)
    BY <1>4 DEF SearchInv, Search!get_process_vma_info
  <2>2. sys.procs[Search!find_process(pid)] = p
    BY <1>4, <2>1, FoundIsLoaded DEF Search!get_process_vma_info
  <2>3. sys' = [sys EXCEPT !.pc = "exited", !.procs = <<>>,
                           !.heap = sys.heap \ Search!Freed(p)]
    BY <1>4, <2>2 DEF Search!get_process_vma_info
  <2>4. sys.heap \ Search!Freed(p) = {}
    BY <2>1
  <2>5. sys' = [procs |-> <<>>, pc |-> "exited", heap |-> {}, failed |-> sys.failed]
    BY <2>3, <2>4 DEF SearchInv
  <2> QED BY <2>5 DEF SearchInv, Search!FreedOnSuccess
<1>5. ASSUME Search!LoadFails PROVE SearchInv'
  <2>1. sys' = [procs |-> sys.procs, pc |-> "exited", heap |-> {}, failed |-> TRUE]
    BY <1>5 DEF SearchInv, Search!LoadFails
  <2> QED BY <2>1 DEF SearchInv, Search!FreedOnSuccess
<1>6. ASSUME Search!Restart PROVE SearchInv'
  BY <1>6 DEF SearchInv, Search!Restart, Search!NoRun, Search!FreedOnSuccess
<1> QED BY <1>1, <1>2, <1>3, <1>4, <1>5, <1>6 DEF Search!Next

(* FreedOnSuccess, for any maps files, processes and failures: a run of    *)
(* Vma-search that answers leaves no block allocated.                      *)
THEOREM AnsweredRunsFreeAll == AllSpec => []FreedOnSuccess
<1> DEFINE I == program = "VMA/Vma-search" => SearchInv
<1>1. AllInit => I
  BY DEF AllInit, Init, MapsIdle, InitStructs, Search!Init, Search!NoRun, SearchInv,
         Search!FreedOnSuccess
<1>2. I /\ [AllNext]_allVars => I'
  <2> SUFFICES ASSUME I, [AllNext]_allVars, program' = "VMA/Vma-search" PROVE SearchInv'
    OBVIOUS
  <2>1. CASE program = "VMA/Vma-search" /\ Search!Next
    BY <2>1, SearchStep
  <2>2. CASE UNCHANGED <<program, sys>>
    BY <2>2 DEF SearchInv, Search!FreedOnSuccess
  <2> QED BY <2>1, <2>2 DEF AllNext, Next, StructsNext, allVars, mapVars
<1>3. I => FreedOnSuccess
  BY DEF SearchInv, FreedOnSuccess
<1> QED BY <1>1, <1>2, <1>3, PTL DEF AllSpec

(***************************************************************************)
(* Functions that call themselves                                          *)
(***************************************************************************)

(* Induction over the natural numbers, for a set of them.                  *)
LEMMA SetInduction ==
  ASSUME NEW S, 0 \in S, \A n \in Nat : n \in S => n + 1 \in S
  PROVE  Nat \subseteq S
<1> DEFINE R == {ss \in Nat \X Nat : ss[1] < ss[2]}
<1> SUFFICES ASSUME Nat \ S # {} PROVE FALSE
  OBVIOUS
<1>1. IsWellFoundedOn(R, Nat)
  BY NatLessThanWellFounded, Zenon DEF OpToRel
<1>2. PICK x \in Nat \ S : \A y \in Nat \ S : <<y, x>> \notin R
  <2> HIDE DEF R
  <2>1. Nat \ S \subseteq Nat
    OBVIOUS
  <2> QED BY <1>1, <2>1, WFMin
<1>3. x # 0 /\ x - 1 \in Nat /\ x - 1 < x
  BY <1>2
<1>4. <<x - 1, x>> \in R
  BY <1>3
<1>5. x - 1 \in S
  BY <1>2, <1>3, <1>4
<1> QED BY <1>2, <1>3, <1>5

(* c turns of a step that stays in a set.                                  *)
Turns(a, g, c, f) == f[0] = a /\ \A n \in 1 .. c : f[n] = g[f[n - 1]]

(* There is such a sequence of turns, of any length. *)
LEMMA TurnsExist ==
  ASSUME NEW X, NEW g \in [X -> X], NEW a \in X, NEW c \in Nat
  PROVE  \E f \in [0 .. c -> X] : Turns(a, g, c, f)
<1> DEFINE S == {n \in Nat : \E f \in [0 .. n -> X] : Turns(a, g, n, f)}
<1>1. 0 \in S
  <2>1. [n \in 0 .. 0 |-> a] \in [0 .. 0 -> X] /\ Turns(a, g, 0, [n \in 0 .. 0 |-> a])
    BY DEF Turns
  <2> QED BY <2>1
<1>2. ASSUME NEW n \in Nat, n \in S PROVE n + 1 \in S
  <2>1. PICK f \in [0 .. n -> X] : Turns(a, g, n, f)
    BY <1>2
  <2> DEFINE e == [k \in 0 .. n + 1 |-> IF k = n + 1 THEN g[f[n]] ELSE f[k]]
  <2>2. e \in [0 .. n + 1 -> X]
    OBVIOUS
  <2>3. e[0] = a
    BY <2>1 DEF Turns
  <2>4. ASSUME NEW k \in 1 .. n + 1 PROVE e[k] = g[e[k - 1]]
    <3>1. k - 1 \in 0 .. n /\ e[k - 1] = f[k - 1]
      OBVIOUS
    <3>2. CASE k = n + 1
      BY <3>1, <3>2
    <3>3. CASE k # n + 1
      <4>1. k \in 1 .. n /\ e[k] = f[k]
        BY <3>3
      <4> QED BY <2>1, <3>1, <4>1 DEF Turns
    <3> QED BY <3>2, <3>3
  <2> HIDE DEF e
  <2>5. Turns(a, g, n + 1, e)
    BY <2>3, <2>4 DEF Turns
  <2> QED BY <2>2, <2>5
<1>3. Nat \subseteq S
  <2> HIDE DEF S
  <2> QED BY <1>1, <1>2, SetInduction
<1> QED BY <1>3

(* A step that comes nearer to its end with each turn has come to it after *)
(* as many turns as it was away.                                           *)
LEMMA TurnsEnd ==
  ASSUME NEW X, NEW g \in [X -> X], NEW a \in X, NEW c \in Nat,
         NEW away \in [X -> Nat], away[a] =< c,
         \A x \in X : g[x] = x \/ away[g[x]] < away[x],
         NEW f, f[0] = a, \A n \in 1 .. c : f[n - 1] \in X => f[n] = g[f[n - 1]]
  PROVE  f[c] \in X /\ g[f[c]] = f[c]
<1> DEFINE S == {n \in Nat : n =< c => /\ f[n] \in X
                                       /\ g[f[n]] = f[n] \/ away[f[n]] =< c - n}
<1>1. 0 \in S
  OBVIOUS
<1>2. ASSUME NEW n \in Nat, n \in S, n + 1 =< c
      PROVE  /\ f[n + 1] \in X
             /\ g[f[n + 1]] = f[n + 1] \/ away[f[n + 1]] =< c - (n + 1)
  <2>1. f[n] \in X /\ (g[f[n]] = f[n] \/ away[f[n]] =< c - n)
    BY <1>2
  <2>2. n + 1 \in 1 .. c /\ n + 1 - 1 = n
    BY <1>2
  <2>3. f[n + 1] = g[f[n]]
    BY <2>1, <2>2
  <2>4. CASE g[f[n]] = f[n]
    BY <2>1, <2>3, <2>4
  <2>5. CASE g[f[n]] # f[n]
    <3>1. away[g[f[n]]] < away[f[n]] /\ away[f[n]] =< c - n
      BY <2>1, <2>5
    <3>2. g[f[n]] \in X /\ away[g[f[n]]] \in Nat /\ away[f[n]] \in Nat
      BY <2>1
    <3> QED BY <2>3, <3>1, <3>2
  <2> QED BY <2>4, <2>5
<1>3. Nat \subseteq S
  <2>1. ASSUME NEW n \in Nat, n \in S PROVE n + 1 \in S
    BY <1>2, <2>1
  <2> HIDE DEF S
  <2> QED BY <1>1, <2>1, SetInduction
<1>4. f[c] \in X /\ (g[f[c]] = f[c] \/ away[f[c]] =< 0)
  BY <1>3
<1>5. CASE g[f[c]] # f[c]
  <2>1. away[g[f[c]]] < away[f[c]] /\ away[f[c]] =< 0
    BY <1>4, <1>5
  <2>2. away[g[f[c]]] \in Nat /\ away[f[c]] \in Nat
    BY <1>4
  <2> QED BY <2>1, <2>2
<1> QED BY <1>4, <1>5

(***************************************************************************)
(* The heap of the scheduler                                               *)
(***************************************************************************)

TasksOK == \E n \in 0 .. MaxTasks : tasks \in [1 .. n -> [at : Times, length : Lengths]]

(* The order of the heap is a total one.                                   *)
LEMMA LessIsTotal ==
  ASSUME TasksOK
  PROVE  /\ \A i, j \in DOMAIN tasks : i # j => Cpu!Less(i, j) \/ Cpu!Less(j, i)
         /\ \A i, j, k \in DOMAIN tasks :
              Cpu!Less(i, j) /\ Cpu!Less(j, k) => Cpu!Less(i, k)
<1>1. ASSUME NEW i \in DOMAIN tasks PROVE i \in Int /\ tasks[i].length \in Int
  <2>1. PICK n \in 0 .. MaxTasks : tasks \in [1 .. n -> [at : Times, length : Lengths]]
    BY DEF TasksOK
  <2>2. i \in 1 .. n /\ MaxTasks \in Nat /\ Lengths \subseteq Int
    BY <2>1, SequentialAssumption DEF Cpu!SchedulerAssumption
  <2>3. tasks[i] \in [at : Times, length : Lengths]
    BY <2>1, <2>2
  <2>4. i \in Int
    BY <2>2
  <2>5. tasks[i].length \in Lengths
    BY <2>3
  <2> QED BY <2>2, <2>4, <2>5
<1> QED BY <1>1 DEF Cpu!Less

(* Where the parents and the children of a position of the heap are. *)
LEMMA Parents ==
  ASSUME NEW k \in Nat
  PROVE  /\ k >= 2 => /\ k \div 2 \in Nat /\ 1 =< k \div 2 /\ k \div 2 < k
                      /\ k = 2 * (k \div 2) \/ k = 2 * (k \div 2) + 1
         /\ (2 * k) \div 2 = k /\ (2 * k + 1) \div 2 = k
OBVIOUS

(* A heap of the tasks in R, which are L.                                  *)
Arranged(h, L, R) ==
  /\ h \in [1 .. L -> R]
  /\ \A i, j \in 1 .. L : h[i] = h[j] => i = j
  /\ \A r \in R : \E i \in 1 .. L : h[i] = r

(* A swap moves two tasks and leaves the others. *)
LEMMA SwapArranges ==
  ASSUME NEW h, NEW L \in Nat, NEW R, Arranged(h, L, R), NEW i \in 1 .. L, NEW j \in 1 .. L
  PROVE  /\ Arranged(Cpu!Swap(h, i, j), L, R)
         /\ i # j => /\ Cpu!Swap(h, i, j)[i] = h[j] /\ Cpu!Swap(h, i, j)[j] = h[i]
                     /\ \A k \in 1 .. L : k # i /\ k # j => Cpu!Swap(h, i, j)[k] = h[k]
<1>1. PICK s : s = Cpu!Swap(h, i, j)
  OBVIOUS
<1>2. /\ s \in [1 .. L -> R]
      /\ s[j] = h[i]
      /\ i # j => s[i] = h[j]
      /\ \A k \in 1 .. L : k # i /\ k # j => s[k] = h[k]
  BY <1>1 DEF Arranged, Cpu!Swap
<1>3. \A k, m \in 1 .. L : h[k] = h[m] => k = m
  BY DEF Arranged
<1>4. ASSUME NEW k \in 1 .. L, NEW m \in 1 .. L, s[k] = s[m] PROVE k = m
  BY <1>2, <1>3, <1>4
<1>5. ASSUME NEW r \in R PROVE \E k \in 1 .. L : s[k] = r
  <2>1. PICK k \in 1 .. L : h[k] = r
    BY DEF Arranged
  <2>2. CASE k = i
    BY <1>2, <2>1, <2>2
  <2>3. CASE k = j
    BY <1>2, <2>1, <2>3
  <2>4. CASE k # i /\ k # j
    BY <1>2, <2>1, <2>4
  <2> QED BY <2>2, <2>3, <2>4
<1> QED BY <1>1, <1>2, <1>4, <1>5 DEF Arranged

Ordered(h, L) == \A k \in 2 .. L : Cpu!Less(h[k \div 2], h[k])

-----------------------------------------------------------------------------
(* heapifyUp: the order of the heap but for one node, which may be less    *)
(* than its parent, and not its children than that parent.                 *)
OrderedBelow(h, L, at) ==
  /\ \A k \in 2 .. L : k # at => Cpu!Less(h[k \div 2], h[k])
  /\ \A k \in 2 .. L : k \div 2 = at /\ at > 1 => Cpu!Less(h[at \div 2], h[k])

(* ... heapifyDown: but for the children of a node, which are not less     *)
(* than the parent of that node.                                           *)
OrderedAbove(h, L, at) ==
  /\ \A k \in 2 .. L : k \div 2 # at => Cpu!Less(h[k \div 2], h[k])
  /\ \A k \in 2 .. L : k \div 2 = at /\ at > 1 => Cpu!Less(h[at \div 2], h[k])

(* A swap with the parent moves the place that is out of order one level   *)
(* up.                                                                     *)
LEMMA SwapUp ==
  ASSUME TasksOK, NEW R, R \subseteq DOMAIN tasks, NEW L \in Nat, NEW h, Arranged(h, L, R),
         NEW at \in 2 .. L, OrderedBelow(h, L, at), Cpu!Less(h[at], h[at \div 2])
  PROVE  OrderedBelow(Cpu!Swap(h, at, at \div 2), L, at \div 2)
<1>1. PICK p : p = at \div 2
  OBVIOUS
<1>2. p \in 1 .. L /\ p < at /\ p # at /\ p \in Nat
  BY <1>1, Parents
<1>3. PICK s : s = Cpu!Swap(h, at, p)
  OBVIOUS
<1>4. s[at] = h[p] /\ s[p] = h[at] /\ \A k \in 1 .. L : k # at /\ k # p => s[k] = h[k]
  BY <1>2, <1>3, SwapArranges
<1>5. \A k \in 2 .. L : k \div 2 \in 1 .. L /\ k \div 2 < k /\ k \in 1 .. L
  BY Parents
<1>6. \A k \in 1 .. L : h[k] \in DOMAIN tasks
  BY DEF Arranged
<1>7. \A i, j, k \in 1 .. L :
        Cpu!Less(h[i], h[j]) /\ Cpu!Less(h[j], h[k]) => Cpu!Less(h[i], h[k])
  BY <1>6, LessIsTotal
<1>8. Cpu!Less(h[at], h[p])
  BY <1>1
<1>9. \A k \in 2 .. L : k # at => Cpu!Less(h[k \div 2], h[k])
  BY DEF OrderedBelow
<1>10. \A k \in 2 .. L : k \div 2 = at => Cpu!Less(h[p], h[k])
  BY <1>1 DEF OrderedBelow
<1>11. ASSUME NEW k \in 2 .. L, k # p PROVE Cpu!Less(s[k \div 2], s[k])
  <2>1. PICK q : q = k \div 2
    OBVIOUS
  <2>2. q \in 1 .. L /\ q < k /\ k \in 1 .. L
    BY <1>5, <2>1
  <2>3. CASE k = at
    BY <1>1, <1>4, <1>8, <2>1, <2>3
  <2>4. CASE k # at /\ q = p
    <3>1. Cpu!Less(h[p], h[k])
      BY <1>9, <2>1, <2>4
    <3>2. Cpu!Less(h[at], h[k])
      BY <1>2, <1>7, <1>8, <2>2, <3>1
    <3>3. s[q] = h[at] /\ s[k] = h[k]
      BY <1>4, <1>11, <2>2, <2>4
    <3> QED BY <2>1, <3>2, <3>3
  <2>5. CASE k # at /\ q = at
    <3>1. Cpu!Less(h[p], h[k])
      BY <1>10, <2>1, <2>5
    <3>2. s[q] = h[p] /\ s[k] = h[k]
      BY <1>4, <1>11, <2>2, <2>5
    <3> QED BY <2>1, <3>1, <3>2
  <2>6. CASE k # at /\ q # p /\ q # at
    <3>1. s[q] = h[q] /\ s[k] = h[k]
      BY <1>4, <1>11, <2>2, <2>6
    <3>2. Cpu!Less(h[q], h[k])
      BY <1>9, <2>1, <2>6
    <3> QED BY <2>1, <3>1, <3>2
  <2> QED BY <2>3, <2>4, <2>5, <2>6
<1>12. ASSUME NEW k \in 2 .. L, k \div 2 = p, p > 1 PROVE Cpu!Less(s[p \div 2], s[k])
  <2>1. PICK q : q = p \div 2
    OBVIOUS
  <2>2. p \in 2 .. L /\ q \in 1 .. L /\ q < p /\ q # p /\ q # at
    BY <1>2, <1>5, <1>12, <2>1
  <2>3. s[q] = h[q] /\ Cpu!Less(h[q], h[p])
    BY <1>2, <1>4, <1>9, <2>1, <2>2
  <2>4. CASE k = at
    BY <1>4, <2>1, <2>3, <2>4
  <2>5. CASE k # at
    <3>1. k # p /\ k \in 1 .. L
      BY <1>5, <1>12
    <3>2. Cpu!Less(h[p], h[k]) /\ s[k] = h[k]
      BY <1>4, <1>9, <1>12, <2>5, <3>1
    <3>3. Cpu!Less(h[q], h[k])
      BY <1>2, <1>7, <2>2, <2>3, <3>1, <3>2
    <3> QED BY <2>1, <2>3, <3>2, <3>3
  <2> QED BY <2>4, <2>5
<1> QED BY <1>1, <1>3, <1>11, <1>12 DEF OrderedBelow

(* A swap with the least child moves it one level down. *)
LEMMA SwapDown ==
  ASSUME TasksOK, NEW R, R \subseteq DOMAIN tasks, NEW L \in Nat, NEW h, Arranged(h, L, R),
         NEW at \in 1 .. L, OrderedAbove(h, L, at),
         NEW c \in 2 .. L, c \div 2 = at, Cpu!Less(h[c], h[at]),
         \A k \in 2 .. L : k \div 2 = at /\ k # c => Cpu!Less(h[c], h[k])
  PROVE  OrderedAbove(Cpu!Swap(h, at, c), L, c)
<1>2. c \in 1 .. L /\ at < c /\ c # at /\ at \in Nat
  BY Parents
<1>3. PICK s : s = Cpu!Swap(h, at, c)
  OBVIOUS
<1>4. s[at] = h[c] /\ s[c] = h[at] /\ \A k \in 1 .. L : k # at /\ k # c => s[k] = h[k]
  BY <1>2, <1>3, SwapArranges
<1>5. \A k \in 2 .. L : k \div 2 \in 1 .. L /\ k \div 2 < k /\ k \in 1 .. L
  BY Parents
<1>9. \A k \in 2 .. L : k \div 2 # at => Cpu!Less(h[k \div 2], h[k])
  BY DEF OrderedAbove
<1>10. at > 1 => Cpu!Less(h[at \div 2], h[c])
  BY DEF OrderedAbove
<1>11. ASSUME NEW k \in 2 .. L, k \div 2 # c PROVE Cpu!Less(s[k \div 2], s[k])
  <2>1. PICK q : q = k \div 2
    OBVIOUS
  <2>2. q \in 1 .. L /\ q < k /\ k \in 1 .. L /\ q # c
    BY <1>5, <1>11, <2>1
  <2>3. CASE k = at
    <3>1. at > 1 /\ q # at
      BY <2>2, <2>3
    <3>2. s[q] = h[q] /\ s[k] = h[c]
      BY <1>4, <2>2, <2>3, <3>1
    <3> QED BY <1>10, <2>1, <2>3, <3>1, <3>2
  <2>4. CASE k = c
    <3>1. q = at
      BY <2>1, <2>4
    <3> QED BY <1>4, <2>1, <2>4, <3>1
  <2>5. CASE k # c /\ q = at
    <3>1. k # at
      BY <2>2, <2>5
    <3>2. s[q] = h[c] /\ s[k] = h[k]
      BY <1>4, <2>2, <2>5, <3>1
    <3>3. Cpu!Less(h[c], h[k])
      BY <2>1, <2>5
    <3> QED BY <2>1, <3>2, <3>3
  <2>6. CASE k # at /\ k # c /\ q # at
    <3>1. s[q] = h[q] /\ s[k] = h[k]
      BY <1>4, <2>2, <2>6
    <3>2. Cpu!Less(h[q], h[k])
      BY <1>9, <2>1, <2>6
    <3> QED BY <2>1, <3>1, <3>2
  <2> QED BY <2>3, <2>4, <2>5, <2>6
<1>12. ASSUME NEW k \in 2 .. L, k \div 2 = c PROVE Cpu!Less(s[c \div 2], s[k])
  <2>1. k # at /\ k # c /\ k \in 1 .. L
    BY <1>2, <1>5, <1>12
  <2>2. s[k] = h[k] /\ Cpu!Less(h[c], h[k])
    BY <1>2, <1>4, <1>9, <1>12, <2>1
  <2> QED BY <1>4, <2>2
<1> QED BY <1>3, <1>11, <1>12 DEF OrderedAbove

(* An arranged heap is a sequence of its tasks. *)
LEMMA ArrangedIsSequence ==
  ASSUME NEW h, NEW L \in Nat, NEW R, Arranged(h, L, R)
  PROVE  h \in Seq(R) /\ Len(h) = L
<1>1. h \in [1 .. L -> R]
  BY DEF Arranged
<1> QED BY <1>1

(* heapifyUp puts a heap in order that is so but for its place i, which may *)
(* be less than its parents.                                               *)
LEMMA HeapifyUp ==
  ASSUME TasksOK, NEW R, R \subseteq DOMAIN tasks, NEW L \in Nat, NEW h, Arranged(h, L, R),
         NEW i \in 1 .. L, OrderedBelow(h, L, i)
  PROVE  Arranged(Cpu!heapifyUp(h, i), L, R) /\ Ordered(Cpu!heapifyUp(h, i), L)
<1> DEFINE X == {o \in [nodes : [1 .. L -> R], at : 1 .. L] :
                   Arranged(o.nodes, L, R) /\ OrderedBelow(o.nodes, L, o.at)}
           a == Cpu!Call(h, i)
           g == [o \in X |-> Cpu!CallUp(o)]
           away == [o \in X |-> o.at - 1]
<1>1. ASSUME NEW o \in X
      PROVE  \/ Cpu!CallUp(o) = o
             \/ Cpu!CallUp(o) \in X /\ Cpu!CallUp(o).at < o.at
  <2>1. PICK p : p = o.at \div 2
    OBVIOUS
  <2>2. CASE ~ (o.at > 1 /\ Cpu!Less(o.nodes[o.at], o.nodes[p]))
    BY <2>1, <2>2 DEF Cpu!CallUp
  <2>3. CASE o.at > 1 /\ Cpu!Less(o.nodes[o.at], o.nodes[p])
    <3>1. Cpu!CallUp(o) = [nodes |-> Cpu!Swap(o.nodes, o.at, p), at |-> p]
      BY <2>1, <2>3 DEF Cpu!CallUp, Cpu!Swapped, Cpu!Call
    <3>2. o.at \in 2 .. L /\ Arranged(o.nodes, L, R) /\ OrderedBelow(o.nodes, L, o.at)
      BY <2>3
    <3>3. p \in 1 .. L /\ p < o.at
      BY <2>1, <3>2, Parents
    <3>4. OrderedBelow(Cpu!Swap(o.nodes, o.at, p), L, p)
      BY <2>1, <2>3, <3>2, SwapUp
    <3>5. Arranged(Cpu!Swap(o.nodes, o.at, p), L, R)
      BY <3>2, <3>3, SwapArranges
    <3>6. Cpu!Swap(o.nodes, o.at, p) \in [1 .. L -> R]
      BY <3>5 DEF Arranged
    <3> QED BY <3>1, <3>3, <3>4, <3>5, <3>6
  <2> QED BY <2>2, <2>3
<1>2. a \in X /\ a.at = i
  BY DEF Cpu!Call, Arranged
<1>0. \A o \in X : o.at \in 1 .. L
  OBVIOUS
<1> HIDE DEF X, a
<1>3. g \in [X -> X] /\ away \in [X -> Nat] /\ away[a] =< L
  BY <1>0, <1>1, <1>2
<1>4. ASSUME NEW o \in X PROVE g[o] = o \/ away[g[o]] < away[o]
  <2>1. CASE Cpu!CallUp(o) = o
    BY <2>1
  <2>2. CASE Cpu!CallUp(o) \in X /\ Cpu!CallUp(o).at < o.at
    BY <1>0, <2>2
  <2> QED BY <1>1, <2>1, <2>2
<1>5. \A o \in X : g[o] = Cpu!CallUp(o)
  OBVIOUS
<1>6. Len(h) = L
  BY ArrangedIsSequence
<1> DEFINE Rest(f) == [n \in 0 .. L |-> IF n = 0 THEN a ELSE Cpu!CallUp(f[n - 1])]
<1> HIDE DEF g, away
<1>7. \E f : f = Rest(f)
  <2>1. PICK f \in [0 .. L -> X] : Turns(a, g, L, f)
    BY <1>2, <1>3, TurnsExist
  <2>2. ASSUME NEW n \in 0 .. L
        PROVE  f[n] = IF n = 0 THEN a ELSE Cpu!CallUp(f[n - 1])
    <3>1. CASE n = 0
      BY <2>1, <3>1 DEF Turns
    <3>2. CASE n # 0
      <4>1. n \in 1 .. L /\ n - 1 \in 0 .. L
        BY <3>2
      <4>2. f[n - 1] \in X /\ f[n] = g[f[n - 1]]
        BY <2>1, <4>1 DEF Turns
      <4> QED BY <1>5, <3>2, <4>2
    <3> QED BY <3>1, <3>2
  <2>3. f = Rest(f)
    BY <2>1, <2>2
  <2> QED BY <2>3
<1>8. PICK f : f = Rest(f) /\ f = CHOOSE call : call = Rest(call)
  <2> HIDE DEF Rest
  <2> QED BY <1>7
<1>9. Cpu!heapifyUp(h, i) = f[L].nodes
  BY <1>6, <1>8 DEF Cpu!heapifyUp, a
<1>10. f[0] = a /\ \A n \in 1 .. L : f[n - 1] \in X => f[n] = g[f[n - 1]]
  BY <1>5, <1>8
<1>11. f[L] \in X /\ g[f[L]] = f[L]
  BY <1>2, <1>3, <1>4, <1>10, TurnsEnd
<1>12. PICK o : o = f[L]
  OBVIOUS
<1>13. /\ o.at \in 1 .. L /\ Arranged(o.nodes, L, R) /\ OrderedBelow(o.nodes, L, o.at)
       /\ Cpu!CallUp(o) = o
       /\ o = [nodes |-> o.nodes, at |-> o.at]
  BY <1>5, <1>11, <1>12 DEF X
<1>14. o.at > 1 => ~ Cpu!Less(o.nodes[o.at], o.nodes[o.at \div 2])
  <2> SUFFICES ASSUME o.at > 1, Cpu!Less(o.nodes[o.at], o.nodes[o.at \div 2]) PROVE FALSE
    OBVIOUS
  <2>1. Cpu!CallUp(o).at = o.at \div 2
    BY DEF Cpu!CallUp, Cpu!Swapped, Cpu!Call
  <2> QED BY <1>13, <2>1, Parents
<1>15. ASSUME NEW k \in 2 .. L PROVE Cpu!Less(o.nodes[k \div 2], o.nodes[k])
  <2>1. PICK q : q = k \div 2
    OBVIOUS
  <2>2. q \in 1 .. L /\ k \in 1 .. L /\ q # k
    BY <2>1, Parents
  <2>3. CASE k # o.at
    BY <1>13, <2>3 DEF OrderedBelow
  <2>4. CASE k = o.at
    <3>1. o.nodes[k] \in DOMAIN tasks /\ o.nodes[q] \in DOMAIN tasks /\ o.nodes[k] # o.nodes[q]
      BY <1>13, <2>2 DEF Arranged
    <3>2. ~ Cpu!Less(o.nodes[k], o.nodes[q])
      BY <1>14, <2>1, <2>4
    <3> QED BY <2>1, <3>1, <3>2, LessIsTotal
  <2> QED BY <2>3, <2>4
<1> QED BY <1>9, <1>12, <1>13, <1>15 DEF Ordered

-----------------------------------------------------------------------------
(* s is one of a node and its children, and less than the others.          *)
LeastAt(h, L, at, s) ==
  /\ s \in 1 .. L /\ (s = at \/ s \div 2 = at)
  /\ s # at => Cpu!Less(h[s], h[at])
  /\ \A k \in 2 .. L : k \div 2 = at /\ k # s => Cpu!Less(h[s], h[k])

(* heapifyDown finds the least of a place and its children. *)
LEMMA SmallestOfFamily ==
  ASSUME TasksOK, NEW R, R \subseteq DOMAIN tasks, NEW L \in Nat, NEW h, Arranged(h, L, R),
         NEW at \in 1 .. L
  PROVE  LeastAt(h, L, at, Cpu!Smallest(h, at))
<1> DEFINE family == {k \in {at, 2 * at, 2 * at + 1} : k =< L}
           Least(k) == \A j \in family \ {k} : Cpu!Less(h[k], h[j])
<1>1. Cpu!Smallest(h, at) = CHOOSE k \in family : Least(k)
  BY ArrangedIsSequence DEF Cpu!Smallest
<1>2. \A i, j \in family : i # j => Cpu!Less(h[i], h[j]) \/ Cpu!Less(h[j], h[i])
  <2>1. \A k \in family : k \in 1 .. L
    OBVIOUS
  <2>2. \A i, j \in 1 .. L : i # j => /\ h[i] \in DOMAIN tasks /\ h[j] \in DOMAIN tasks
                                      /\ h[i] # h[j]
    BY DEF Arranged
  <2> QED BY <2>1, <2>2, LessIsTotal
<1>3. \A i, j, k \in family : Cpu!Less(h[i], h[j]) /\ Cpu!Less(h[j], h[k])
                                => Cpu!Less(h[i], h[k])
  <2>1. \A k \in family : h[k] \in DOMAIN tasks
    BY DEF Arranged
  <2> QED BY <2>1, LessIsTotal
<1>4. \E k \in family : Least(k)
  <2>1. PICK x \in family : \A j \in family \ {x} : j # 2 * at + 1 => Cpu!Less(h[x], h[j])
    <3>1. at \in family /\ at \in Nat
      OBVIOUS
    <3>2. \A j \in family : j = at \/ j = 2 * at \/ j = 2 * at + 1
      OBVIOUS
    <3>3. CASE 2 * at \in family /\ Cpu!Less(h[2 * at], h[at])
      BY <3>2, <3>3
    <3>4. CASE ~ (2 * at \in family /\ Cpu!Less(h[2 * at], h[at]))
      <4> HIDE DEF family
      <4>1. \A j \in family : j = 2 * at /\ j # at => Cpu!Less(h[at], h[j])
        BY <1>2, <3>1, <3>4
      <4> QED BY <3>1, <3>2, <4>1
    <3> QED BY <3>3, <3>4
  <2>2. PICK r : r = 2 * at + 1
    OBVIOUS
  <2> HIDE DEF family
  <2>3. CASE r \in family /\ r # x /\ Cpu!Less(h[r], h[x])
    <3>1. \A j \in family \ {r} : Cpu!Less(h[r], h[j])
      BY <1>3, <2>1, <2>2, <2>3
    <3> QED BY <2>3, <3>1
  <2>4. CASE ~ (r \in family /\ r # x /\ Cpu!Less(h[r], h[x]))
    BY <1>2, <2>1, <2>2, <2>4
  <2> QED BY <2>3, <2>4
<1>5. PICK s : s = Cpu!Smallest(h, at)
  OBVIOUS
<1>6. s \in family /\ Least(s)
  <2> HIDE DEF family, Least
  <2> QED BY <1>1, <1>4, <1>5
<1>7. \A k \in 2 .. L : k \div 2 = at => k \in family
  BY Parents
<1>8. s \in 1 .. L /\ (s = at \/ s \div 2 = at)
  BY <1>6, Parents
<1>9. at \in family
  OBVIOUS
<1> HIDE DEF family
<1> QED BY <1>5, <1>6, <1>7, <1>8, <1>9 DEF LeastAt

(* heapifyDown puts a heap in order that is so but for its place i, which  *)
(* may be greater than its children.                                       *)
LEMMA HeapifyDown ==
  ASSUME TasksOK, NEW R, R \subseteq DOMAIN tasks, NEW L \in Nat, NEW h, Arranged(h, L, R),
         NEW i \in 1 .. L, OrderedAbove(h, L, i)
  PROVE  Arranged(Cpu!heapifyDown(h, i), L, R) /\ Ordered(Cpu!heapifyDown(h, i), L)
<1> DEFINE X == {o \in [nodes : [1 .. L -> R], at : 1 .. L] :
                   Arranged(o.nodes, L, R) /\ OrderedAbove(o.nodes, L, o.at)}
           a == Cpu!Call(h, i)
           g == [o \in X |-> Cpu!CallDown(o)]
           away == [o \in X |-> L - o.at]
<1>1. ASSUME NEW o \in X
      PROVE  \/ Cpu!CallDown(o) = o
             \/ Cpu!CallDown(o) \in X /\ o.at < Cpu!CallDown(o).at
  <2>1. PICK s : s = Cpu!Smallest(o.nodes, o.at)
    OBVIOUS
  <2>2. CASE s = o.at
    BY <2>1, <2>2 DEF Cpu!CallDown
  <2>3. CASE s # o.at
    <3>1. Cpu!CallDown(o) = [nodes |-> Cpu!Swap(o.nodes, o.at, s), at |-> s]
      BY <2>1, <2>3 DEF Cpu!CallDown, Cpu!Swapped, Cpu!Call
    <3>2. o.at \in 1 .. L /\ Arranged(o.nodes, L, R) /\ OrderedAbove(o.nodes, L, o.at)
      OBVIOUS
    <3>3. /\ s \in 1 .. L /\ s \div 2 = o.at
          /\ Cpu!Less(o.nodes[s], o.nodes[o.at])
          /\ \A k \in 2 .. L : k \div 2 = o.at /\ k # s => Cpu!Less(o.nodes[s], o.nodes[k])
      <4>1. LeastAt(o.nodes, L, o.at, s)
        BY <2>1, <3>2, SmallestOfFamily
      <4> QED BY <2>3, <4>1 DEF LeastAt
    <3>4. s \in 2 .. L /\ o.at < s
      BY <3>2, <3>3
    <3>5. OrderedAbove(Cpu!Swap(o.nodes, o.at, s), L, s)
      BY <3>2, <3>3, <3>4, SwapDown
    <3>6. Arranged(Cpu!Swap(o.nodes, o.at, s), L, R)
      BY <3>2, <3>3, SwapArranges
    <3>7. Cpu!Swap(o.nodes, o.at, s) \in [1 .. L -> R]
      BY <3>6 DEF Arranged
    <3> QED BY <3>1, <3>3, <3>4, <3>5, <3>6, <3>7
  <2> QED BY <2>2, <2>3
<1>2. a \in X /\ a.at = i
  BY DEF Cpu!Call, Arranged
<1>0. \A o \in X : o.at \in 1 .. L
  OBVIOUS
<1> HIDE DEF X, a
<1>3. g \in [X -> X] /\ away \in [X -> Nat] /\ away[a] =< L
  BY <1>0, <1>1, <1>2
<1>4. ASSUME NEW o \in X PROVE g[o] = o \/ away[g[o]] < away[o]
  <2>1. CASE Cpu!CallDown(o) = o
    BY <2>1
  <2>2. CASE Cpu!CallDown(o) \in X /\ o.at < Cpu!CallDown(o).at
    BY <1>0, <2>2
  <2> QED BY <1>1, <2>1, <2>2
<1>5. \A o \in X : g[o] = Cpu!CallDown(o)
  OBVIOUS
<1>6. Len(h) = L
  BY ArrangedIsSequence
<1> DEFINE Rest(f) == [n \in 0 .. L |-> IF n = 0 THEN a ELSE Cpu!CallDown(f[n - 1])]
<1> HIDE DEF g, away
<1>7. \E f : f = Rest(f)
  <2>1. PICK f \in [0 .. L -> X] : Turns(a, g, L, f)
    BY <1>2, <1>3, TurnsExist
  <2>2. ASSUME NEW n \in 0 .. L
        PROVE  f[n] = IF n = 0 THEN a ELSE Cpu!CallDown(f[n - 1])
    <3>1. CASE n = 0
      BY <2>1, <3>1 DEF Turns
    <3>2. CASE n # 0
      <4>1. n \in 1 .. L /\ n - 1 \in 0 .. L
        BY <3>2
      <4>2. f[n - 1] \in X /\ f[n] = g[f[n - 1]]
        BY <2>1, <4>1 DEF Turns
      <4> QED BY <1>5, <3>2, <4>2
    <3> QED BY <3>1, <3>2
  <2>3. f = Rest(f)
    BY <2>1, <2>2
  <2> QED BY <2>3
<1>8. PICK f : f = Rest(f) /\ f = CHOOSE call : call = Rest(call)
  <2> HIDE DEF Rest
  <2> QED BY <1>7
<1>9. Cpu!heapifyDown(h, i) = f[L].nodes
  BY <1>6, <1>8 DEF Cpu!heapifyDown, a
<1>10. f[0] = a /\ \A n \in 1 .. L : f[n - 1] \in X => f[n] = g[f[n - 1]]
  BY <1>5, <1>8
<1>11. f[L] \in X /\ g[f[L]] = f[L]
  BY <1>2, <1>3, <1>4, <1>10, TurnsEnd
<1>12. PICK o : o = f[L]
  OBVIOUS
<1>13. /\ o.at \in 1 .. L /\ Arranged(o.nodes, L, R) /\ OrderedAbove(o.nodes, L, o.at)
       /\ Cpu!CallDown(o) = o
  BY <1>5, <1>11, <1>12 DEF X
<1>14. Cpu!Smallest(o.nodes, o.at) = o.at
  BY <1>13 DEF Cpu!CallDown, Cpu!Swapped, Cpu!Call
<1>15. ASSUME NEW k \in 2 .. L PROVE Cpu!Less(o.nodes[k \div 2], o.nodes[k])
  <2>1. CASE k \div 2 # o.at
    BY <1>13, <2>1 DEF OrderedAbove
  <2>2. CASE k \div 2 = o.at
    <3>1. k # o.at
      BY <2>2
    <3>2. LeastAt(o.nodes, L, o.at, o.at)
      BY <1>13, <1>14, SmallestOfFamily
    <3> QED BY <2>2, <3>1, <3>2 DEF LeastAt
  <2> QED BY <2>1, <2>2
<1> QED BY <1>9, <1>12, <1>13, <1>15 DEF Ordered

(* The root of an ordered heap is its least node.                          *)
LEMMA RootIsLeast ==
  ASSUME TasksOK, NEW R, R \subseteq DOMAIN tasks, NEW L \in Nat, NEW h, Arranged(h, L, R),
         Ordered(h, L), NEW k \in 1 .. L
  PROVE  k = 1 \/ Cpu!Less(h[1], h[k])
<1> DEFINE S == {n \in Nat : \A j \in 1 .. L : j =< n => j = 1 \/ Cpu!Less(h[1], h[j])}
<1>1. 0 \in S
  OBVIOUS
<1>2. ASSUME NEW n \in Nat, n \in S PROVE n + 1 \in S
  <2> SUFFICES ASSUME NEW j \in 1 .. L, j = n + 1, j # 1 PROVE Cpu!Less(h[1], h[j])
    BY <1>2
  <2>1. PICK q : q = j \div 2
    OBVIOUS
  <2>2. q \in 1 .. L /\ q =< n /\ j \in 2 .. L
    BY <2>1, Parents
  <2>3. Cpu!Less(h[q], h[j])
    BY <2>1, <2>2 DEF Ordered
  <2>4. q = 1 \/ Cpu!Less(h[1], h[q])
    BY <1>2, <2>2
  <2>5. h[1] \in DOMAIN tasks /\ h[q] \in DOMAIN tasks /\ h[j] \in DOMAIN tasks
    BY <2>2 DEF Arranged
  <2> QED BY <2>3, <2>4, <2>5, LessIsTotal
<1>3. Nat \subseteq S
  <2> HIDE DEF S
  <2> QED BY <1>1, <1>2, SetInduction
<1>4. k \in S
  BY <1>3
<1> QED BY <1>4

(* A task is pushed on the heap.                                           *)
LEMMA PushedOnHeap ==
  ASSUME TasksOK, NEW R, R \subseteq DOMAIN tasks, NEW L \in Nat, NEW h, Arranged(h, L, R),
         Ordered(h, L), NEW i \in DOMAIN tasks, i \notin R
  PROVE  /\ Arranged(Cpu!heapifyUp(Append(h, i), Len(h) + 1), L + 1, R \cup {i})
         /\ Ordered(Cpu!heapifyUp(Append(h, i), Len(h) + 1), L + 1)
<1>1. h \in Seq(R) /\ Len(h) = L /\ h \in [1 .. L -> R]
  BY ArrangedIsSequence DEF Arranged
<1>2. PICK e : e = Append(h, i)
  OBVIOUS
<1>3. /\ e \in [1 .. L + 1 -> R \cup {i}] /\ e[L + 1] = i
      /\ \A k \in 1 .. L : e[k] = h[k]
  <2>1. h \in Seq(R \cup {i})
    BY <1>1, SeqMonotonic
  <2>2. /\ e \in Seq(R \cup {i}) /\ Len(e) = L + 1 /\ e[L + 1] = i
        /\ \A k \in 1 .. L : e[k] = h[k]
    BY <1>1, <1>2, <2>1
  <2> QED BY <2>2, LenProperties
<1>4. Arranged(e, L + 1, R \cup {i})
  <2>1. \A k \in 1 .. L : e[k] \in R /\ e[k] # i
    BY <1>1, <1>3
  <2>2. ASSUME NEW j \in 1 .. L + 1, NEW k \in 1 .. L + 1, e[j] = e[k] PROVE j = k
    <3>1. CASE j \in 1 .. L /\ k \in 1 .. L
      BY <1>3, <2>2, <3>1 DEF Arranged
    <3>2. CASE j = L + 1 \/ k = L + 1
      BY <1>3, <2>1, <2>2, <3>2
    <3> QED BY <3>1, <3>2
  <2>3. ASSUME NEW r \in R \cup {i} PROVE \E k \in 1 .. L + 1 : e[k] = r
    <3>1. CASE r = i
      BY <1>3, <3>1
    <3>2. CASE r \in R
      <4>1. PICK k \in 1 .. L : h[k] = r
        BY <3>2 DEF Arranged
      <4> QED BY <1>3, <4>1
    <3> QED BY <3>1, <3>2
  <2> QED BY <1>3, <2>2, <2>3 DEF Arranged
<1>5. OrderedBelow(e, L + 1, L + 1)
  <2>1. ASSUME NEW k \in 2 .. L + 1, k # L + 1 PROVE Cpu!Less(e[k \div 2], e[k])
    <3>1. PICK q : q = k \div 2
      OBVIOUS
    <3>2. k \in 2 .. L /\ k \in 1 .. L /\ q \in 1 .. L
      BY <2>1, <3>1, Parents
    <3>3. Cpu!Less(h[q], h[k])
      BY <3>1, <3>2 DEF Ordered
    <3> QED BY <1>3, <3>1, <3>2, <3>3
  <2>2. \A k \in 2 .. L + 1 : k \div 2 # L + 1
    BY Parents
  <2> QED BY <2>1, <2>2 DEF OrderedBelow
<1>6. L + 1 \in Nat /\ L + 1 \in 1 .. L + 1 /\ R \cup {i} \subseteq DOMAIN tasks
  OBVIOUS
<1> QED BY <1>1, <1>2, <1>4, <1>5, <1>6, HeapifyUp

(* The root is taken off it.                                               *)
LEMMA PoppedOffHeap ==
  ASSUME TasksOK, NEW R, R \subseteq DOMAIN tasks, NEW L \in Nat \ {0}, NEW h,
         Arranged(h, L, R), Ordered(h, L)
  PROVE  /\ Arranged(Cpu!Popped(h), L - 1, R \ {h[1]})
         /\ Ordered(Cpu!Popped(h), L - 1)
<1>1. h \in Seq(R) /\ Len(h) = L /\ h \in [1 .. L -> R]
  BY ArrangedIsSequence DEF Arranged
<1>2. \A j, k \in 1 .. L : h[j] = h[k] => j = k
  BY DEF Arranged
<1>3. CASE L = 1
  <2>1. Cpu!Popped(h) = <<>>
    BY <1>1, <1>3 DEF Cpu!Popped
  <2>2. R \ {h[1]} = {}
    BY <1>1, <1>3 DEF Arranged
  <2> QED BY <1>3, <2>1, <2>2 DEF Arranged, Ordered
<1>4. CASE L # 1
  <2>1. PICK e : e = [SubSeq(h, 1, L - 1) EXCEPT ![1] = h[L]]
    OBVIOUS
  <2>2. Cpu!Popped(h) = Cpu!heapifyDown(e, 1)
    BY <1>1, <1>4, <2>1 DEF Cpu!Popped, Cpu!Front, Cpu!Last
  <2>3. PICK f : f = SubSeq(h, 1, L - 1)
    OBVIOUS
  <2>4. f \in [1 .. L - 1 -> R] /\ \A k \in 1 .. L - 1 : f[k] = h[k]
    <3>1. L - 1 \in Int /\ 1 =< L - 1 /\ L - 1 - 1 + 1 = L - 1
      BY <1>4
    <3>2. \A k \in 1 .. L - 1 : h[k] \in R
      BY <1>1
    <3>3. /\ f \in Seq(R)
          /\ Len(f) = IF 1 =< L - 1 THEN L - 1 - 1 + 1 ELSE 0
          /\ \A k \in 1 .. L - 1 - 1 + 1 : f[k] = h[1 + k - 1]
      BY <2>3, <3>1, <3>2, SubSeqProperties
    <3>4. Len(f) = L - 1
      BY <3>1, <3>3
    <3>5. \A k \in 1 .. L - 1 : f[k] = h[k]
      BY <3>1, <3>3
    <3> QED BY <3>3, <3>4, <3>5, LenProperties
  <2>5. /\ DOMAIN e = 1 .. L - 1 /\ e[1] = h[L]
        /\ \A k \in 2 .. L - 1 : e[k] = h[k]
        /\ e = [k \in 1 .. L - 1 |-> e[k]]
    <3>1. e = [f EXCEPT ![1] = h[L]] /\ DOMAIN f = 1 .. L - 1 /\ 1 \in 1 .. L - 1
      BY <1>4, <2>1, <2>3, <2>4
    <3>2. DOMAIN e = 1 .. L - 1 /\ e[1] = h[L]
      BY <3>1
    <3>3. e = [k \in 1 .. L - 1 |-> e[k]]
      BY <3>1
    <3>4. ASSUME NEW k \in 2 .. L - 1 PROVE e[k] = h[k]
      <4>1. k \in 1 .. L - 1 /\ k # 1
        OBVIOUS
      <4> QED BY <2>4, <3>1, <4>1
    <3> QED BY <3>2, <3>3, <3>4
  <2>6. PICK c : c = [k \in 1 .. L - 1 |-> IF k = 1 THEN L ELSE k]
    OBVIOUS
  <2>7. ASSUME NEW k \in 1 .. L - 1 PROVE c[k] \in 2 .. L /\ e[k] = h[c[k]]
    <3>1. CASE k = 1
      BY <1>4, <2>5, <2>6, <3>1
    <3>2. CASE k # 1
      <4>1. k \in 2 .. L - 1 /\ k \in 2 .. L /\ c[k] = k
        BY <2>6, <3>2
      <4> QED BY <2>5, <4>1
    <3> QED BY <3>1, <3>2
  <2>8. \A j, k \in 1 .. L - 1 : c[j] = c[k] => j = k
    BY <2>6
  <2>9. \A k \in 2 .. L : \E j \in 1 .. L - 1 : c[j] = k
    <3> SUFFICES ASSUME NEW k \in 2 .. L PROVE \E j \in 1 .. L - 1 : c[j] = k
      OBVIOUS
    <3>1. CASE k = L
      BY <1>4, <2>6, <3>1
    <3>2. CASE k # L
      BY <2>6, <3>2
    <3> QED BY <3>1, <3>2
  <2>10. Arranged(e, L - 1, R \ {h[1]})
    <3>1. ASSUME NEW k \in 1 .. L - 1 PROVE e[k] \in R \ {h[1]}
      <4>1. c[k] \in 1 .. L /\ c[k] # 1 /\ 1 \in 1 .. L
        BY <2>7
      <4> QED BY <1>1, <1>2, <2>7, <4>1
    <3>2. ASSUME NEW j \in 1 .. L - 1, NEW k \in 1 .. L - 1, e[j] = e[k] PROVE j = k
      <4>1. c[j] \in 1 .. L /\ c[k] \in 1 .. L /\ h[c[j]] = h[c[k]]
        BY <2>7, <3>2
      <4> QED BY <1>2, <2>8, <4>1
    <3>3. ASSUME NEW r \in R \ {h[1]} PROVE \E k \in 1 .. L - 1 : e[k] = r
      <4>1. PICK k \in 1 .. L : h[k] = r
        BY DEF Arranged
      <4>2. k \in 2 .. L
        BY <4>1
      <4> QED BY <2>7, <2>9, <4>1, <4>2
    <3> QED BY <2>5, <3>1, <3>2, <3>3 DEF Arranged
  <2>11. OrderedAbove(e, L - 1, 1)
    <3>1. ASSUME NEW k \in 2 .. L - 1, k \div 2 # 1 PROVE Cpu!Less(e[k \div 2], e[k])
      <4>1. PICK q : q = k \div 2
        OBVIOUS
      <4>2. q \in 2 .. L - 1 /\ k \in 2 .. L
        BY <3>1, <4>1, Parents
      <4>3. Cpu!Less(h[q], h[k])
        BY <4>1, <4>2 DEF Ordered
      <4> QED BY <2>5, <4>1, <4>2, <4>3
    <3> QED BY <3>1 DEF OrderedAbove
  <2>12. L - 1 \in Nat /\ 1 \in 1 .. L - 1 /\ R \ {h[1]} \subseteq DOMAIN tasks
    BY <1>4
  <2> QED BY <2>2, <2>10, <2>11, <2>12, HeapifyDown
<1> QED BY <1>3, <1>4

-----------------------------------------------------------------------------
(* What the heap should hold: what has arrived and has not been handed out.*)
Done   == {result[k] : k \in DOMAIN result}
InHeap == (DOMAIN tasks \ waiting) \ Done

(* A turn that finds the heap empty sets the time to an arrival, so that   *)
(* one task is pushed before the next is popped.                           *)
CpuInv ==
  /\ TasksOK /\ waiting \subseteq DOMAIN tasks /\ currentTime \in Int
  /\ heap \in Seq(InHeap) /\ Arranged(heap, Len(heap), InHeap) /\ Ordered(heap, Len(heap))
  /\ result \in Seq(DOMAIN tasks \ waiting)
  /\ \A j, k \in DOMAIN result : result[j] = result[k] => j = k
  /\ filling /\ heap = <<>> => \E i \in waiting : tasks[i].at =< currentTime

(* The numbers of a task. *)
LEMMA Arrivals ==
  ASSUME TasksOK, NEW i \in DOMAIN tasks
  PROVE  tasks[i].at \in Times /\ tasks[i].at \in Int /\ tasks[i].length \in Int /\ i \in Nat
<1>1. PICK n \in 0 .. MaxTasks : tasks \in [1 .. n -> [at : Times, length : Lengths]]
  BY DEF TasksOK
<1>2. i \in 1 .. n /\ MaxTasks \in Nat /\ Times \subseteq Int /\ Lengths \subseteq Int
  BY <1>1, SequentialAssumption DEF Cpu!SchedulerAssumption
<1>3. tasks[i] \in [at : Times, length : Lengths]
  BY <1>1, <1>2
<1>4. i \in Nat
  BY <1>2
<1>5. tasks[i].length \in Lengths /\ tasks[i].at \in Times
  BY <1>3
<1> QED BY <1>2, <1>4, <1>5

(* Of any tasks that wait one arrives first. *)
LEMMA OneArrivesFirst ==
  ASSUME TasksOK, NEW W, W \subseteq DOMAIN tasks, W # {}
  PROVE  \E i \in W : \A j \in W : tasks[i].at =< tasks[j].at
<1> DEFINE First(V) == \E i \in V : \A j \in V : tasks[i].at =< tasks[j].at
           S == {n \in Nat : \A V \in SUBSET DOMAIN tasks :
                               V # {} /\ (\A j \in V : j =< n) => First(V)}
<1>1. \A i \in DOMAIN tasks : tasks[i].at \in Int /\ i \in Nat /\ i # 0
  <2>1. \A i \in DOMAIN tasks : i # 0
    BY SequentialAssumption DEF TasksOK, Cpu!SchedulerAssumption
  <2> QED BY <2>1, Arrivals
<1>2. 0 \in S
  BY <1>1
<1>3. ASSUME NEW n \in Nat, n \in S PROVE n + 1 \in S
  <2> SUFFICES ASSUME NEW V \in SUBSET DOMAIN tasks, V # {}, \A j \in V : j =< n + 1
               PROVE  First(V)
    OBVIOUS
  <2>1. PICK U : U = V \ {n + 1}
    OBVIOUS
  <2>2. U \in SUBSET DOMAIN tasks /\ \A j \in U : j =< n
    BY <1>1, <2>1
  <2>3. CASE U = {}
    <3>1. V = {n + 1}
      BY <2>1, <2>3
    <3> QED BY <1>1, <3>1
  <2>4. CASE n + 1 \notin V
    BY <1>3, <2>1, <2>2, <2>4
  <2>5. CASE U # {} /\ n + 1 \in V
    <3>1. PICK i \in U : \A j \in U : tasks[i].at =< tasks[j].at
      BY <1>3, <2>2, <2>5
    <3>2. i \in V /\ tasks[i].at \in Int /\ tasks[n + 1].at \in Int
      BY <1>1, <2>1, <2>5, <3>1
    <3>3. CASE tasks[i].at =< tasks[n + 1].at
      BY <2>1, <3>1, <3>2, <3>3
    <3>4. CASE tasks[n + 1].at < tasks[i].at
      <4>1. ASSUME NEW j \in V PROVE tasks[n + 1].at =< tasks[j].at
        <5>1. tasks[j].at \in Int
          BY <1>1
        <5>2. j = n + 1 \/ tasks[i].at =< tasks[j].at
          BY <2>1, <3>1
        <5> QED BY <3>2, <3>4, <5>1, <5>2
      <4> QED BY <2>5, <4>1
    <3> QED BY <3>2, <3>3, <3>4
  <2> QED BY <2>3, <2>4, <2>5
<1>4. Nat \subseteq S
  <2> HIDE DEF S
  <2> QED BY <1>2, <1>3, SetInduction
<1>5. PICK n \in 0 .. MaxTasks : tasks \in [1 .. n -> [at : Times, length : Lengths]]
  BY DEF TasksOK
<1>6. n \in Nat /\ \A j \in W : j =< n
  BY <1>5, SequentialAssumption DEF Cpu!SchedulerAssumption
<1>7. n \in S
  BY <1>4, <1>6
<1>8. W \in SUBSET DOMAIN tasks
  OBVIOUS
<1>9. First(W)
  <2> HIDE DEF First
  <2> QED BY <1>6, <1>7, <1>8
<1> QED BY <1>9

(* A turn begins at the time of a task that waits, if the heap is empty.  *)
LEMMA TurnStep ==
  ASSUME CpuInv, Cpu!Turn
  PROVE  CpuInv'
<1>1. UNCHANGED <<tasks, waiting, heap, result>>
  BY DEF Cpu!Turn
<1>2. currentTime' \in Int /\ (heap = <<>> => \E i \in waiting : tasks[i].at =< currentTime')
  <2>1. CASE heap # <<>>
    BY <2>1 DEF Cpu!Turn, CpuInv
  <2>2. CASE heap = <<>>
    <3> DEFINE First(t) == /\ \E i \in waiting : tasks[i].at = t
                           /\ \A i \in waiting : t =< tasks[i].at
    <3>1. waiting # {} /\ waiting \subseteq DOMAIN tasks /\ TasksOK
      BY <2>2 DEF Cpu!Turn, CpuInv
    <3>2. PICK i \in waiting : \A j \in waiting : tasks[i].at =< tasks[j].at
      BY <3>1, OneArrivesFirst
    <3>3. tasks[i].at \in Times
      BY <3>1, Arrivals
    <3>4. First(tasks[i].at)
      BY <3>2
    <3>5. currentTime' = CHOOSE t \in Times : First(t)
      BY <2>2 DEF Cpu!Turn
    <3>6. currentTime' \in Times /\ First(currentTime')
      <4> HIDE DEF First
      <4> QED BY <3>3, <3>4, <3>5
    <3>7. PICK j \in waiting : tasks[j].at = currentTime'
      BY <3>6
    <3>8. currentTime' \in Int
      BY <3>6, SequentialAssumption DEF Cpu!SchedulerAssumption
    <3> QED BY <3>7, <3>8
  <2> QED BY <2>1, <2>2
<1> QED BY <1>1, <1>2 DEF CpuInv, TasksOK, InHeap, Done, Ordered, Cpu!Less

(* A task that arrives goes to the end of the heap and is sifted up. *)
LEMMA PushStep ==
  ASSUME CpuInv, NEW i, Cpu!push(i)
  PROVE  CpuInv'
<1>1. /\ i \in waiting /\ waiting' = waiting \ {i}
      /\ heap' = Cpu!heapifyUp(Append(heap, i), Len(heap) + 1)
      /\ UNCHANGED <<tasks, currentTime, filling, result>>
  BY DEF Cpu!push, Cpu!Arrives
<1>2. /\ TasksOK /\ waiting \subseteq DOMAIN tasks /\ currentTime \in Int
      /\ heap \in Seq(InHeap) /\ Arranged(heap, Len(heap), InHeap) /\ Ordered(heap, Len(heap))
      /\ result \in Seq(DOMAIN tasks \ waiting)
      /\ \A j, k \in DOMAIN result : result[j] = result[k] => j = k
  BY DEF CpuInv
<1>3. TasksOK' /\ waiting' \subseteq DOMAIN tasks' /\ currentTime' \in Int
  BY <1>1, <1>2 DEF TasksOK
<1>4. Done \subseteq DOMAIN tasks \ waiting
  BY <1>2 DEF Done
<1>5. InHeap' = InHeap \cup {i} /\ i \notin InHeap /\ InHeap \subseteq DOMAIN tasks
      /\ i \in DOMAIN tasks /\ Len(heap) \in Nat
  BY <1>1, <1>2, <1>4 DEF InHeap, Done
<1>6. Arranged(heap', Len(heap) + 1, InHeap') /\ Ordered(heap', Len(heap) + 1)
  BY <1>1, <1>2, <1>5, PushedOnHeap
<1>7. heap' \in Seq(InHeap') /\ Len(heap') = Len(heap) + 1
  <2>1. Len(heap) + 1 \in Nat
    BY <1>5
  <2> QED BY <1>6, <2>1, ArrangedIsSequence
<1>8. Arranged(heap, Len(heap), InHeap)' /\ Ordered(heap, Len(heap))'
  BY <1>1, <1>6, <1>7 DEF Arranged, Ordered, Cpu!Less
<1>9. result' \in Seq(DOMAIN tasks' \ waiting')
  <2>1. DOMAIN tasks \ waiting \subseteq DOMAIN tasks' \ waiting'
    BY <1>1
  <2> QED BY <1>1, <1>2, <2>1, SeqMonotonic
<1>10. \A j, k \in DOMAIN result' : result'[j] = result'[k] => j = k
  BY <1>1, <1>2
<1>11. heap' # <<>>
  BY <1>5, <1>7
<1> QED BY <1>3, <1>7, <1>8, <1>9, <1>10, <1>11 DEF CpuInv

(* The task handed out was the root; the last one takes its place and is   *)
(* sifted down.                                                            *)
LEMMA PopStep ==
  ASSUME CpuInv, Cpu!pop
  PROVE  CpuInv'
<1>1. /\ filling /\ \A i \in waiting : tasks[i].at > currentTime
      /\ result' = Append(result, heap[1]) /\ heap' = Cpu!Popped(heap)
      /\ currentTime' = Cpu!AsInt(currentTime + tasks[heap[1]].length)
      /\ filling' = FALSE /\ UNCHANGED <<tasks, waiting>>
  BY DEF Cpu!pop
<1>2. /\ TasksOK /\ waiting \subseteq DOMAIN tasks /\ currentTime \in Int
      /\ heap \in Seq(InHeap) /\ Arranged(heap, Len(heap), InHeap) /\ Ordered(heap, Len(heap))
      /\ result \in Seq(DOMAIN tasks \ waiting)
      /\ \A j, k \in DOMAIN result : result[j] = result[k] => j = k
      /\ filling /\ heap = <<>> => \E i \in waiting : tasks[i].at =< currentTime
  BY DEF CpuInv
<1>3. heap # <<>>
  <2> SUFFICES ASSUME heap = <<>> PROVE FALSE
    OBVIOUS
  <2>1. PICK i \in waiting : tasks[i].at =< currentTime
    BY <1>1, <1>2
  <2>2. tasks[i].at \in Int /\ tasks[i].at > currentTime
    BY <1>1, <1>2, Arrivals
  <2> QED BY <1>2, <2>1, <2>2
<1>4. /\ Len(heap) \in Nat \ {0} /\ heap[1] \in InHeap
      /\ InHeap \subseteq DOMAIN tasks \ waiting
  BY <1>2, <1>3 DEF InHeap
<1>5. DOMAIN result = 1 .. Len(result) /\ Len(result) \in Nat
  BY <1>2, LenProperties
<1>6. /\ result' \in Seq(DOMAIN tasks' \ waiting') /\ Len(result') = Len(result) + 1
      /\ DOMAIN result' = 1 .. Len(result) + 1
      /\ result'[Len(result) + 1] = heap[1]
      /\ \A k \in 1 .. Len(result) : result'[k] = result[k]
  BY <1>1, <1>2, <1>4
<1>7. \A k \in DOMAIN result : result[k] # heap[1]
  BY <1>4 DEF InHeap, Done
<1>8. ASSUME NEW j \in DOMAIN result', NEW k \in DOMAIN result', result'[j] = result'[k]
      PROVE  j = k
  <2>1. CASE j \in DOMAIN result /\ k \in DOMAIN result
    BY <1>2, <1>5, <1>6, <1>8, <2>1
  <2>2. CASE j = Len(result) + 1 \/ k = Len(result) + 1
    BY <1>5, <1>6, <1>7, <1>8, <2>2
  <2> QED BY <1>5, <1>6, <2>1, <2>2
<1>9. InHeap' = InHeap \ {heap[1]}
  <2>1. Done' = Done \cup {heap[1]}
    <3>1. \A k \in DOMAIN result : k \in DOMAIN result' /\ result'[k] = result[k]
      BY <1>5, <1>6
    <3>2. \A k \in DOMAIN result' : k \in DOMAIN result \/ k = Len(result) + 1
      BY <1>5, <1>6
    <3>3. Len(result) + 1 \in DOMAIN result'
      BY <1>5, <1>6
    <3> QED BY <1>6, <3>1, <3>2, <3>3 DEF Done
  <2> QED BY <1>1, <2>1 DEF InHeap
<1>10. /\ Arranged(heap', Len(heap) - 1, InHeap') /\ Ordered(heap', Len(heap) - 1)
  BY <1>1, <1>2, <1>4, <1>9, PoppedOffHeap
<1>11. heap' \in Seq(InHeap') /\ Len(heap') = Len(heap) - 1
  <2>1. Len(heap) - 1 \in Nat
    BY <1>4
  <2> QED BY <1>10, <2>1, ArrangedIsSequence
<1>12. Arranged(heap, Len(heap), InHeap)' /\ Ordered(heap, Len(heap))'
  BY <1>1, <1>10, <1>11 DEF Arranged, Ordered, Cpu!Less
<1>13. currentTime' \in Int
  <2>1. tasks[heap[1]].length \in Int
    BY <1>2, <1>4, Arrivals
  <2>2. PICK n \in Int : n = currentTime + tasks[heap[1]].length
    BY <1>2, <2>1
  <2>3. IntRange \in Nat \ {0}
    BY SequentialAssumption DEF Cpu!SchedulerAssumption
  <2>4. IntRange \div 2 \in Int
    BY <2>3
  <2>5. (n + IntRange \div 2) % IntRange \in Int
    BY <2>3, <2>4
  <2> QED BY <1>1, <2>2, <2>4, <2>5 DEF Cpu!AsInt
<1>14. TasksOK' /\ waiting' \subseteq DOMAIN tasks'
  BY <1>1, <1>2 DEF TasksOK
<1> QED BY <1>1, <1>6, <1>8, <1>11, <1>12, <1>13, <1>14 DEF CpuInv

(* In an ordered heap the root is the least task. *)
LEMMA InvariantHandsOutLeast ==
  ASSUME CpuInv
  PROVE  Cpu!LeastOfHeapNext
<1>1. /\ TasksOK /\ heap \in Seq(InHeap) /\ Arranged(heap, Len(heap), InHeap)
      /\ Ordered(heap, Len(heap))
      /\ result \in Seq(DOMAIN tasks \ waiting)
      /\ \A j, k \in DOMAIN result : result[j] = result[k] => j = k
  BY DEF CpuInv
<1> DEFINE T == DOMAIN tasks
<1>2. heap \in Seq(T) /\ result \in Seq(T)
  <2>1. InHeap \subseteq T /\ T \ waiting \subseteq T
    BY DEF InHeap
  <2> QED BY <1>1, <2>1, SeqMonotonic
<1>3. PICK L, M : L = Len(heap) /\ M = Len(result)
  OBVIOUS
<1>4. L \in Nat /\ M \in Nat /\ DOMAIN heap = 1 .. L /\ DOMAIN result = 1 .. M
  BY <1>2, <1>3, LenProperties
<1>5. PICK c : c = heap \o result
  OBVIOUS
<1>6. /\ c \in Seq(T) /\ Len(c) = L + M
      /\ \A i \in 1 .. L + M : c[i] = IF i =< L THEN heap[i] ELSE result[i - L]
  BY <1>2, <1>3, <1>5, ConcatProperties
<1>7. DOMAIN c = 1 .. L + M
  BY <1>6, LenProperties
<1>8. \A i \in DOMAIN c : \/ i \in 1 .. L /\ c[i] = heap[i]
                          \/ i - L \in 1 .. M /\ c[i] = result[i - L] /\ i \in Int
  BY <1>4, <1>6, <1>7
<1>9. /\ \A i \in 1 .. L : heap[i] \in InHeap
      /\ \A i, j \in 1 .. L : heap[i] = heap[j] => i = j
      /\ \A r \in InHeap : \E i \in 1 .. L : heap[i] = r
  BY <1>1, <1>3 DEF Arranged
<1>10. \A i \in 1 .. M : result[i] \in Done /\ result[i] \notin InHeap
  BY <1>4 DEF Done, InHeap
<1>11. ASSUME NEW i \in DOMAIN c, NEW j \in DOMAIN c, c[i] = c[j] PROVE i = j
  <2>1. CASE i \in 1 .. L /\ c[i] = heap[i]
    <3>1. j \in 1 .. L /\ c[j] = heap[j]
      <4>1. heap[i] \in InHeap
        BY <1>9, <2>1
      <4>2. CASE j - L \in 1 .. M /\ c[j] = result[j - L]
        <5>1. result[j - L] \notin InHeap
          BY <1>10, <4>2
        <5> QED BY <1>11, <2>1, <4>1, <4>2, <5>1
      <4> QED BY <1>8, <4>2
    <3> QED BY <1>9, <1>11, <2>1, <3>1
  <2>2. CASE i - L \in 1 .. M /\ c[i] = result[i - L] /\ i \in Int
    <3>1. j - L \in 1 .. M /\ c[j] = result[j - L] /\ j \in Int
      BY <1>8, <1>9, <1>10, <1>11, <2>2
    <3>2. i - L = j - L
      BY <1>1, <1>4, <1>11, <2>2, <3>1
    <3> QED BY <1>4, <2>2, <3>1, <3>2
  <2> QED BY <1>8, <2>1, <2>2
<1>12. {c[i] : i \in DOMAIN c} = T \ waiting
  <2>1. Done \subseteq T \ waiting
    BY <1>1 DEF Done
  <2>2. InHeap \cup Done = T \ waiting
    BY <2>1 DEF InHeap
  <2>3. \A i \in DOMAIN c : c[i] \in InHeap \cup Done
    BY <1>8, <1>9, <1>10
  <2>4. ASSUME NEW r \in InHeap PROVE \E i \in DOMAIN c : c[i] = r
    <3>1. PICK i \in 1 .. L : heap[i] = r
      BY <1>9
    <3>2. i \in DOMAIN c /\ c[i] = heap[i]
      BY <1>4, <1>6, <1>7
    <3> QED BY <3>1, <3>2
  <2>5. ASSUME NEW r \in Done PROVE \E i \in DOMAIN c : c[i] = r
    <3>1. PICK k \in 1 .. M : result[k] = r
      BY <1>4 DEF Done
    <3>2. PICK i : i = k + L
      OBVIOUS
    <3>3. i \in 1 .. L + M /\ ~ (i =< L) /\ i - L = k
      BY <1>4, <3>2
    <3>4. c[i] = result[k]
      BY <1>6, <3>3
    <3> QED BY <1>7, <3>1, <3>3, <3>4
  <2> QED BY <2>2, <2>3, <2>4, <2>5
<1>13. ASSUME NEW i \in {heap[k] : k \in DOMAIN heap} PROVE i = heap[1] \/ Cpu!Less(heap[1], i)
  <2>1. PICK k \in 1 .. L : i = heap[k]
    BY <1>4
  <2>2. InHeap \subseteq DOMAIN tasks
    BY DEF InHeap
  <2>3. k = 1 \/ Cpu!Less(heap[1], heap[k])
    BY <1>1, <1>3, <1>4, <2>2, RootIsLeast
  <2> QED BY <2>1, <2>3
<1>14. Cpu!IsInjective(c) /\ Cpu!Range(c) = T \ waiting
  BY <1>11, <1>12 DEF Cpu!IsInjective, Cpu!Range
<1> QED BY <1>5, <1>13, <1>14 DEF Cpu!LeastOfHeapNext, Cpu!Range

(* LeastOfHeapNext, for any number of tasks, arrivals and lengths, and any *)
(* width of an int: no task is lost or handed out twice by the swaps of    *)
(* the heap, and the one handed out is always the least.                   *)
THEOREM SchedulerHandsOutLeast == AllSpec => []LeastOfHeapNext
<1>1. AllInit => CpuInv
  <2> SUFFICES ASSUME AllInit PROVE CpuInv
    OBVIOUS
  <2>1. Cpu!Init
    BY DEF AllInit
  <2>2. TasksOK
    BY <2>1, Zenon DEF Cpu!Init, TasksOK
  <2>3. heap = <<>> /\ result = <<>> /\ waiting = DOMAIN tasks /\ currentTime = 0 /\ filling = FALSE
    BY <2>1 DEF Cpu!Init
  <2>4. InHeap = {}
    BY <2>3 DEF InHeap
  <2> QED BY <2>2, <2>3, <2>4 DEF CpuInv, Arranged, Ordered
<1>2. CpuInv /\ [AllNext]_allVars => CpuInv'
  <2> SUFFICES ASSUME CpuInv, [AllNext]_allVars PROVE CpuInv'
    OBVIOUS
  <2>1. CASE Cpu!Next
    BY <2>1, TurnStep, PushStep, PopStep DEF Cpu!Next
  <2>2. CASE UNCHANGED cpuVars
    BY <2>2 DEF cpuVars, CpuInv, TasksOK, InHeap, Done, Arranged, Ordered, Cpu!Less
  <2> QED BY <2>1, <2>2 DEF AllNext, allVars
<1>3. CpuInv => LeastOfHeapNext
  BY InvariantHandsOutLeast DEF LeastOfHeapNext
<1> QED BY <1>1, <1>2, <1>3, PTL DEF AllSpec

(***************************************************************************)
(* The searches in maps files                                              *)
(***************************************************************************)

Tree == INSTANCE RbShapeProofs WITH Nodes <- 1 .. MaxVmas

(* The nodes are numbers, none of them null.                               *)
LEMMA Bounds == NULL \notin 1 .. MaxVmas /\ MaxVmas \in Nat
BY MapProgramsAssumption

(* ProcessMaps and the lemmas mean the same functions of rbtree.c.         *)
LEMMA SameStores ==
  /\ \A d : ELF!Rb!Other(d) = Tree!Other(d)
  /\ \A t, n : ELF!Rb!IsRed(t, n) = Tree!IsRed(t, n)
  /\ \A t, n, p, c : ELF!Rb!rb_set_parent_color(t, n, p, c) = Tree!rb_set_parent_color(t, n, p, c)
  /\ \A t, n, s, c : ELF!Rb!SetKid(t, n, s, c) = Tree!SetKid(t, n, s, c)
  /\ \A t, n, p, more : ELF!Rb!Loop(t, n, p, more) = Tree!Loop(t, n, p, more)
BY DEF ELF!Rb!Other, Tree!Other, ELF!Rb!IsRed, Tree!IsRed, ELF!Rb!SetKid, Tree!SetKid,
       ELF!Rb!Loop, Tree!Loop, ELF!Rb!rb_set_parent_color, Tree!rb_set_parent_color

(* Their empty tree, the place of a key in it, a node linked there.        *)
LEMMA SameSearch ==
  /\ ELF!Rb!EmptyTree = Tree!EmptyTree
  /\ \A t, k, n : ELF!Rb!Place(t, k, n) = Tree!Place(t, k, n)
  /\ \A t, n, p, s : ELF!Rb!rb_link_node(t, n, p, s) = Tree!rb_link_node(t, n, p, s)
<1>1. ELF!Rb!EmptyTree = Tree!EmptyTree
  BY DEF ELF!Rb!EmptyTree, Tree!EmptyTree, ELF!Rb!NoKids, Tree!NoKids, ELF!Rb!Sides, Tree!Sides
<1>2. ASSUME NEW t, NEW k, NEW n PROVE ELF!Rb!Place(t, k, n) = Tree!Place(t, k, n)
  BY DEF ELF!Rb!Place, Tree!Place, ELF!Rb!PlaceBy, Tree!PlaceBy
<1>3. ASSUME NEW t, NEW n, NEW p, NEW s
      PROVE  ELF!Rb!rb_link_node(t, n, p, s) = Tree!rb_link_node(t, n, p, s)
  <2>1. ELF!Rb!NoKids = Tree!NoKids
    BY DEF ELF!Rb!NoKids, Tree!NoKids, ELF!Rb!Sides, Tree!Sides
  <2> QED BY <2>1, SameStores DEF ELF!Rb!rb_link_node, Tree!rb_link_node
<1> QED BY <1>1, <1>2, <1>3

(* The colours that go with a rotation.                                    *)
LEMMA SamePaint ==
  \A t, n, p, c : ELF!Rb!PaintIfThere(t, n, p, c) = Tree!PaintIfThere(t, n, p, c)
BY SameStores DEF ELF!Rb!PaintIfThere, Tree!PaintIfThere

(* The pointer that the parent of a rotation keeps.                        *)
LEMMA SameChild ==
  \A t, a, b, p : ELF!Rb!change_child(t, a, b, p) = Tree!change_child(t, a, b, p)
BY SameStores DEF ELF!Rb!change_child, Tree!change_child

(* The ends of a rotation.                                                 *)
LEMMA SameRotate ==
  \A t, a, b, c : ELF!Rb!rotate_set_parents(t, a, b, c) = Tree!rotate_set_parents(t, a, b, c)
BY SameStores, SameChild DEF ELF!Rb!rotate_set_parents, Tree!rotate_set_parents

(* Case 1 of __rb_insert.                                                  *)
LEMMA SameFlip ==
  \A t, p, g, u : ELF!Rb!InsertFlip(t, p, g, u) = Tree!InsertFlip(t, p, g, u)
<1> SUFFICES ASSUME NEW t, NEW p, NEW g, NEW u
             PROVE  ELF!Rb!InsertFlip(t, p, g, u) = Tree!InsertFlip(t, p, g, u)
  OBVIOUS
<1>1. PICK t1 : t1 = Tree!rb_set_parent_color(t, u, g, FALSE)
  OBVIOUS
<1>2. PICK t2 : t2 = Tree!rb_set_parent_color(t1, p, g, FALSE)
  OBVIOUS
<1>3. PICK gg : gg = t2.up[g]
  OBVIOUS
<1>4. Tree!InsertFlip(t, p, g, u)
        = Tree!Loop(Tree!rb_set_parent_color(t2, g, gg, TRUE), g, gg, TRUE)
  BY <1>1, <1>2, <1>3, Zenon DEF Tree!InsertFlip
<1>5. t1 = ELF!Rb!rb_set_parent_color(t, u, g, FALSE)
      /\ t2 = ELF!Rb!rb_set_parent_color(t1, p, g, FALSE)
  BY <1>1, <1>2, SameStores
<1>6. ELF!Rb!InsertFlip(t, p, g, u)
        = ELF!Rb!Loop(ELF!Rb!rb_set_parent_color(t2, g, gg, TRUE), g, gg, TRUE)
  BY <1>3, <1>5, Zenon DEF ELF!Rb!InsertFlip
<1>7. Tree!rb_set_parent_color(t2, g, gg, TRUE) = ELF!Rb!rb_set_parent_color(t2, g, gg, TRUE)
  BY SameStores
<1> QED BY <1>4, <1>6, <1>7, SameStores, Zenon

(* Cases 2 and 3.                                                          *)
LEMMA SameTurns ==
  /\ \A t, n, p, d : ELF!Rb!InsertRotateParent(t, n, p, d) = Tree!InsertRotateParent(t, n, p, d)
  /\ \A t, p, g, d : ELF!Rb!InsertRotateGparent(t, p, g, d) = Tree!InsertRotateGparent(t, p, g, d)
<1>1. ASSUME NEW t, NEW n, NEW p, NEW d
      PROVE  ELF!Rb!InsertRotateParent(t, n, p, d) = Tree!InsertRotateParent(t, n, p, d)
  BY SameStores, SamePaint DEF ELF!Rb!InsertRotateParent, Tree!InsertRotateParent
<1>2. ASSUME NEW t, NEW p, NEW g, NEW d
      PROVE  ELF!Rb!InsertRotateGparent(t, p, g, d) = Tree!InsertRotateGparent(t, p, g, d)
  BY SameStores, SamePaint, SameRotate DEF ELF!Rb!InsertRotateGparent, Tree!InsertRotateGparent
<1> QED BY <1>1, <1>2

(* One turn of the loop.                                                   *)
LEMMA SameIteration ==
  \A l : ELF!Rb!InsertIteration(l) = Tree!InsertIteration(l)
<1> SUFFICES ASSUME NEW l PROVE ELF!Rb!InsertIteration(l) = Tree!InsertIteration(l)
  OBVIOUS
<1> DEFINE t == l.t
           n == l.node
           p == l.parent
           g == t.up[p]
           d == IF p # t.kid[g]["right"] THEN "left" ELSE "right"
           far == Tree!Other(d)
           turned == Tree!InsertRotateParent(t, n, p, d)
           inner == n = t.kid[p][far]
           uncle == t.kid[g][far]
<1>1. ELF!Rb!Other(d) = far /\ ELF!Rb!IsRed(t, uncle) = Tree!IsRed(t, uncle)
      /\ ELF!Rb!InsertRotateParent(t, n, p, d) = turned
      /\ ELF!Rb!InsertFlip(t, p, g, uncle) = Tree!InsertFlip(t, p, g, uncle)
  BY SameStores, SameTurns, SameFlip
<1>2. CASE p = NULL
  BY <1>2, SameStores DEF ELF!Rb!InsertIteration, Tree!InsertIteration
<1>3. CASE p # NULL /\ ~ t.red[p]
  BY <1>3, SameStores DEF ELF!Rb!InsertIteration, Tree!InsertIteration
<1>4. CASE p # NULL /\ t.red[p]
  BY <1>1, <1>4, SameStores, SameTurns DEF ELF!Rb!InsertIteration, Tree!InsertIteration
<1> QED BY <1>2, <1>3, <1>4

(* The sizes of sets are the same.                                         *)
LEMMA SameCardinalities ==
  ASSUME NEW S
  PROVE  /\ Tree!Cardinality(S) = Cardinality(S) /\ ELF!Rb!Cardinality(S) = Cardinality(S)
         /\ Tree!IsFiniteSet(S) <=> IsFiniteSet(S)
<1>1. Tree!Cardinality(S) = Cardinality(S)
  BY DEF Tree!Cardinality, Cardinality
<1>2. ELF!Rb!Cardinality(S) = Cardinality(S)
  BY DEF ELF!Rb!Cardinality, Cardinality
<1>3. Tree!IsFiniteSet(S) <=> IsFiniteSet(S)
  BY DEF Tree!IsFiniteSet, IsFiniteSet
<1> QED BY <1>1, <1>2, <1>3

(* One turn of the loop after another, both come to the same tree.         *)
LEMMA SameInsertion ==
  ASSUME NULL \notin 1 .. MaxVmas, MaxVmas \in Nat, NEW t, NEW n
  PROVE  ELF!Rb!rb_insert_color(t, n) = Tree!rb_insert_color(t, n)
<1> DEFINE c == Cardinality(1 .. MaxVmas)
           start == Tree!Loop(t, n, t.up[n], TRUE)
           Here(f) == [i \in 0 .. c |-> IF i = 0 THEN start
                        ELSE IF f[i - 1].more THEN Tree!InsertIteration(f[i - 1]) ELSE f[i - 1]]
           There(f) == [i \in 0 .. c |-> IF i = 0 THEN ELF!Rb!Loop(t, n, t.up[n], TRUE)
                         ELSE IF f[i - 1].more THEN ELF!Rb!InsertIteration(f[i - 1])
                              ELSE f[i - 1]]
<1>1. c \in Nat
  BY FS_Interval, FS_CardinalityType
<1>2. PICK f : f = Here(f)
  <2>1. PICK f : Tree!LoopRun(start, c, f)
    <3> HIDE DEF c, start
    <3> QED BY <1>1, Tree!LoopRuns
  <2>2. f = Here(f)
    BY <2>1 DEF Tree!LoopRun, Tree!Turned1
  <2> HIDE DEF Here
  <2> QED BY <2>2
<1>3. ASSUME NEW g PROVE Here(g) = There(g)
  <2>1. start = ELF!Rb!Loop(t, n, t.up[n], TRUE)
    BY SameStores
  <2> HIDE DEF start, c
  <2> QED BY <2>1, SameIteration
<1>4. PICK one : one = Here(one) /\ one = CHOOSE g : g = Here(g)
  <2> HIDE DEF Here
  <2> QED BY <1>2
<1>5. PICK two : two = There(two) /\ two = CHOOSE g : g = There(g)
  <2>1. f = There(f)
    BY <1>2, <1>3
  <2> HIDE DEF There
  <2> QED BY <2>1
<1>6. Tree!rb_insert_color(t, n) = one[c].t
  BY <1>4, SameCardinalities DEF Tree!rb_insert_color, Tree!RunLoop
<1>7. ELF!Rb!rb_insert_color(t, n) = two[c].t
  BY <1>5, SameCardinalities DEF ELF!Rb!rb_insert_color, ELF!Rb!RunLoop
<1> DEFINE S == {i \in Nat : i =< c => one[i] = two[i]}
<1>8. two = Here(two)
  <2> HIDE DEF Here, There
  <2> QED BY <1>3, <1>5
<1>9. 0 \in S
  <2>1. one[0] = start
    BY <1>1, <1>4
  <2>2. two[0] = start
    BY <1>1, <1>8
  <2> QED BY <2>1, <2>2
<1>10. ASSUME NEW i \in Nat, i \in S PROVE i + 1 \in S
  <2> SUFFICES ASSUME i + 1 =< c PROVE one[i + 1] = two[i + 1]
    BY <1>10
  <2>1. i =< c /\ i + 1 \in 0 .. c /\ i + 1 # 0 /\ (i + 1) - 1 = i
    BY <1>1
  <2>2. one[i] = two[i]
    BY <1>10, <2>1
  <2>3. one[i + 1] = IF one[i].more THEN Tree!InsertIteration(one[i]) ELSE one[i]
    <3>1. one = Here(one)
      BY <1>4
    <3> HIDE DEF start, c
    <3> QED BY <2>1, <3>1
  <2>4. two[i + 1] = IF two[i].more THEN Tree!InsertIteration(two[i]) ELSE two[i]
    <3> HIDE DEF start, c
    <3> QED BY <1>8, <2>1
  <2> QED BY <2>2, <2>3, <2>4
<1>11. c \in S
  <2> HIDE DEF S
  <2>1. Nat \subseteq S
    BY <1>9, <1>10, Tree!CountingUp
  <2> QED BY <1>1, <2>1
<1> QED BY <1>1, <1>6, <1>7, <1>11

-----------------------------------------------------------------------------
(* The tree with the k-th mapping, inserted by its start.                  *)
Grown(t, starts, k) ==
  LET at == Tree!Place(t, starts, k)
  IN Tree!rb_insert_color(Tree!rb_link_node(t, k, at[1], at[2]), k)

(* The trees after each insertion.                                         *)
Trunk(starts, n, f) ==
  f = [k \in 0 .. n |-> IF k = 0 THEN Tree!EmptyTree ELSE Grown(f[k - 1], starts, k)]

(* There are such trees, whatever the starts.                              *)
LEMMA TrunkExists ==
  ASSUME NULL \notin 1 .. MaxVmas, NEW starts, NEW c \in Nat
  PROVE  \E f : Trunk(starts, c, f)
<1> DEFINE S == {n \in Nat : \E f : Trunk(starts, n, f)}
<1>1. 0 \in S
  <2>1. Trunk(starts, 0, [k \in 0 .. 0 |-> Tree!EmptyTree])
    BY DEF Trunk
  <2> QED BY <2>1
<1>2. ASSUME NEW n \in Nat, n \in S PROVE n + 1 \in S
  <2>1. PICK f : Trunk(starts, n, f)
    BY <1>2
  <2> DEFINE e == [k \in 0 .. n + 1 |-> IF k = n + 1 THEN Grown(f[n], starts, k) ELSE f[k]]
  <2>2. ASSUME NEW k \in 0 .. n + 1
        PROVE  e[k] = IF k = 0 THEN Tree!EmptyTree ELSE Grown(e[k - 1], starts, k)
    <3>1. CASE k = n + 1
      <4>1. k # 0 /\ k - 1 = n /\ e[k] = Grown(f[n], starts, k) /\ e[k - 1] = f[n]
        BY <3>1
      <4> QED BY <4>1
    <3>2. CASE k # n + 1
      <4>1. k \in 0 .. n /\ e[k] = f[k] /\ (k # 0 => k - 1 \in 0 .. n /\ e[k - 1] = f[k - 1])
        BY <3>2
      <4>2. f[k] = IF k = 0 THEN Tree!EmptyTree ELSE Grown(f[k - 1], starts, k)
        BY <2>1, <4>1 DEF Trunk
      <4> QED BY <4>1, <4>2
    <3> QED BY <3>1, <3>2
  <2>3. e = [k \in 0 .. n + 1 |-> e[k]]
    OBVIOUS
  <2> HIDE DEF e
  <2>4. Trunk(starts, n + 1, e)
    BY <2>2, <2>3 DEF Trunk
  <2> QED BY <2>4
<1>3. Nat \subseteq S
  <2> HIDE DEF S
  <2> QED BY <1>1, <1>2, Tree!CountingUp
<1> QED BY <1>3

(* TreeOf is the last of them.                                             *)
LEMMA TreeOfIsTrunk ==
  ASSUME NULL \notin 1 .. MaxVmas, MaxVmas \in Nat, NEW vmas, Len(vmas) \in Nat,
         NEW starts, starts = [i \in 1 .. MaxVmas |->
                                 IF i \in DOMAIN vmas THEN vmas[i].start ELSE 0]
  PROVE  \E f : Trunk(starts, Len(vmas), f) /\ ELF!TreeOf(vmas) = f[Len(vmas)]
<1> DEFINE n == Len(vmas)
           first == [i \in 1 .. MaxVmas |-> IF i \in DOMAIN vmas THEN vmas[i].start ELSE 0]
           Here(f) == [k \in 0 .. n |-> IF k = 0 THEN Tree!EmptyTree
                                        ELSE Grown(f[k - 1], starts, k)]
           There(f) == [k \in 0 .. n |->
                          IF k = 0 THEN ELF!Rb!EmptyTree
                          ELSE LET at == ELF!Rb!Place(f[k - 1], first, k)
                               IN ELF!Rb!rb_insert_color(
                                    ELF!Rb!rb_link_node(f[k - 1], k, at[1], at[2]), k)]
<1>1. ASSUME NEW f PROVE Here(f) = There(f)
  <2>1. ASSUME NEW k \in 0 .. n PROVE Here(f)[k] = There(f)[k]
    <3>1. CASE k = 0
      BY <3>1, SameSearch
    <3>2. CASE k # 0
      <4>1. PICK t : t = f[k - 1]
        OBVIOUS
      <4>2. PICK at : at = Tree!Place(t, starts, k)
        OBVIOUS
      <4>3. PICK u : u = Tree!rb_link_node(t, k, at[1], at[2])
        OBVIOUS
      <4>4. Here(f)[k] = Tree!rb_insert_color(u, k)
        BY <3>2, <4>1, <4>2, <4>3 DEF Grown
      <4>5. at = ELF!Rb!Place(t, starts, k) /\ u = ELF!Rb!rb_link_node(t, k, at[1], at[2])
        BY <4>2, <4>3, SameSearch
      <4>6. There(f)[k] = ELF!Rb!rb_insert_color(u, k)
        <5>1. first = starts
          OBVIOUS
        <5> HIDE DEF first
        <5> QED BY <3>2, <4>1, <4>5, <5>1
      <4> HIDE DEF Here, There
      <4> QED BY <4>4, <4>6, SameInsertion
    <3> QED BY <3>1, <3>2
  <2> QED BY <2>1
<1>2. PICK f : Trunk(starts, n, f)
  BY TrunkExists
<1>3. f = There(f)
  <2>1. f = Here(f)
    BY <1>2 DEF Trunk
  <2> HIDE DEF Here, There
  <2> QED BY <1>1, <2>1
<1>4. PICK g : g = There(g) /\ g = CHOOSE h : h = There(h)
  <2> HIDE DEF There
  <2> QED BY <1>3
<1>5. Trunk(starts, n, g)
  <2>1. g = Here(g)
    <3> HIDE DEF Here, There
    <3> QED BY <1>1, <1>4
  <2> QED BY <2>1 DEF Trunk
<1>6. ELF!TreeOf(vmas) = g[n]
  BY <1>4 DEF ELF!TreeOf
<1> QED BY <1>5, <1>6

(* The mapping that is inserted is in the tree, in its place.              *)
LEMMA GrowsOn ==
  ASSUME NULL \notin 1 .. MaxVmas, MaxVmas \in Nat, NEW x, NEW pos,
         Tree!Firm(x, pos, {}, NULL, "left"), NEW starts \in [1 .. MaxVmas -> Int],
         Tree!KeysRise(x, pos, starts), NEW m \in 1 .. MaxVmas, m \notin Tree!InTree(x),
         NEW y, y = Grown(x, starts, m)
  PROVE  \E pos2 : /\ Tree!Firm(y, pos2, {}, NULL, "left") /\ Tree!KeysRise(y, pos2, starts)
                   /\ Tree!InTree(y) = Tree!InTree(x) \cup {m}
<1>1. Tree!IsFiniteSet(1 .. MaxVmas)
  BY FS_Interval, SameCardinalities
<1>2. PICK at : at = Tree!Place(x, starts, m)
  OBVIOUS
<1>3. y = Tree!rb_insert_color(Tree!rb_link_node(x, m, at[1], at[2]), m)
  BY <1>2 DEF Grown
<1> QED BY <1>1, <1>2, <1>3, Tree!InsertedByKey

(* The nodes of the finished tree are all the mappings, in the order of    *)
(* their starts, and the tree is sound.                                    *)
LEMMA TreeIsBuilt ==
  ASSUME NULL \notin 1 .. MaxVmas, MaxVmas \in Nat, NEW vmas, Len(vmas) \in 0 .. MaxVmas,
         DOMAIN vmas = 1 .. Len(vmas), \A i \in DOMAIN vmas : vmas[i].start \in Int,
         NEW starts, starts = [i \in 1 .. MaxVmas |->
                                 IF i \in DOMAIN vmas THEN vmas[i].start ELSE 0],
         NEW t, t = ELF!TreeOf(vmas)
  PROVE  \E pos : /\ Tree!Firm(t, pos, {}, NULL, "left") /\ Tree!KeysRise(t, pos, starts)
                  /\ Tree!InTree(t) = DOMAIN vmas
<1> DEFINE n == Len(vmas)
<1>1. starts \in [1 .. MaxVmas -> Int] /\ n \in Nat /\ n =< MaxVmas
  OBVIOUS
<1>2. PICK f : Trunk(starts, n, f) /\ t = f[n]
  BY <1>1, TreeOfIsTrunk
<1> DEFINE Good(k) == \E pos : /\ Tree!Firm(f[k], pos, {}, NULL, "left")
                               /\ Tree!KeysRise(f[k], pos, starts) /\ Tree!InTree(f[k]) = 1 .. k
           S == {k \in Nat : k =< n => Good(k)}
<1>3. 0 \in S
  <2>1. f[0] = Tree!EmptyTree
    BY <1>1, <1>2 DEF Trunk
  <2>2. PICK pos : Tree!Firm(Tree!EmptyTree, pos, {}, NULL, "left")
    BY Tree!EmptyFirm
  <2>3. Tree!InTree(Tree!EmptyTree) = {} /\ 1 .. 0 = {}
    BY Tree!EmptyFirm
  <2>4. Tree!KeysRise(Tree!EmptyTree, pos, starts)
    BY <2>3 DEF Tree!KeysRise
  <2> QED BY <2>1, <2>2, <2>3, <2>4
<1>4. ASSUME NEW k \in Nat, k \in S PROVE k + 1 \in S
  <2> SUFFICES ASSUME k + 1 =< n PROVE Good(k + 1)
    BY <1>4
  <2>1. /\ k =< n /\ k + 1 \in 0 .. n /\ k + 1 # 0 /\ (k + 1) - 1 = k
        /\ k + 1 \in 1 .. MaxVmas /\ k + 1 \notin 1 .. k /\ (1 .. k) \cup {k + 1} = 1 .. k + 1
    BY <1>1
  <2>2. f[k + 1] = Grown(f[k], starts, k + 1)
    BY <1>2, <2>1 DEF Trunk
  <2>3. PICK pos : /\ Tree!Firm(f[k], pos, {}, NULL, "left")
                   /\ Tree!KeysRise(f[k], pos, starts) /\ Tree!InTree(f[k]) = 1 .. k
    BY <1>4, <2>1
  <2>4. \E pos2 : /\ Tree!Firm(f[k + 1], pos2, {}, NULL, "left")
                   /\ Tree!KeysRise(f[k + 1], pos2, starts)
                   /\ Tree!InTree(f[k + 1]) = Tree!InTree(f[k]) \cup {k + 1}
    <3>1. PICK x, y, m : x = f[k] /\ y = f[k + 1] /\ m = k + 1
      OBVIOUS
    <3>2. m \in 1 .. MaxVmas /\ m \notin Tree!InTree(x) /\ y = Grown(x, starts, m)
      BY <2>1, <2>2, <2>3, <3>1
    <3>3. Tree!Firm(x, pos, {}, NULL, "left") /\ Tree!KeysRise(x, pos, starts)
      BY <2>3, <3>1
    <3>4. \E pos2 : /\ Tree!Firm(y, pos2, {}, NULL, "left") /\ Tree!KeysRise(y, pos2, starts)
                    /\ Tree!InTree(y) = Tree!InTree(x) \cup {m}
      BY <1>1, <3>2, <3>3, GrowsOn
    <3> QED BY <3>1, <3>4
  <2> QED BY <2>1, <2>3, <2>4
<1>5. Good(n)
  <2>1. Nat \subseteq S
    <3> HIDE DEF S
    <3> QED BY <1>3, <1>4, Tree!CountingUp
  <2> QED BY <1>1, <2>1
<1> QED BY <1>2, <1>5

-----------------------------------------------------------------------------
(* The lines of a maps file, in the order of their addresses.              *)
Sorted(f) ==
  /\ f \in Seq(Lines)
  /\ \A i \in DOMAIN f : f[i].start < f[i].end
  /\ \A i, j \in DOMAIN f : i < j => f[i].end =< f[j].start

Covers(v, addr) == v.start =< addr /\ addr < v.end

(* The kernel writes such files, and an empty one is one, too.             *)
LEMMA LayoutsSorted ==
  /\ \A f \in Layouts : Sorted(f)
  /\ Sorted(<<>>)
BY LayoutsAssumption DEF Sorted

(* What is known of one of them.                                           *)
LEMMA SortedLines ==
  ASSUME NEW f, Sorted(f)
  PROVE  /\ Len(f) \in Nat /\ DOMAIN f = 1 .. Len(f)
         /\ \A i \in 1 .. Len(f) : /\ f[i] \in Lines /\ f[i] # NULL
                                   /\ f[i].start \in Int /\ f[i].end \in Int
                                   /\ f[i].start < f[i].end
         /\ \A i, j \in 1 .. Len(f) : i < j => f[i].end =< f[j].start
<1>1. Len(f) \in Nat /\ DOMAIN f = 1 .. Len(f) /\ \A i \in 1 .. Len(f) : f[i] \in Lines
  BY DEF Sorted
<1>2. \A l \in Lines : l # NULL /\ l.start \in Int /\ l.end \in Int
  BY LayoutsAssumption DEF Lines
<1> QED BY <1>1, <1>2 DEF Sorted

(* Two of them have no address in common.                                  *)
LEMMA OneCovers ==
  ASSUME NEW f, Sorted(f), NEW addr \in Int, NEW i \in 1 .. Len(f), NEW j \in 1 .. Len(f),
         Covers(f[i], addr), Covers(f[j], addr)
  PROVE  i = j
<1>1. Len(f) \in Nat /\ f[i].start \in Int /\ f[i].end \in Int
      /\ f[j].start \in Int /\ f[j].end \in Int
  BY SortedLines
<1>2. (i < j => f[i].end =< f[j].start) /\ (j < i => f[j].end =< f[i].start)
  BY SortedLines
<1> QED BY <1>1, <1>2 DEF Covers

(* FirstCovering answers the first of a sequence that holds the address.   *)
LEMMA FirstOfAll ==
  ASSUME NEW s, Len(s) \in Nat, NEW addr
  PROVE  \/ /\ FirstCovering(s, addr) = NULL /\ Search!FirstCovering(s, addr) = NULL
            /\ \A i \in 1 .. Len(s) : ~ Covers(s[i], addr)
         \/ \E i \in 1 .. Len(s) :
              /\ Covers(s[i], addr) /\ \A j \in 1 .. Len(s) : Covers(s[j], addr) => i =< j
              /\ FirstCovering(s, addr) = s[i] /\ Search!FirstCovering(s, addr) = s[i]
<1> DEFINE I == {i \in 1 .. Len(s) : s[i].start =< addr /\ addr < s[i].end}
           at == IF I # {} THEN Min(I) ELSE 0
           there == IF I # {} THEN Search!Min(I) ELSE 0
<1>1. FirstCovering(s, addr) = IF at = 0 THEN NULL ELSE s[at]
  BY DEF FirstCovering, SelectInSeq
<1>2. Search!FirstCovering(s, addr) = IF there = 0 THEN NULL ELSE s[there]
  BY DEF Search!FirstCovering, Search!SelectInSeq
<1>3. CASE I = {}
  <2>1. \A i \in 1 .. Len(s) : ~ Covers(s[i], addr)
    BY <1>3 DEF Covers
  <2> HIDE DEF I
  <2> QED BY <1>1, <1>2, <1>3, <2>1
<1>4. CASE I # {}
  <2>1. I \in SUBSET Nat /\ I \subseteq 1 .. Len(s)
    OBVIOUS
  <2>2. PICK i \in I : \A j \in I : i =< j
    <3> HIDE DEF I
    <3> QED BY <1>4, <2>1, Bounds, Tree!LeastNumber
  <2>3. Min(I) = i /\ Search!Min(I) = i
    <3> HIDE DEF I
    <3>1. \A x \in I : (\A y \in I : x =< y) => x = i
      BY <2>1, <2>2
    <3> QED BY <2>2, <3>1 DEF Min, Search!Min
  <2>4. i \in 1 .. Len(s) /\ i # 0
    BY <2>1, <2>2
  <2>5. Covers(s[i], addr) /\ \A j \in 1 .. Len(s) : Covers(s[j], addr) => i =< j
    BY <2>2 DEF Covers
  <2> HIDE DEF I
  <2> QED BY <1>1, <1>2, <1>4, <2>3, <2>4, <2>5
<1> QED BY <1>3, <1>4

(* Of a maps file it is the only one.                                      *)
LEMMA LineFound ==
  ASSUME NEW f, Sorted(f), NEW addr \in Int
  PROVE  \/ /\ FirstCovering(f, addr) = NULL
            /\ \A i \in 1 .. Len(f) : ~ Covers(f[i], addr)
         \/ \E i \in 1 .. Len(f) :
              /\ Covers(f[i], addr) /\ \A j \in 1 .. Len(f) : Covers(f[j], addr) => j = i
              /\ FirstCovering(f, addr) = f[i] /\ f[i] # NULL
<1>1. Len(f) \in Nat /\ \A i \in 1 .. Len(f) : f[i] # NULL
  BY SortedLines
<1>2. CASE FirstCovering(f, addr) = NULL /\ \A i \in 1 .. Len(f) : ~ Covers(f[i], addr)
  BY <1>2
<1>3. ASSUME NEW i \in 1 .. Len(f), Covers(f[i], addr), FirstCovering(f, addr) = f[i]
      PROVE  \E k \in 1 .. Len(f) :
               /\ Covers(f[k], addr) /\ \A j \in 1 .. Len(f) : Covers(f[j], addr) => j = k
               /\ FirstCovering(f, addr) = f[k] /\ f[k] # NULL
  <2>1. \A j \in 1 .. Len(f) : Covers(f[j], addr) => j = i
    BY <1>3, OneCovers
  <2> QED BY <1>1, <1>3, <2>1
<1> QED BY <1>1, <1>2, <1>3, FirstOfAll

(* What the answer to a question in a file must be.                        *)
Right(file, addr, found) ==
  LET line == FirstCovering(file, addr)
  IN IF line = NULL THEN found = NULL
     ELSE found # NULL /\ found.start = line.start /\ found.end = line.end

(* The answer of Vma-search may be another: nothing where the line has no  *)
(* path, anything from the first wide range on.                            *)
RightOrPassed(file, addr, found) ==
  LET line == FirstCovering(file, addr)
  IN \/ Right(file, addr, found)
     \/ found = NULL /\ ~ line.named
     \/ \E i \in DOMAIN file : file[i].wide /\ file[i].start =< addr

(* What has two numbers for its addresses is not the null pointer.         *)
LEMMA VmasAreThere ==
  ASSUME NEW start \in Int, NEW end \in Int
  PROVE  [start |-> start, end |-> end] # NULL
BY LayoutsAssumption DEF Vmas

-----------------------------------------------------------------------------
(* A file of short lines is read in as many pieces.                        *)
LEMMA FlattenedOnes ==
  ASSUME NEW n \in Nat, NEW p, NEW seqs, seqs = [i \in 1 .. n |-> <<p[i]>>]
  PROVE  ELF!FlattenSeq(seqs) = [i \in 1 .. n |-> p[i]]
<1>1. Len(seqs) = n
  OBVIOUS
<1>2. CASE n = 0
  <2>1. ELF!FlattenSeq(seqs) = seqs
    BY <1>1, <1>2 DEF ELF!FlattenSeq
  <2>2. seqs = [i \in 1 .. n |-> p[i]]
    BY <1>2
  <2> QED BY <2>1, <2>2
<1>3. CASE n # 0
  <2> DEFINE Filled(f) == [i \in 1 .. n |-> IF i = 1 THEN seqs[i] ELSE f[i - 1] \o seqs[i]]
             upto(i) == [j \in 1 .. i |-> p[j]]
             e == [i \in 1 .. n |-> upto(i)]
  <2>1. ASSUME NEW i \in Nat PROVE upto(i + 1) = upto(i) \o <<p[i + 1]>>
    <3> DEFINE T == {p[j] : j \in 1 .. i + 1}
               c == upto(i) \o <<p[i + 1]>>
    <3>1. Len(upto(i)) = i /\ upto(i) \in Seq(T)
      OBVIOUS
    <3>2. <<p[i + 1]>> \in Seq(T) /\ Len(<<p[i + 1]>>) = 1 /\ <<p[i + 1]>>[1] = p[i + 1]
      OBVIOUS
    <3>3. /\ c \in Seq(T) /\ Len(c) = i + 1
          /\ \A j \in 1 .. i + 1 : c[j] = IF j =< i THEN upto(i)[j] ELSE <<p[i + 1]>>[j - i]
      <4> HIDE DEF T, upto
      <4> QED BY <3>1, <3>2, ConcatProperties
    <3>4. ASSUME NEW j \in 1 .. i + 1 PROVE c[j] = p[j]
      <4>1. CASE j =< i
        <5>1. upto(i)[j] = p[j]
          BY <4>1
        <5> HIDE DEF c, upto
        <5> QED BY <3>3, <4>1, <5>1
      <4>2. CASE ~ (j =< i)
        <5>1. j = i + 1 /\ j - i = 1
          BY <4>2
        <5> HIDE DEF c, upto
        <5> QED BY <3>2, <3>3, <4>2, <5>1
      <4> QED BY <4>1, <4>2
    <3>5. c = [j \in 1 .. i + 1 |-> c[j]]
      <4> HIDE DEF c, T
      <4> QED BY <3>3
    <3> HIDE DEF c
    <3> QED BY <3>4, <3>5
  <2>2. upto(1) = <<p[1]>>
    OBVIOUS
  <2>3. e = Filled(e)
    <3>1. ASSUME NEW i \in 1 .. n PROVE e[i] = Filled(e)[i]
      <4>1. CASE i = 1
        <5> HIDE DEF upto
        <5> QED BY <2>2, <4>1
      <4>2. CASE i # 1
        <5>1. i - 1 \in 1 .. n /\ i - 1 \in Nat /\ (i - 1) + 1 = i
          BY <4>2
        <5>2. upto(i) = upto(i - 1) \o <<p[i]>>
          <6> HIDE DEF upto
          <6> QED BY <2>1, <5>1
        <5> HIDE DEF upto
        <5> QED BY <4>2, <5>1, <5>2
      <4> QED BY <4>1, <4>2
    <3> HIDE DEF upto
    <3> QED BY <3>1
  <2>4. PICK g : g = Filled(g) /\ g = CHOOSE f : f = Filled(f)
    <3> HIDE DEF Filled, e
    <3> QED BY <2>3
  <2>5. ELF!FlattenSeq(seqs) = g[n]
    <3> HIDE DEF e, upto
    <3> QED BY <1>1, <1>3, <2>4 DEF ELF!FlattenSeq
  <2> DEFINE S == {i \in Nat : i + 1 =< n => g[i + 1] = upto(i + 1)}
  <2>6. 0 \in S
    <3>1. g[1] = <<p[1]>>
      BY <1>3, <2>4
    <3> QED BY <2>2, <3>1
  <2>7. ASSUME NEW i \in Nat, i \in S PROVE i + 1 \in S
    <3> SUFFICES ASSUME i + 2 =< n PROVE g[i + 2] = upto(i + 2)
      OBVIOUS
    <3>1. g[i + 1] = upto(i + 1)
      BY <2>7
    <3>2. g[i + 2] = g[i + 1] \o <<p[i + 2]>>
      <4>1. i + 2 \in 1 .. n /\ i + 2 # 1 /\ (i + 2) - 1 = i + 1 /\ seqs[i + 2] = <<p[i + 2]>>
        OBVIOUS
      <4> HIDE DEF upto, S
      <4> QED BY <2>4, <4>1
    <3>3. upto(i + 2) = upto(i + 1) \o <<p[i + 2]>>
      <4>1. i + 1 \in Nat /\ (i + 1) + 1 = i + 2
        OBVIOUS
      <4> HIDE DEF upto, S
      <4> QED BY <2>1, <4>1
    <3> QED BY <3>1, <3>2, <3>3
  <2>8. g[n] = upto(n)
    <3>1. Nat \subseteq S
      <4> HIDE DEF S
      <4> QED BY <2>6, <2>7, SetInduction
    <3>2. n - 1 \in Nat /\ (n - 1) + 1 = n
      BY <1>3
    <3>3. n - 1 \in S
      BY <3>1, <3>2
    <3> HIDE DEF upto
    <3> QED BY <3>2, <3>3
  <2> QED BY <2>5, <2>8
<1> QED BY <1>2, <1>3

(* Each line of such a file is one piece, as it is.                        *)
LEMMA ShortPieces ==
  ASSUME NEW f, Sorted(f), AllShort(f), NEW g
  PROVE  ELF!Pieces(f, g) = [i \in 1 .. Len(f) |-> [start |-> f[i].start, end |-> f[i].end]]
<1> DEFINE p == [i \in 1 .. Len(f) |-> [start |-> f[i].start, end |-> f[i].end]]
           seqs == [i \in DOMAIN f |->
                      IF f[i].long THEN <<[start |-> f[i].start, end |-> f[i].end], g>>
                                   ELSE <<[start |-> f[i].start, end |-> f[i].end]>>]
<1>1. ELF!Pieces(f, g) = ELF!FlattenSeq(seqs)
  BY DEF ELF!Pieces
<1>2. Len(f) \in Nat /\ DOMAIN f = 1 .. Len(f)
  BY SortedLines
<1>3. seqs = [i \in 1 .. Len(f) |-> <<p[i]>>]
  <2>1. \A i \in 1 .. Len(f) : ~ f[i].long
    BY <1>2 DEF AllShort
  <2> QED BY <1>2, <2>1
<1> HIDE DEF p, seqs
<1>4. ELF!FlattenSeq(seqs) = [i \in 1 .. Len(f) |-> p[i]]
  BY <1>2, <1>3, FlattenedOnes
<1> QED BY <1>1, <1>4 DEF p

(* What the process of such a file keeps: its lines and the tree of them.  *)
Built(f, proc) ==
  /\ proc.vmas = [i \in 1 .. Len(f) |-> [start |-> f[i].start, end |-> f[i].end]]
  /\ proc.vma_tree = ELF!TreeOf(proc.vmas)
  /\ Len(f) =< MaxVmas

(* That is what parse_process_maps makes of the file.                      *)
LEMMA ParsedIsBuilt ==
  ASSUME NEW f \in Layouts, AllShort(f), NEW g \in Garbage
  PROVE  Built(f, ELF!parse_process_maps(f, g))
<1>1. Sorted(f)
  BY LayoutsSorted
<1>2. Len(f) \in Nat
  BY <1>1, SortedLines
<1> DEFINE pieces == [i \in 1 .. Len(f) |-> [start |-> f[i].start, end |-> f[i].end]]
<1>3. ELF!Pieces(f, g) = pieces
  BY <1>1, ShortPieces
<1>4. Len(f) =< MaxVmas
  <2>1. Len(pieces) = Len(f)
    BY <1>2
  <2>2. Len(ELF!Pieces(f, g)) =< MaxVmas
    BY MapProgramsAssumption
  <2> HIDE DEF pieces
  <2> QED BY <1>3, <2>1, <2>2
<1> HIDE DEF pieces
<1>5. ELF!parse_process_maps(f, g) = [vmas |-> pieces, vma_tree |-> ELF!TreeOf(pieces)]
  BY <1>3 DEF ELF!parse_process_maps
<1> QED BY <1>4, <1>5 DEF Built, pieces

(* The search in the tree answers the line that holds the address: the     *)
(* nodes follow one another as the lines do, none of which overlap.        *)
LEMMA TreeSearched ==
  ASSUME NEW f, Sorted(f), NEW proc, Built(f, proc), NEW addr \in Int
  PROVE  Right(f, addr, ELF!find_vma_from_process(proc, addr))
<1> DEFINE n == Len(f)
           vmas == proc.vmas
           t == proc.vma_tree
           starts == [i \in 1 .. MaxVmas |-> IF i \in DOMAIN vmas THEN vmas[i].start ELSE 0]
           ends == [i \in 1 .. MaxVmas |-> IF i \in DOMAIN vmas THEN vmas[i].end ELSE 0]
<1>0. PICK found : found = ELF!find_vma_from_process(proc, addr)
  OBVIOUS
<1>1. /\ n \in Nat /\ n =< MaxVmas /\ MaxVmas \in Nat /\ NULL \notin 1 .. MaxVmas
      /\ DOMAIN vmas = 1 .. n /\ Len(vmas) = n
      /\ \A i \in 1 .. n : /\ vmas[i] = [start |-> f[i].start, end |-> f[i].end]
                           /\ vmas[i].start = f[i].start /\ vmas[i].end = f[i].end
                           /\ f[i].start \in Int /\ f[i].end \in Int
                           /\ f[i].start < f[i].end
      /\ \A i, j \in 1 .. n : i < j => f[i].end =< f[j].start
  BY Bounds, SortedLines DEF Built
<1>2. /\ starts \in [1 .. MaxVmas -> Int] /\ ends \in [1 .. MaxVmas -> Int]
      /\ \A i \in 1 .. n : starts[i] = f[i].start /\ ends[i] = f[i].end
  <2> HIDE DEF vmas, n
  <2> QED BY <1>1
<1>3. PICK pos : /\ Tree!Firm(t, pos, {}, NULL, "left") /\ Tree!KeysRise(t, pos, starts)
                 /\ Tree!InTree(t) = 1 .. n
  <2>1. t = ELF!TreeOf(vmas)
    BY DEF Built
  <2>2. Len(vmas) \in 0 .. MaxVmas /\ DOMAIN vmas = 1 .. Len(vmas)
        /\ \A i \in DOMAIN vmas : vmas[i].start \in Int
    <3> HIDE DEF vmas, n
    <3> QED BY <1>1
  <2>3. PICK st : st = starts
    OBVIOUS
  <2> HIDE DEF vmas, t, n
  <2>4. \E pos : /\ Tree!Firm(t, pos, {}, NULL, "left") /\ Tree!KeysRise(t, pos, st)
                 /\ Tree!InTree(t) = DOMAIN vmas
    BY <1>1, <2>1, <2>2, <2>3, TreeIsBuilt
  <2> HIDE DEF starts
  <2> QED BY <1>1, <2>3, <2>4
<1>4. Tree!Shape(t, pos)
  BY <1>3 DEF Tree!Firm
<1>5. Tree!Apart(t, pos, starts, ends)
  <2>1. ASSUME NEW a \in 1 .. n, NEW b \in 1 .. n, pos[a] < pos[b] PROVE ends[a] =< starts[b]
    <3>1. starts[a] =< starts[b] /\ a # b
      <4>1. pos \in [1 .. MaxVmas -> Int] /\ a \in 1 .. MaxVmas
        <5> HIDE DEF n, t
        <5> QED BY <1>1, <1>4 DEF Tree!Shape
      <4> HIDE DEF n, t, starts
      <4> QED BY <1>3, <2>1, <4>1 DEF Tree!KeysRise
    <3>2. a < b
      <4> SUFFICES ASSUME b < a PROVE FALSE
        <5> HIDE DEF n
        <5> QED BY <1>1, <3>1
      <4>1. f[b].end =< f[a].start /\ f[b].start < f[b].end
            /\ f[b].end \in Int /\ f[b].start \in Int /\ f[a].start \in Int
        BY <1>1
      <4>2. starts[a] = f[a].start /\ starts[b] = f[b].start
        BY <1>2
      <4> HIDE DEF n, starts, ends
      <4> QED BY <3>1, <4>1, <4>2
    <3> HIDE DEF n, starts, ends
    <3> QED BY <1>1, <1>2, <3>2
  <2>2. \A a \in 1 .. n : starts[a] < ends[a]
    <3> HIDE DEF n, starts, ends
    <3> QED BY <1>1, <1>2
  <2> HIDE DEF n, t, starts, ends
  <2> QED BY <1>3, <2>1, <2>2 DEF Tree!Apart
<1>6. PICK h : Tree!Search(t, starts, ends, addr, vmas, h) /\ found = h[t.root]
  <2> DEFINE There(s) == [k \in DOMAIN vmas \cup {NULL} |->
                            IF k = NULL THEN NULL
                            ELSE IF addr < vmas[k].start THEN s[t.kid[k]["left"]]
                            ELSE IF addr >= vmas[k].end THEN s[t.kid[k]["right"]]
                            ELSE vmas[k]]
  <2>1. ASSUME NEW s, Tree!Search(t, starts, ends, addr, vmas, s) PROVE s = There(s)
    <3> HIDE DEF n, vmas, t, starts, ends
    <3>1. s = [k \in 1 .. n \cup {NULL} |->
                 IF k = NULL THEN NULL
                 ELSE IF addr < starts[k] THEN s[t.kid[k]["left"]]
                 ELSE IF addr >= ends[k] THEN s[t.kid[k]["right"]] ELSE vmas[k]]
      BY <1>3, <2>1 DEF Tree!Search
    <3>2. \A k \in 1 .. n : starts[k] = vmas[k].start /\ ends[k] = vmas[k].end
      BY <1>1, <1>2
    <3> QED BY <1>1, <3>1, <3>2
  <2>2. ASSUME NEW s, s = There(s) PROVE Tree!Search(t, starts, ends, addr, vmas, s)
    <3> HIDE DEF n, vmas, t, starts, ends
    <3>1. s = [k \in 1 .. n \cup {NULL} |->
                 IF k = NULL THEN NULL
                 ELSE IF addr < starts[k] THEN s[t.kid[k]["left"]]
                 ELSE IF addr >= ends[k] THEN s[t.kid[k]["right"]] ELSE vmas[k]]
      <4>1. \A k \in 1 .. n : starts[k] = vmas[k].start /\ ends[k] = vmas[k].end
        BY <1>1, <1>2
      <4> QED BY <1>1, <2>2, <4>1
    <3> QED BY <1>3, <3>1 DEF Tree!Search
  <2>3. \E s : Tree!Search(t, starts, ends, addr, vmas, s)
    <3> HIDE DEF n, vmas, t, starts, ends
    <3> QED BY <1>1, <1>4, Tree!SearchEnds
  <2>4. PICK h : h = There(h) /\ h = CHOOSE s : s = There(s)
    <3> HIDE DEF There, vmas, t, starts, ends
    <3> QED BY <2>1, <2>3
  <2>5. found = h[t.root]
    BY <1>0, <2>4 DEF ELF!find_vma_from_process
  <2> HIDE DEF There, n, vmas, t, starts, ends
  <2> QED BY <2>2, <2>4, <2>5
<1>7. /\ \A m \in 1 .. n : starts[m] =< addr /\ addr < ends[m] => found = vmas[m]
      /\ (\A m \in 1 .. n : ~ (starts[m] =< addr /\ addr < ends[m])) => found = NULL
  <2>1. Tree!IsFiniteSet(Tree!InTree(t))
    <3> HIDE DEF n
    <3> QED BY <1>1, <1>3, FS_Interval, SameCardinalities
  <2> HIDE DEF n, vmas, t, starts, ends
  <2>2. /\ \A m \in Tree!InTree(t) : Tree!Holds(starts, ends, addr, m) => h[t.root] = vmas[m]
        /\ (\A m \in Tree!InTree(t) : ~ Tree!Holds(starts, ends, addr, m)) => h[t.root] = NULL
    <3>1. starts \in [1 .. MaxVmas -> Int] /\ ends \in [1 .. MaxVmas -> Int]
      BY <1>2
    <3>2. Tree!Search(t, starts, ends, addr, vmas, h)
      BY <1>6
    <3> QED BY <1>4, <1>5, <2>1, <3>1, <3>2, Bounds, Tree!SearchFinds
  <2> QED BY <1>3, <1>6, <2>2 DEF Tree!Holds
<1>8. /\ \A m \in 1 .. n : Covers(f[m], addr) => found = vmas[m]
      /\ (\A m \in 1 .. n : ~ Covers(f[m], addr)) => found = NULL
  <2> HIDE DEF n, vmas, t, starts, ends
  <2> QED BY <1>2, <1>7 DEF Covers
<1>9. ASSUME FirstCovering(f, addr) = NULL, \A i \in 1 .. n : ~ Covers(f[i], addr)
      PROVE  Right(f, addr, found)
  <2> HIDE DEF n, vmas
  <2> QED BY <1>8, <1>9 DEF Right
<1>10. ASSUME NEW i \in 1 .. n, Covers(f[i], addr), FirstCovering(f, addr) = f[i], f[i] # NULL
       PROVE  Right(f, addr, found)
  <2>1. found = vmas[i]
    <3> HIDE DEF n, vmas
    <3> QED BY <1>8, <1>10
  <2>2. /\ vmas[i] # NULL
        /\ vmas[i].start = f[i].start /\ vmas[i].end = f[i].end
    <3> HIDE DEF n, vmas
    <3> QED BY <1>1, VmasAreThere
  <2> HIDE DEF n, vmas
  <2> QED BY <1>10, <2>1, <2>2 DEF Right
<1> QED BY <1>0, <1>9, <1>10, LineFound

(* An answer with what the one line says that holds the address.           *)
LEMMA AnswerIs ==
  ASSUME NEW f, Sorted(f), NEW addr \in Int, NEW found,
         (\A i \in 1 .. Len(f) : ~ Covers(f[i], addr)) => found = NULL,
         \A i \in 1 .. Len(f) : Covers(f[i], addr) =>
           found # NULL /\ found.start = f[i].start /\ found.end = f[i].end
  PROVE  Right(f, addr, found)
BY LineFound DEF Right

(* Max answers the greatest of a set of positions.                         *)
LEMMA GreatestNumber ==
  ASSUME NEW n \in Nat, NEW I, I \subseteq 1 .. n, I # {}
  PROVE  /\ Map!Max(I) \in I /\ \A i \in I : i =< Map!Max(I)
         /\ Pid!Max(I) \in I /\ \A i \in I : i =< Pid!Max(I)
<1> DEFINE J == {n - i : i \in I}
<1>1. J \in SUBSET Nat /\ J # {}
  <2>1. ASSUME NEW i \in I PROVE n - i \in Nat
    OBVIOUS
  <2>2. PICK i : i \in I
    OBVIOUS
  <2>3. n - i \in J
    BY <2>2
  <2> QED BY <2>1, <2>3
<1>2. PICK j \in J : \A k \in J : j =< k
  <2> HIDE DEF J
  <2> QED BY <1>1, Bounds, Tree!LeastNumber
<1>3. PICK i \in I : j = n - i
  BY <1>2
<1>4. ASSUME NEW k \in I PROVE k =< i
  <2>1. n - i =< n - k
    BY <1>2, <1>3
  <2> QED BY <2>1
<1> QED BY <1>4 DEF Map!Max, Pid!Max

(* vma.cpp: the map from the starts.                                       *)
LEMMA MapLoaded ==
  ASSUME NEW f, Sorted(f), NEW i \in 1 .. Len(f)
  PROVE  /\ f[i].start \in DOMAIN Map!load_process_vmas(f)
         /\ Map!load_process_vmas(f)[f[i].start] = Map!parse_line(f[i])
<1> DEFINE I == {k \in 1 .. Len(f) : f[k].start = f[i].start}
           last == IF I # {} THEN Map!Max(I) ELSE 0
<1>1. /\ Len(f) \in Nat /\ DOMAIN f = 1 .. Len(f)
      /\ \A k \in 1 .. Len(f) : f[k].start \in Int /\ f[k].end \in Int /\ f[k].start < f[k].end
      /\ \A j, k \in 1 .. Len(f) : j < k => f[j].end =< f[k].start
  BY SortedLines
<1>2. I = {i}
  <2>1. ASSUME NEW k \in I PROVE k = i
    <3>1. ~ (k < i) /\ ~ (i < k) /\ k \in Int /\ i \in Int
      BY <1>1
    <3> QED BY <3>1
  <2> QED BY <2>1
<1>3. last = i
  <2> HIDE DEF I
  <2>1. Map!Max(I) \in I
    BY <1>1, <1>2 DEF Map!Max
  <2> QED BY <1>2, <2>1
<1>4. DOMAIN Map!load_process_vmas(f) = {f[k].start : k \in DOMAIN f}
  BY DEF Map!load_process_vmas
<1>5. f[i].start \in {f[k].start : k \in DOMAIN f}
  BY <1>1
<1>6. Map!load_process_vmas(f)[f[i].start] = Map!parse_line(f[last])
  BY <1>5 DEF Map!load_process_vmas, Map!SelectLastInSeq
<1> HIDE DEF last
<1> QED BY <1>3, <1>4, <1>5, <1>6

(* What parse_line keeps of a line.                                        *)
LEMMA ParsedLine ==
  ASSUME NEW f, Sorted(f), NEW i \in 1 .. Len(f), NEW v,
         v \in {Map!parse_line(f[i]), Pid!parse_line(f[i])}
  PROVE  v.start = f[i].start /\ v.end = f[i].end /\ v # NULL
<1>1. f[i].start \in Int /\ f[i].end \in Int
  BY SortedLines
<1>2. v = [start |-> f[i].start, end |-> f[i].end]
  BY DEF Map!parse_line, Pid!parse_line
<1> QED BY <1>1, <1>2, VmasAreThere

(* upper_bound and a step back come to the last mapping that starts at or  *)
(* before the address: the only one that can hold it.                      *)
LEMMA MapSearched ==
  ASSUME NEW f, Sorted(f), NEW proc, proc.vmas = Map!load_process_vmas(f), NEW addr \in Int
  PROVE  Right(f, addr, Map!find_vma(proc, addr))
<1> DEFINE n == Len(f)
           before == {s \in DOMAIN proc.vmas : s =< addr}
           Nearest(s) == \A t \in before : t =< s
           it == proc.vmas[CHOOSE s \in before : Nearest(s)]
           I == {i \in 1 .. n : f[i].start =< addr}
<1>0. PICK found : found = Map!find_vma(proc, addr)
  OBVIOUS
<1>1. /\ n \in Nat /\ DOMAIN f = 1 .. n
      /\ \A i \in 1 .. n : f[i].start \in Int /\ f[i].end \in Int /\ f[i].start < f[i].end
      /\ \A i, j \in 1 .. n : i < j => f[i].end =< f[j].start
  BY SortedLines
<1>2. DOMAIN proc.vmas = {f[i].start : i \in 1 .. n}
  BY <1>1 DEF Map!load_process_vmas
<1>3. found = IF before # {} /\ it.start =< addr /\ addr < it.end THEN it ELSE NULL
  BY <1>0 DEF Map!find_vma
<1>4. CASE I = {}
  <2>1. before = {}
    <3> HIDE DEF n
    <3> QED BY <1>2, <1>4
  <2>2. \A i \in 1 .. n : ~ Covers(f[i], addr)
    BY <1>4 DEF Covers
  <2>3. found = NULL
    <3> HIDE DEF before, it
    <3> QED BY <1>3, <2>1
  <2> HIDE DEF n, I, before, it
  <2> QED BY <1>0, <2>2, <2>3, AnswerIs DEF n
<1>5. CASE I # {}
  <2>1. PICK i \in I : \A j \in I : j =< i
    <3>1. I \subseteq 1 .. n
      OBVIOUS
    <3> HIDE DEF I, n
    <3> QED BY <1>1, <1>5, <3>1, GreatestNumber
  <2>2. i \in 1 .. n /\ f[i].start =< addr
    BY <2>1
  <2>3. ASSUME NEW j \in 1 .. n, f[j].start =< addr
        PROVE  j =< i /\ (j # i => f[j].end =< f[i].start /\ f[j].start < f[i].start)
    <3>1. j =< i
      BY <2>1, <2>3
    <3>2. j # i => j < i
      BY <1>1, <2>2, <3>1
    <3>3. j < i => f[j].end =< f[i].start /\ f[j].start < f[j].end /\ f[j].end \in Int
                   /\ f[j].start \in Int /\ f[i].start \in Int
      <4> HIDE DEF n, I
      <4> QED BY <1>1, <2>2
    <3> HIDE DEF n, I
    <3> QED BY <3>1, <3>2, <3>3
  <2>4. f[i].start \in before /\ Nearest(f[i].start)
    <3>1. f[i].start \in before
      <4> HIDE DEF n, I
      <4> QED BY <1>2, <2>2
    <3>2. ASSUME NEW s \in before PROVE s =< f[i].start
      <4>1. PICK j \in 1 .. n : s = f[j].start /\ f[j].start =< addr
        <5> HIDE DEF n, I
        <5> QED BY <1>2
      <4>2. s \in Int /\ f[i].start \in Int
        <5> HIDE DEF n, I
        <5> QED BY <1>1, <2>2, <4>1
      <4> HIDE DEF n, I, before
      <4> QED BY <2>3, <4>1, <4>2
    <3> QED BY <3>1, <3>2
  <2>5. it = proc.vmas[f[i].start]
    <3>1. ASSUME NEW s \in before, Nearest(s) PROVE s = f[i].start
      <4>1. s =< f[i].start /\ f[i].start =< s
        <5> HIDE DEF before
        <5> QED BY <2>4, <3>1
      <4>2. s \in Int /\ f[i].start \in Int
        <5> HIDE DEF n, I
        <5> QED BY <1>1, <1>2, <2>2
      <4> HIDE DEF n, I, before
      <4> QED BY <4>1, <4>2
    <3>2. PICK s : s = CHOOSE x \in before : Nearest(x)
      OBVIOUS
    <3>3. s \in before /\ Nearest(s)
      <4> HIDE DEF before, Nearest
      <4> QED BY <2>4, <3>2
    <3>4. s = f[i].start
      <4> HIDE DEF before, Nearest
      <4> QED BY <3>1, <3>3
    <3> QED BY <3>2, <3>4
  <2>6. it = Map!parse_line(f[i])
    <3> HIDE DEF it, I
    <3> QED BY <2>2, <2>5, MapLoaded
  <2>7. it.start = f[i].start /\ it.end = f[i].end /\ it # NULL
    <3> HIDE DEF it, I
    <3> QED BY <2>2, <2>6, ParsedLine
  <2>8. before # {}
    BY <2>4
  <2>9. found = IF addr < f[i].end THEN it ELSE NULL
    <3> HIDE DEF it, before, I
    <3> QED BY <1>3, <2>2, <2>7, <2>8
  <2>10. \A j \in 1 .. n : Covers(f[j], addr) => j = i
    <3> SUFFICES ASSUME NEW j \in 1 .. n, Covers(f[j], addr), j # i PROVE FALSE
      OBVIOUS
    <3>1. f[j].end =< f[i].start /\ f[i].start =< addr /\ addr < f[j].end
      BY <2>2, <2>3 DEF Covers
    <3>2. f[j].end \in Int /\ f[i].start \in Int
      <4> HIDE DEF n, I
      <4> QED BY <1>1, <2>2
    <3> HIDE DEF n, I
    <3> QED BY <3>1, <3>2
  <2>11. Covers(f[i], addr) <=> addr < f[i].end
    BY <2>2 DEF Covers
  <2> HIDE DEF it, before, I, Nearest
  <2>12. /\ (\A j \in 1 .. n : ~ Covers(f[j], addr)) => found = NULL
         /\ \A j \in 1 .. n : Covers(f[j], addr) =>
              found # NULL /\ found.start = f[j].start /\ found.end = f[j].end
    BY <2>2, <2>7, <2>9, <2>10, <2>11
  <2> QED BY <1>0, <2>12, AnswerIs
<1> QED BY <1>4, <1>5

(* What parse_maps_file leaves of a file. *)
AddressMaps(pid, f) ==
  LET vmas  == [i \in DOMAIN f |-> Pid!parse_line(f[i])]
      fresh == {a \in Addrs : Pid!Within(vmas, a) # 0}
  IN [processes_vma_maps |-> [p \in {pid} |-> f],
      addr_vma_map |-> [a \in fresh |-> vmas[Pid!Within(vmas, a)]]]

(* pid.cpp: the map from the addresses.                                    *)
LEMMA AddressesSearched ==
  ASSUME NEW f, Sorted(f), NEW pid, NEW map, map = AddressMaps(pid, f).addr_vma_map,
         NEW addr \in Addrs, NEW found, found = IF addr \in DOMAIN map THEN map[addr] ELSE NULL
  PROVE  Right(f, addr, found)
<1>1. PICK vmas : vmas = [i \in DOMAIN f |-> Pid!parse_line(f[i])]
  OBVIOUS
<1> DEFINE fresh == {a \in Addrs : Pid!Within(vmas, a) # 0}
<1>2. map = [a \in fresh |-> vmas[Pid!Within(vmas, a)]]
  BY <1>1 DEF AddressMaps
<1> DEFINE n == Len(f)
           I == {i \in 1 .. Len(vmas) : vmas[i].start =< addr /\ addr < vmas[i].end}
<1>3. n \in Nat /\ DOMAIN f = 1 .. n /\ addr \in Int
  BY SortedLines, LayoutsAssumption
<1>4. /\ Len(vmas) = n
      /\ \A i \in 1 .. n : /\ vmas[i].start = f[i].start /\ vmas[i].end = f[i].end
                           /\ vmas[i] # NULL
  <2>1. \A i \in 1 .. n : vmas[i] = Pid!parse_line(f[i])
    <3> HIDE DEF n
    <3> QED BY <1>1, <1>3
  <2>2. Len(vmas) = n
    <3> HIDE DEF n
    <3> QED BY <1>1, <1>3
  <2> QED BY <2>1, <2>2, ParsedLine
<1>5. Pid!Within(vmas, addr) = IF I # {} THEN Pid!Max(I) ELSE 0
  BY DEF Pid!Within, Pid!SelectLastInSeq
<1>6. \A i \in 1 .. n : i \in I <=> Covers(f[i], addr)
  <2> HIDE DEF n
  <2> QED BY <1>4 DEF Covers
<1>7. I \subseteq 1 .. n
  BY <1>4
<1>8. CASE I = {}
  <2>1. Pid!Within(vmas, addr) = 0
    <3> HIDE DEF I
    <3> QED BY <1>5, <1>8
  <2>2. found = NULL
    BY <1>2, <2>1
  <2>3. \A i \in 1 .. n : ~ Covers(f[i], addr)
    <3> HIDE DEF I, n
    <3> QED BY <1>6, <1>8
  <2> HIDE DEF I
  <2> QED BY <1>3, <2>2, <2>3, AnswerIs
<1>9. CASE I # {}
  <2>1. PICK w : w = Pid!Within(vmas, addr)
    OBVIOUS
  <2>2. w \in I
    <3> HIDE DEF I, n
    <3> QED BY <1>3, <1>5, <1>7, <1>9, <2>1, GreatestNumber
  <2>3. w \in 1 .. n /\ w # 0 /\ Covers(f[w], addr)
    <3> HIDE DEF I
    <3> QED BY <1>6, <1>7, <2>2
  <2>4. found = vmas[w]
    BY <1>2, <2>1, <2>3
  <2>5. \A i \in 1 .. n : Covers(f[i], addr) => i = w
    <3> HIDE DEF I
    <3> QED BY <1>3, <2>3, OneCovers
  <2>6. /\ (\A j \in 1 .. n : ~ Covers(f[j], addr)) => found = NULL
        /\ \A j \in 1 .. n : Covers(f[j], addr) =>
             found # NULL /\ found.start = f[j].start /\ found.end = f[j].end
    <3> HIDE DEF I, n
    <3> QED BY <1>4, <2>3, <2>4, <2>5
  <2> HIDE DEF I
  <2> QED BY <1>3, <2>6, AnswerIs
<1> QED BY <1>8, <1>9

(* A sequence of those of the first i lines of a file that have a name.    *)
NamedOf(s, f, i) ==
  /\ s \in Seq(Lines)
  /\ \A j \in 1 .. Len(s) : \E l \in 1 .. i : f[l].named /\ s[j] = f[l]
  /\ \A l \in 1 .. i : f[l].named => \E j \in 1 .. Len(s) : s[j] = f[l]

(* A line more.                                                            *)
LEMMA OneMoreNamed ==
  ASSUME NEW f, NEW i \in Nat, NEW s, NamedOf(s, f, i), f[i + 1] \in Lines
  PROVE  NamedOf(IF f[i + 1].named THEN Append(s, f[i + 1]) ELSE s, f, i + 1)
<1>1. 1 .. i + 1 = 1 .. i \cup {i + 1}
  OBVIOUS
<1>2. CASE ~ f[i + 1].named
  <2>1. NamedOf(s, f, i + 1)
    BY <1>1, <1>2 DEF NamedOf
  <2> QED BY <1>2, <2>1
<1>3. CASE f[i + 1].named
  <2>1. s \in Seq(Lines) /\ Len(s) \in Nat
    BY DEF NamedOf
  <2>2. PICK t : t = Append(s, f[i + 1])
    OBVIOUS
  <2>3. /\ t \in Seq(Lines) /\ Len(t) = Len(s) + 1 /\ t[Len(s) + 1] = f[i + 1]
        /\ \A j \in 1 .. Len(s) : t[j] = s[j]
    BY <2>1, <2>2, AppendProperties
  <2>4. 1 .. Len(t) = 1 .. Len(s) \cup {Len(s) + 1}
    BY <2>1, <2>3
  <2>5. \A j \in 1 .. Len(t) : \E l \in 1 .. i + 1 : f[l].named /\ t[j] = f[l]
    <3> SUFFICES ASSUME NEW j \in 1 .. Len(t)
                 PROVE  \E l \in 1 .. i + 1 : f[l].named /\ t[j] = f[l]
      OBVIOUS
    <3>1. CASE j = Len(s) + 1
      BY <1>1, <1>3, <2>3, <3>1
    <3>2. CASE j \in 1 .. Len(s)
      <4>1. PICK l \in 1 .. i : f[l].named /\ s[j] = f[l]
        BY <3>2 DEF NamedOf
      <4> QED BY <1>1, <2>3, <3>2, <4>1
    <3> QED BY <2>4, <3>1, <3>2
  <2>6. \A l \in 1 .. i + 1 : f[l].named => \E j \in 1 .. Len(t) : t[j] = f[l]
    <3> SUFFICES ASSUME NEW l \in 1 .. i + 1, f[l].named
                 PROVE  \E j \in 1 .. Len(t) : t[j] = f[l]
      OBVIOUS
    <3>1. CASE l = i + 1
      BY <2>3, <2>4, <3>1
    <3>2. CASE l \in 1 .. i
      <4>1. PICK j \in 1 .. Len(s) : s[j] = f[l]
        BY <3>2 DEF NamedOf
      <4> QED BY <2>3, <2>4, <4>1
    <3> QED BY <1>1, <3>1, <3>2
  <2>7. NamedOf(t, f, i + 1)
    BY <2>3, <2>5, <2>6 DEF NamedOf
  <2> QED BY <1>3, <2>2, <2>7
<1> QED BY <1>2, <1>3

(* Vma-search: the array of the lines that have a name.                    *)
LEMMA KeptLines ==
  ASSUME NEW f, Sorted(f)
  PROVE  NamedOf(Search!Kept(f), f, Len(f))
<1> DEFINE n == Len(f)
           Filled(k) == [i \in 0 .. n |-> IF i = 0 THEN <<>>
                         ELSE IF f[i].named THEN Append(k[i - 1], f[i]) ELSE k[i - 1]]
           Goes(m, k) == k = [i \in 0 .. m |-> IF i = 0 THEN <<>>
                         ELSE IF f[i].named THEN Append(k[i - 1], f[i]) ELSE k[i - 1]]
           S == {m \in Nat : \E k : Goes(m, k)}
<1>1. n \in Nat /\ \A i \in 1 .. n : f[i] \in Lines
  BY SortedLines
<1>2. 0 \in S
  <2>1. Goes(0, [i \in 0 .. 0 |-> <<>>])
    OBVIOUS
  <2> HIDE DEF Goes
  <2> QED BY <2>1
<1>3. ASSUME NEW m \in Nat, m \in S PROVE m + 1 \in S
  <2>1. PICK k : Goes(m, k)
    BY <1>3
  <2> DEFINE last == IF f[m + 1].named THEN Append(k[m], f[m + 1]) ELSE k[m]
             e == [i \in 0 .. m + 1 |-> IF i = m + 1 THEN last ELSE k[i]]
  <2>2. ASSUME NEW i \in 0 .. m + 1
        PROVE  e[i] = IF i = 0 THEN <<>>
                      ELSE IF f[i].named THEN Append(e[i - 1], f[i]) ELSE e[i - 1]
    <3>1. CASE i = m + 1
      <4>1. i # 0 /\ i - 1 = m /\ e[i] = last /\ e[i - 1] = k[m]
        BY <3>1
      <4> HIDE DEF e
      <4> QED BY <3>1, <4>1
    <3>2. CASE i # m + 1
      <4>1. i \in 0 .. m /\ e[i] = k[i] /\ (i # 0 => i - 1 \in 0 .. m /\ e[i - 1] = k[i - 1])
        BY <3>2
      <4>2. k[i] = IF i = 0 THEN <<>>
                   ELSE IF f[i].named THEN Append(k[i - 1], f[i]) ELSE k[i - 1]
        <5> HIDE DEF e
        <5> QED BY <2>1, <4>1
      <4> HIDE DEF e
      <4> QED BY <4>1, <4>2
    <3> QED BY <3>1, <3>2
  <2>3. e = [i \in 0 .. m + 1 |-> e[i]]
    OBVIOUS
  <2> HIDE DEF e
  <2>4. Goes(m + 1, e)
    BY <2>2, <2>3
  <2> HIDE DEF Goes
  <2> QED BY <2>4
<1>4. PICK k : k = Filled(k) /\ k = CHOOSE x : x = Filled(x)
  <2>1. Nat \subseteq S
    <3> HIDE DEF S
    <3> QED BY <1>2, <1>3, SetInduction
  <2>2. PICK k : Goes(n, k)
    <3> HIDE DEF Goes
    <3> QED BY <1>1, <2>1
  <2>3. k = Filled(k)
    BY <2>2
  <2> HIDE DEF Filled
  <2> QED BY <2>3
<1>5. Search!Kept(f) = k[n]
  BY <1>4 DEF Search!Kept
<1> DEFINE T == {i \in Nat : i =< n => NamedOf(k[i], f, i)}
<1>6. 0 \in T
  <2>1. k[0] = <<>>
    <3>1. 0 \in 0 .. n
      BY <1>1
    <3>2. k = Filled(k)
      BY <1>4
    <3> HIDE DEF n
    <3> QED BY <3>1, <3>2
  <2>2. NamedOf(<<>>, f, 0)
    BY DEF NamedOf
  <2> QED BY <2>1, <2>2
<1>7. ASSUME NEW i \in Nat, i \in T PROVE i + 1 \in T
  <2> SUFFICES ASSUME i + 1 =< n PROVE NamedOf(k[i + 1], f, i + 1)
    OBVIOUS
  <2>1. NamedOf(k[i], f, i) /\ i + 1 \in 0 .. n /\ i + 1 # 0 /\ (i + 1) - 1 = i
        /\ f[i + 1] \in Lines
    BY <1>1, <1>7
  <2>2. k[i + 1] = IF f[i + 1].named THEN Append(k[i], f[i + 1]) ELSE k[i]
    <3>1. k = Filled(k)
      BY <1>4
    <3> HIDE DEF n
    <3> QED BY <2>1, <3>1
  <2> QED BY <2>1, <2>2, OneMoreNamed
<1>8. n \in T
  <2>1. Nat \subseteq T
    <3> HIDE DEF T
    <3> QED BY <1>6, <1>7, SetInduction
  <2> QED BY <1>1, <2>1
<1> QED BY <1>1, <1>5, <1>8

(* The array holds the address where the file does in a line with a name,  *)
(* unless there is a wide range before it.                                 *)
LEMMA ArraySearched ==
  ASSUME NEW f, Sorted(f), NEW addr \in Int, NEW spill,
         NEW proc, proc.vmas = Search!load_process_vmas(f, spill)
  PROVE  RightOrPassed(f, addr, Search!find_vma(proc, addr))
<1> SUFFICES ASSUME \A i \in DOMAIN f : f[i].wide => ~ (f[i].start =< addr)
             PROVE  RightOrPassed(f, addr, Search!find_vma(proc, addr))
  BY DEF RightOrPassed
<1>1. PICK kept, vmas, found :
        kept = Search!Kept(f) /\ vmas = proc.vmas /\ found = Search!find_vma(proc, addr)
  OBVIOUS
<1>2. /\ DOMAIN f = 1 .. Len(f) /\ Len(f) \in Nat
      /\ \A i \in 1 .. Len(f) : f[i].start \in Int /\ f[i].end \in Int
  BY SortedLines
<1>3. /\ kept \in Seq(Lines) /\ Len(kept) \in Nat /\ DOMAIN kept = 1 .. Len(kept)
      /\ \A j \in 1 .. Len(kept) : \E i \in 1 .. Len(f) : f[i].named /\ kept[j] = f[i]
      /\ \A i \in 1 .. Len(f) : f[i].named => \E j \in 1 .. Len(kept) : kept[j] = f[i]
  <2>1. NamedOf(kept, f, Len(f))
    BY <1>1, KeptLines
  <2> QED BY <2>1, LenProperties DEF NamedOf
<1>4. /\ Len(vmas) = Len(kept)
      /\ \A j \in 1 .. Len(kept) :
           vmas[j] = [start |-> kept[j].start,
                      end |-> IF kept[j].wide /\ spill # NULL THEN spill ELSE kept[j].end]
  <2>1. vmas = [j \in DOMAIN kept |->
                  [start |-> kept[j].start,
                   end |-> IF kept[j].wide /\ spill # NULL THEN spill ELSE kept[j].end]]
    BY <1>1 DEF Search!load_process_vmas, Search!parse_virtual_memory_area
  <2>2. DOMAIN vmas = 1 .. Len(kept)
    BY <1>3, <2>1
  <2>3. Len(vmas) = Len(kept)
    BY <1>3, <2>1, <2>2
  <2> QED BY <1>3, <2>1, <2>3
<1>5. ASSUME NEW j \in 1 .. Len(kept), NEW i \in 1 .. Len(f), kept[j] = f[i]
      PROVE  /\ Covers(vmas[j], addr) <=> Covers(f[i], addr)
             /\ Covers(f[i], addr) => vmas[j] = [start |-> f[i].start, end |-> f[i].end]
  <2>1. PICK e : e = IF f[i].wide /\ spill # NULL THEN spill ELSE f[i].end
    OBVIOUS
  <2>2. vmas[j] = [start |-> f[i].start, end |-> e]
    BY <1>4, <1>5, <2>1, Zenon
  <2>3. CASE f[i].wide
    <3>1. ~ (f[i].start =< addr)
      BY <1>2, <2>3
    <3>2. vmas[j].start = f[i].start
      BY <2>2
    <3> QED BY <3>1, <3>2 DEF Covers
  <2>4. CASE ~ f[i].wide
    <3>1. vmas[j] = [start |-> f[i].start, end |-> f[i].end]
      BY <2>1, <2>2, <2>4
    <3> QED BY <3>1 DEF Covers
  <2> QED BY <2>3, <2>4
<1>6. found = Search!FirstCovering(vmas, addr)
  BY <1>1 DEF Search!find_vma
<1>7. CASE found = NULL /\ \A j \in 1 .. Len(kept) : ~ Covers(vmas[j], addr)
  <2>1. ASSUME NEW i \in 1 .. Len(f), Covers(f[i], addr) PROVE ~ f[i].named
    BY <1>3, <1>5, <1>7, <2>1
  <2> QED BY <1>1, <1>7, <2>1, LineFound DEF RightOrPassed, Right
<1>8. ASSUME NEW j \in 1 .. Len(kept), Covers(vmas[j], addr), found = vmas[j]
      PROVE  Right(f, addr, found)
  <2>1. PICK i \in 1 .. Len(f) : kept[j] = f[i]
    BY <1>3
  <2>2. Covers(f[i], addr) /\ vmas[j] = [start |-> f[i].start, end |-> f[i].end]
    BY <1>5, <1>8, <2>1
  <2>3. found # NULL /\ found.start = f[i].start /\ found.end = f[i].end
    BY <1>2, <1>8, <2>2, VmasAreThere
  <2>4. \A k \in 1 .. Len(f) : Covers(f[k], addr) => k = i
    BY <2>2, OneCovers
  <2> QED BY <2>2, <2>3, <2>4, AnswerIs
<1> QED BY <1>1, <1>3, <1>4, <1>6, <1>7, <1>8, FirstOfAll DEF RightOrPassed

-----------------------------------------------------------------------------
(* What the programs keep of the files they have read.                     *)
ReadProcs ==
  {[pid |-> p, file |-> f, vmas |-> ELF!parse_process_maps(f, g).vmas,
    vma_tree |-> ELF!parse_process_maps(f, g).vma_tree] : p \in Pids, f \in Layouts, g \in Garbage}

MapProcs ==
  {[valid |-> FALSE, vmas |-> <<>>, file |-> <<>>]}
  \cup {[valid |-> TRUE, vmas |-> Map!load_process_vmas(f), file |-> f] : f \in Layouts}

ArrayProc(pid, f, spill) ==
  [pid |-> pid, vmas |-> Search!load_process_vmas(f, spill), file |-> f]

(* The programs keep nothing but what they made of files they have read.   *)
MapsKept ==
  /\ program = "ELF/main.c" =>
       /\ sys = [nodes |-> sys.nodes, crashed |-> sys.crashed]
       /\ sys.nodes \in [0 .. HASHTABLE_SIZE - 1 -> Seq(ReadProcs)]
  /\ program = "VMA/vma.cpp" => \A p \in DOMAIN sys : sys[p] \in MapProcs
  /\ program = "VMA/pid.cpp" =>
       \/ sys = Pid!NoMaps
       \/ \E p \in Pids, f \in Layouts \cup {<<>>} : sys = AddressMaps(p, f)
  /\ program = "VMA/Vma-search" =>
       /\ SearchInv
       /\ sys.pc = "found" => \E p \in Pids, f \in Layouts, spill \in Search!Spills :
                                sys.procs = <<ArrayProc(p, f, spill)>>

(* The last answer was right for the file it was looked up in.             *)
AnswerRight ==
  answer # NULL /\ (program = "ELF/main.c" => AllShort(answer.file)) =>
    IF program = "VMA/Vma-search" THEN RightOrPassed(answer.file, answer.addr, answer.found)
    ELSE Right(answer.file, answer.addr, answer.found)

FilesRead == files \in [Pids -> Layouts \cup {NULL}]

Programs == {"ELF/main.c", "VMA/vma.cpp", "VMA/pid.cpp", "VMA/Vma-search"}

MapsInv ==
  /\ program \in Programs => FilesRead /\ MapsKept /\ AnswerRight
  /\ program \notin Programs => answer = NULL

(* The kernel changes a file.                                              *)
LEMMA RemapKeeps ==
  ASSUME FilesRead, MapsKept, AnswerRight, NEW pid \in Pids,
         \E f \in (Layouts \cup {NULL}) \ {files[pid]} : files' = [files EXCEPT ![pid] = f],
         UNCHANGED <<sys, answer, program>>
  PROVE  FilesRead' /\ MapsKept' /\ AnswerRight'
<1>1. FilesRead'
  BY DEF FilesRead
<1>2. MapsKept' /\ AnswerRight'
  BY DEF MapsKept, AnswerRight, SearchInv, Search!FreedOnSuccess
<1> QED BY <1>1, <1>2

(* ELF/main.c and vma.c: a process is read whole, or the table stays.      *)
LEMMA ElfMapsStep ==
  ASSUME program = "ELF/main.c", program' = program, FilesRead, MapsKept, AnswerRight, ELF!Next
  PROVE  FilesRead' /\ MapsKept' /\ AnswerRight'
<1>1. ASSUME NEW pid \in Pids, ELF!Remap(pid) PROVE FilesRead' /\ MapsKept' /\ AnswerRight'
  BY <1>1, RemapKeeps DEF ELF!Remap
<1>2. ASSUME NEW pid \in Pids, ELF!GetNewProcess(pid) PROVE FilesRead' /\ MapsKept' /\ AnswerRight'
  <2>1. UNCHANGED <<files, answer>>
    BY <1>2 DEF ELF!GetNewProcess
  <2>2. sys = [nodes |-> sys.nodes, crashed |-> sys.crashed]
        /\ sys.nodes \in [0 .. HASHTABLE_SIZE - 1 -> Seq(ReadProcs)]
    BY DEF MapsKept
  <2>3. sys' = [nodes |-> sys'.nodes, crashed |-> sys'.crashed]
        /\ sys'.nodes \in [0 .. HASHTABLE_SIZE - 1 -> Seq(ReadProcs)]
    <3>1. CASE UNCHANGED sys
      BY <2>2, <3>1
    <3>2. CASE sys' = [sys EXCEPT !.crashed = TRUE]
      <4>1. sys' = [nodes |-> sys.nodes, crashed |-> TRUE]
        BY <2>2, <3>2
      <4> QED BY <2>2, <4>1
    <3>3. ASSUME files[pid] # NULL, NEW g \in Garbage, NEW new,
                 new = [pid |-> pid, file |-> files[pid],
                        vmas |-> ELF!parse_process_maps(files[pid], g).vmas,
                        vma_tree |-> ELF!parse_process_maps(files[pid], g).vma_tree],
                 sys' = [sys EXCEPT !.nodes[ELF!hash(pid)] = Append(@, new)]
          PROVE  sys' = [nodes |-> sys'.nodes, crashed |-> sys'.crashed]
                 /\ sys'.nodes \in [0 .. HASHTABLE_SIZE - 1 -> Seq(ReadProcs)]
      <4>1. files[pid] \in Layouts
        BY <3>3 DEF FilesRead
      <4>2. new \in ReadProcs
        BY <3>3, <4>1 DEF ReadProcs
      <4>3. PICK h : h = ELF!hash(pid)
        OBVIOUS
      <4>4. h \in 0 .. HASHTABLE_SIZE - 1
        <5>1. HASHTABLE_SIZE \in Nat \ {0} /\ pid \in Nat
          BY MapProgramsAssumption
        <5> QED BY <4>3, <5>1 DEF ELF!hash
      <4>5. Append(sys.nodes[h], new) \in Seq(ReadProcs)
        <5>1. sys.nodes[h] \in Seq(ReadProcs)
          BY <2>2, <4>4
        <5> QED BY <4>2, <5>1, AppendProperties
      <4>6. sys' = [nodes |-> [sys.nodes EXCEPT ![h] = Append(sys.nodes[h], new)],
                    crashed |-> sys.crashed]
        BY <2>2, <3>3, <4>3
      <4> QED BY <2>2, <4>4, <4>5, <4>6
    <3> QED BY <1>2, <3>1, <3>2, <3>3 DEF ELF!GetNewProcess
  <2>4. MapsKept'
    BY <2>3 DEF MapsKept
  <2> QED BY <2>1, <2>4 DEF FilesRead, AnswerRight
<1>3. ASSUME NEW pid \in Pids, NEW addr \in Addrs, ELF!GetVma(pid, addr)
      PROVE  FilesRead' /\ MapsKept' /\ AnswerRight'
  <2>1. UNCHANGED <<files, sys>>
    BY <1>3 DEF ELF!GetVma
  <2> DEFINE h == ELF!hash(pid)
             nodes == sys.nodes[h]
             I == {i \in 1 .. Len(nodes) : nodes[i].pid = pid}
  <2>2. ELF!find_process(pid) = IF I # {} THEN ELF!Min(I) ELSE 0
    BY DEF ELF!find_process, ELF!SelectInSeq
  <2>3. nodes \in Seq(ReadProcs)
    <3>1. h \in 0 .. HASHTABLE_SIZE - 1
      <4>1. HASHTABLE_SIZE \in Nat \ {0} /\ pid \in Nat
        BY MapProgramsAssumption
      <4> QED BY <4>1 DEF ELF!hash
    <3> QED BY <3>1 DEF MapsKept
  <2>4. PICK at : at = ELF!find_process(pid)
    OBVIOUS
  <2>5. at \in 1 .. Len(nodes)
    <3>1. I # {} /\ I \in SUBSET Nat /\ I \subseteq 1 .. Len(nodes)
      <4>1. ELF!find_process(pid) # 0
        BY <1>3 DEF ELF!GetVma
      <4> HIDE DEF I
      <4>2. I # {}
        BY <2>2, <4>1
      <4> QED BY <2>3, <4>2 DEF I
    <3>2. PICK i \in I : \A j \in I : i =< j
      <4> HIDE DEF I
      <4> QED BY <3>1, Bounds, Tree!LeastNumber
    <3>3. ELF!Min(I) \in I
      <4> HIDE DEF I
      <4> QED BY <3>2 DEF ELF!Min
    <3> HIDE DEF I
    <3> QED BY <2>2, <2>4, <3>1, <3>3
  <2>6. PICK proc : proc = nodes[at]
    OBVIOUS
  <2>7. proc \in ReadProcs
    <3> HIDE DEF nodes
    <3> QED BY <2>3, <2>5, <2>6
  <2>8. PICK f \in Layouts, g \in Garbage :
          /\ proc.file = f /\ proc.vmas = ELF!parse_process_maps(f, g).vmas
          /\ proc.vma_tree = ELF!parse_process_maps(f, g).vma_tree
    BY <2>7 DEF ReadProcs
  <2>9. answer' = [addr |-> addr, file |-> f, found |-> ELF!find_vma_from_process(proc, addr)]
    BY <1>3, <2>4, <2>6, <2>8 DEF ELF!GetVma, ELF!Answer
  <2>10. ASSUME AllShort(f) PROVE Right(f, addr, ELF!find_vma_from_process(proc, addr))
    <3>1. Built(f, ELF!parse_process_maps(f, g))
      BY <2>10, ParsedIsBuilt
    <3>2. Built(f, proc)
      BY <2>8, <3>1 DEF Built
    <3>3. addr \in Int /\ Sorted(f)
      BY LayoutsAssumption, LayoutsSorted
    <3> QED BY <3>2, <3>3, TreeSearched
  <2>11. AnswerRight'
    <3>1. PICK found : found = ELF!find_vma_from_process(proc, addr)
      OBVIOUS
    <3>2. answer'.file = f /\ answer'.addr = addr /\ answer'.found = found
      BY <2>9, <3>1
    <3>3. AllShort(f) => Right(f, addr, found)
      BY <2>10, <3>1
    <3> QED BY <3>2, <3>3 DEF AnswerRight
  <2> QED BY <2>1, <2>11 DEF FilesRead, MapsKept
<1> QED BY <1>1, <1>2, <1>3 DEF ELF!Next

(* vma.cpp: a process is read once, an invalid one answers null.           *)
LEMMA MapStep ==
  ASSUME program = "VMA/vma.cpp", program' = program, FilesRead, MapsKept, AnswerRight, Map!Next
  PROVE  FilesRead' /\ MapsKept' /\ AnswerRight'
<1>1. ASSUME NEW pid \in Pids, Map!Remap(pid) PROVE FilesRead' /\ MapsKept' /\ AnswerRight'
  BY <1>1, RemapKeeps DEF Map!Remap
<1>2. ASSUME NEW pid \in Pids, NEW addr \in Addrs, Map!get_process_vma_info(pid, addr)
      PROVE  FilesRead' /\ MapsKept' /\ AnswerRight'
  <2>1. PICK proc : proc = Map!create_process(pid)
    OBVIOUS
  <2>2. /\ UNCHANGED files
        /\ sys' = [p \in DOMAIN sys \cup {pid} |-> IF p = pid THEN proc ELSE sys[p]]
        /\ answer' = [addr |-> addr, file |-> proc.file,
                      found |-> IF proc.valid THEN Map!find_vma(proc, addr) ELSE NULL]
    BY <1>2, <2>1 DEF Map!get_process_vma_info, Map!Answer
  <2>3. proc \in MapProcs
    <3>1. CASE pid \in DOMAIN sys
      BY <2>1, <3>1 DEF Map!create_process, MapsKept
    <3>2. CASE pid \notin DOMAIN sys /\ files[pid] = NULL
      BY <2>1, <3>2 DEF Map!create_process, MapProcs
    <3>3. CASE pid \notin DOMAIN sys /\ files[pid] # NULL
      <4>1. files[pid] \in Layouts
        BY <3>3 DEF FilesRead
      <4>2. proc = [valid |-> TRUE, vmas |-> Map!load_process_vmas(files[pid]),
                    file |-> files[pid]]
        BY <2>1, <3>3 DEF Map!create_process
      <4> QED BY <4>1, <4>2 DEF MapProcs
    <3> QED BY <3>1, <3>2, <3>3
  <2>4. MapsKept'
    BY <2>2, <2>3 DEF MapsKept
  <2>5. Right(proc.file, addr, answer'.found)
    <3>1. addr \in Int
      BY LayoutsAssumption
    <3>2. CASE proc = [valid |-> FALSE, vmas |-> <<>>, file |-> <<>>]
      <4>1. answer'.found = NULL /\ proc.file = <<>> /\ Sorted(<<>>) /\ Len(<<>>) = 0
        BY <2>2, <3>2, LayoutsSorted
      <4>2. PICK found, f : found = answer'.found /\ f = <<>>
        OBVIOUS
      <4>3. Sorted(f) /\ found = NULL /\ \A i \in 1 .. Len(f) : FALSE
        BY <4>1, <4>2
      <4>4. Right(f, addr, found)
        BY <3>1, <4>3, AnswerIs
      <4> QED BY <4>1, <4>2, <4>4
    <3>3. ASSUME NEW f \in Layouts,
                 proc = [valid |-> TRUE, vmas |-> Map!load_process_vmas(f), file |-> f]
          PROVE  Right(proc.file, addr, answer'.found)
      <4>1. proc.vmas = Map!load_process_vmas(f) /\ proc.file = f /\ Sorted(f)
            /\ answer'.found = Map!find_vma(proc, addr)
        BY <2>2, <3>3, LayoutsSorted
      <4>2. Right(f, addr, Map!find_vma(proc, addr))
        BY <3>1, <4>1, MapSearched
      <4> QED BY <4>1, <4>2
    <3> QED BY <2>3, <3>2, <3>3 DEF MapProcs
  <2>6. AnswerRight'
    <3>1. answer'.file = proc.file /\ answer'.addr = addr
      BY <2>2
    <3> QED BY <2>5, <3>1 DEF AnswerRight
  <2> QED BY <2>2, <2>4, <2>6 DEF FilesRead
<1> QED BY <1>1, <1>2 DEF Map!Next

(* pid.cpp: one process at a time, the maps of which are cleared.          *)
LEMMA PidStep ==
  ASSUME program = "VMA/pid.cpp", program' = program, FilesRead, MapsKept, AnswerRight, Pid!Next
  PROVE  FilesRead' /\ MapsKept' /\ AnswerRight'
<1>1. ASSUME NEW pid \in Pids, Pid!Remap(pid) PROVE FilesRead' /\ MapsKept' /\ AnswerRight'
  BY <1>1, RemapKeeps DEF Pid!Remap
<1>2. ASSUME NEW pid \in Pids, Pid!parse_maps_file(pid)
      PROVE  FilesRead' /\ MapsKept' /\ AnswerRight'
  <2>1. UNCHANGED <<files, answer>>
    BY <1>2 DEF Pid!parse_maps_file
  <2>2. Pid!Content(pid) \in Layouts \cup {<<>>}
    BY DEF Pid!Content, FilesRead
  <2>3. sys' = AddressMaps(pid, Pid!Content(pid))
    BY <1>2 DEF Pid!parse_maps_file, AddressMaps
  <2>4. MapsKept'
    BY <2>2, <2>3 DEF MapsKept
  <2> QED BY <2>1, <2>4 DEF FilesRead, AnswerRight
<1>3. ASSUME NEW pid \in Pids, NEW addr \in Addrs, Pid!find_vma(pid, addr)
      PROVE  FilesRead' /\ MapsKept' /\ AnswerRight'
  <2>1. UNCHANGED files /\ sys' = Pid!NoMaps
    BY <1>3 DEF Pid!find_vma
  <2>2. pid \in DOMAIN sys.processes_vma_maps
    BY <1>3 DEF Pid!find_vma
  <2>3. PICK p \in Pids, f \in Layouts \cup {<<>>} : sys = AddressMaps(p, f)
    BY <2>2 DEF MapsKept, Pid!NoMaps
  <2>4. PICK map : map = AddressMaps(p, f).addr_vma_map
    OBVIOUS
  <2>5. PICK found : found = IF addr \in DOMAIN map THEN map[addr] ELSE NULL
    OBVIOUS
  <2>6. answer' = [addr |-> addr, file |-> f, found |-> found]
    <3>1. sys.processes_vma_maps = [q \in {p} |-> f] /\ sys.addr_vma_map = map
      BY <2>3, <2>4 DEF AddressMaps
    <3>2. pid = p
      BY <2>2, <3>1
    <3>3. sys.processes_vma_maps[pid] = f
      BY <3>1, <3>2
    <3> QED BY <1>3, <2>5, <3>1, <3>3 DEF Pid!find_vma, Pid!Answer
  <2>7. Sorted(f)
    BY LayoutsSorted
  <2>8. Right(f, addr, found)
    BY <2>4, <2>5, <2>7, AddressesSearched
  <2>9. AnswerRight'
    <3>1. answer'.file = f /\ answer'.addr = addr /\ answer'.found = found
      BY <2>6
    <3> QED BY <2>8, <3>1 DEF AnswerRight
  <2> QED BY <2>1, <2>9 DEF FilesRead, MapsKept
<1> QED BY <1>1, <1>2, <1>3 DEF Pid!Next

(* Vma-search: the process that is searched is the one that was read.      *)
LEMMA ArrayStep ==
  ASSUME program = "VMA/Vma-search", program' = program, FilesRead, MapsKept, AnswerRight,
         Search!Next
  PROVE  FilesRead' /\ MapsKept' /\ AnswerRight'
<1>0. /\ SearchInv /\ SearchInv'
      /\ sys.pc = "found" => \E p \in Pids, f \in Layouts, spill \in Search!Spills :
                               sys.procs = <<ArrayProc(p, f, spill)>>
  BY SearchStep DEF MapsKept
<1>1. ASSUME NEW pid \in Pids, Search!Remap(pid) PROVE FilesRead' /\ MapsKept' /\ AnswerRight'
  BY <1>1, RemapKeeps DEF Search!Remap
<1>2. ASSUME UNCHANGED <<files, answer>>, sys'.pc # "found"
      PROVE  FilesRead' /\ MapsKept' /\ AnswerRight'
  BY <1>0, <1>2 DEF FilesRead, MapsKept, AnswerRight
<1>3. ASSUME NEW pid \in Pids, Search!ReadProcessInfo(pid)
      PROVE  FilesRead' /\ MapsKept' /\ AnswerRight'
  <2>1. UNCHANGED <<files, answer>>
    BY <1>3 DEF Search!ReadProcessInfo
  <2>2. sys'.pc \in {"load", "exited"}
    BY <1>0, <1>3 DEF SearchInv, Search!ReadProcessInfo
  <2> QED BY <1>2, <2>1, <2>2
<1>4. ASSUME Search!LoadFails PROVE FilesRead' /\ MapsKept' /\ AnswerRight'
  <2>1. UNCHANGED <<files, answer>> /\ sys'.pc = "exited"
    BY <1>0, <1>4 DEF SearchInv, Search!LoadFails
  <2> QED BY <1>2, <2>1
<1>5. ASSUME Search!Restart PROVE FilesRead' /\ MapsKept' /\ AnswerRight'
  <2>1. UNCHANGED <<files, answer>> /\ sys'.pc = "ready"
    BY <1>5 DEF Search!Restart, Search!NoRun
  <2> QED BY <1>2, <2>1
<1>6. ASSUME NEW pid \in Pids, Search!Load(pid) PROVE FilesRead' /\ MapsKept' /\ AnswerRight'
  <2>1. UNCHANGED <<files, answer>> /\ files[pid] \in Layouts
    BY <1>6 DEF Search!Load, FilesRead
  <2>2. \/ sys'.pc \in {"exited", "crashed"}
        \/ \E spill \in Search!Spills : sys'.procs = <<ArrayProc(pid, files[pid], spill)>>
    BY <1>0, <1>6 DEF SearchInv, Search!Load, ArrayProc
  <2>3. CASE \E spill \in Search!Spills : sys'.procs = <<ArrayProc(pid, files[pid], spill)>>
    BY <1>0, <2>1, <2>3 DEF FilesRead, MapsKept, AnswerRight
  <2>4. CASE sys'.pc \in {"exited", "crashed"}
    BY <1>2, <2>1, <2>4
  <2> QED BY <2>2, <2>3, <2>4
<1>7. ASSUME NEW pid \in Pids, NEW addr \in Addrs, Search!get_process_vma_info(pid, addr)
      PROVE  FilesRead' /\ MapsKept' /\ AnswerRight'
  <2>1. UNCHANGED files /\ sys'.pc = "exited"
    BY <1>0, <1>7 DEF SearchInv, Search!get_process_vma_info
  <2>2. PICK p \in Pids, f \in Layouts, spill \in Search!Spills :
          sys.procs = <<ArrayProc(p, f, spill)>>
    BY <1>0, <1>7 DEF Search!get_process_vma_info
  <2>3. PICK proc : proc = ArrayProc(p, f, spill)
    OBVIOUS
  <2>4. sys.procs[Search!find_process(pid)] = proc
    <3>1. sys.procs = <<proc>>
      BY <2>2, <2>3
    <3>2. Search!find_process(pid) # 0
      BY <1>7 DEF Search!get_process_vma_info
    <3> QED BY <3>1, <3>2, FoundIsLoaded
  <2>5. answer' = [addr |-> addr, file |-> proc.file, found |-> Search!find_vma(proc, addr)]
    BY <1>7, <2>4 DEF Search!get_process_vma_info, Search!Answer
  <2>6. PICK found : found = Search!find_vma(proc, addr)
    OBVIOUS
  <2>7. RightOrPassed(f, addr, found)
    <3>1. proc.vmas = Search!load_process_vmas(f, spill) /\ Sorted(f) /\ addr \in Int
      BY <2>3, LayoutsSorted, LayoutsAssumption DEF ArrayProc
    <3> QED BY <2>6, <3>1, ArraySearched
  <2>8. answer'.file = f /\ answer'.addr = addr /\ answer'.found = found
    BY <2>3, <2>5, <2>6 DEF ArrayProc
  <2>9. AnswerRight'
    BY <2>7, <2>8 DEF AnswerRight
  <2>10. MapsKept'
    BY <1>0, <2>1 DEF MapsKept
  <2> QED BY <2>1, <2>9, <2>10 DEF FilesRead
<1> QED BY <1>1, <1>3, <1>4, <1>5, <1>6, <1>7 DEF Search!Next

(* Nothing is read, asked or answered at first.                            *)
LEMMA MapsStart == AllInit => MapsInv
<1> SUFFICES ASSUME AllInit PROVE MapsInv
  OBVIOUS
<1>1. CASE program \notin Programs
  BY <1>1 DEF AllInit, Init, MapsIdle, Programs, MapsInv
<1>2. CASE program \in Programs
  <2>1. Init
    BY <1>2 DEF AllInit, InitStructs, Programs
  <2>2. FilesRead /\ AnswerRight
    BY <2>1 DEF Init, ELF!Init, Map!Init, Pid!Init, Search!Init, ELF!InitFiles, Map!InitFiles,
                Pid!InitFiles, Search!InitFiles, FilesRead, AnswerRight
  <2>3. MapsKept
    <3>1. CASE program = "ELF/main.c" /\ ELF!Init
      <4>1. sys = [nodes |-> [i \in 0 .. HASHTABLE_SIZE - 1 |-> <<>>], crashed |-> FALSE]
        BY <3>1 DEF ELF!Init
      <4>2. <<>> \in Seq(ReadProcs)
        OBVIOUS
      <4> QED BY <3>1, <4>1, <4>2 DEF MapsKept
    <3>2. CASE program = "VMA/vma.cpp" /\ Map!Init
      BY <3>2 DEF Map!Init, MapsKept
    <3>3. CASE program = "VMA/pid.cpp" /\ Pid!Init
      BY <3>3 DEF Pid!Init, MapsKept
    <3>4. CASE program = "VMA/Vma-search" /\ Search!Init
      BY <3>4 DEF Search!Init, Search!NoRun, MapsKept, SearchInv, Search!FreedOnSuccess
    <3> QED BY <2>1, <3>1, <3>2, <3>3, <3>4 DEF Init
  <2> QED BY <1>2, <2>2, <2>3 DEF MapsInv
<1> QED BY <1>1, <1>2

(* Only the program that runs takes a step.                                *)
LEMMA MapsStep == MapsInv /\ [AllNext]_allVars => MapsInv'
<1> SUFFICES ASSUME MapsInv, [AllNext]_allVars PROVE MapsInv'
  OBVIOUS
<1>1. program' = program
  BY DEF AllNext, allVars, Next
<1>2. CASE program \notin Programs
  <2>1. ~ Next
    BY <1>2 DEF Next, Programs
  <2>2. UNCHANGED mapVars
    BY <2>1 DEF AllNext, allVars
  <2> QED BY <1>1, <1>2, <2>2 DEF MapsInv, mapVars
<1>3. CASE program \in Programs
  <2>1. FilesRead /\ MapsKept /\ AnswerRight
    BY <1>3 DEF MapsInv
  <2>2. FilesRead' /\ MapsKept' /\ AnswerRight'
    <3>1. CASE Next
      BY <1>1, <2>1, <3>1, ElfMapsStep, MapStep, PidStep, ArrayStep DEF Next
    <3>2. CASE UNCHANGED mapVars
      BY <1>1, <2>1, <3>2
         DEF mapVars, FilesRead, MapsKept, AnswerRight, SearchInv, Search!FreedOnSuccess
    <3>3. ~ StructsNext
      BY <1>3 DEF StructsNext, Programs
    <3> QED BY <3>1, <3>2, <3>3 DEF AllNext, allVars
  <2> QED BY <1>1, <1>3, <2>2 DEF MapsInv
<1> QED BY <1>2, <1>3

(* So every step of a run keeps what the programs read and answer right.   *)
LEMMA MapsAlways == AllSpec => []MapsInv
BY MapsStart, MapsStep, PTL DEF AllSpec

(* FindsMapping, for any maps files whose mappings follow one another, any *)
(* processes, addresses and sizes of the tables: whatever was asked before *)
(* and however the files have changed since, the tree of ELF/main.c in a   *)
(* file of short lines, the map of vma.cpp and the map of single addresses *)
(* of pid.cpp in every file find the mapping that holds the address, and   *)
(* the array of Vma-search finds it if the line has a path name and no     *)
(* wide range comes before it.                                             *)
THEOREM LookupsFind == AllSpec => []FindsMapping
<1>1. MapsInv => FindsMapping
  <2> SUFFICES ASSUME MapsInv, answer # NULL,
                      program = "ELF/main.c" => AllShort(answer.file)
               PROVE  FindsMapping
    BY DEF FindsMapping
  <2>1. AnswerRight
    BY DEF MapsInv
  <2>2. CASE program = "VMA/Vma-search"
    <3>1. RightOrPassed(answer.file, answer.addr, answer.found)
      BY <2>1, <2>2 DEF AnswerRight
    <3> QED BY <2>2, <3>1 DEF RightOrPassed, Right, FindsMapping, Unread, Overrun
  <2>3. CASE program # "VMA/Vma-search"
    BY <2>1, <2>3 DEF AnswerRight, Right, FindsMapping
  <2> QED BY <2>2, <2>3
<1> QED BY <1>1, MapsAlways, PTL
=============================================================================
