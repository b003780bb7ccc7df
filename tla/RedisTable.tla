----------------------------- MODULE RedisTable -----------------------------
(***************************************************************************)
(* The hash tables of src/Redis_data_struct: the dictionary of Hash.c,     *)
(* which puts a new entry before an old one with the same key, and the set *)
(* of Set.c, which refuses it.  mem is the table, contents what the calls  *)
(* that succeeded add up to.                                               *)
(***************************************************************************)
EXTENDS Integers, Sequences, FiniteSets, SequencesExt, FiniteSetsExt

CONSTANTS
  Keys, Vals,
  HashOf,     (* [Keys -> Nat]: the hash functions                         *)
  SizeMask,   (* size - 1 of the table, size a power of two                *)
  MaxUsed,    (* bound: entries added                                      *)
  NULL

VARIABLES mem, contents

Slots == 0 .. SizeMask
NoEntries == [s \in Slots |-> <<>>]

(* dict_create and set_create. *)
Init(kind) ==
  /\ mem = [kind |-> kind, table |-> NoEntries, used |-> 0, freed |-> FALSE]
  /\ contents = [k \in Keys |-> NULL]

(* hash & sizemask *)
SlotOf(k) == HashOf[k] % (SizeMask + 1)

Position(k) == SelectInSeq(mem.table[SlotOf(k)], LAMBDA e : e.key = k)

(* dict_find; set_member asks whether there is an entry at all. *)
Find(k) ==
  IF Position(k) = 0 THEN NULL ELSE mem.table[SlotOf(k)][Position(k)].val

Added(k, v) ==
  [mem EXCEPT !.table[SlotOf(k)] = <<[key |-> k, val |-> v]>> \o @,
              !.used = @ + 1]

(* dict_add: the malloc of the entry may fail. *)
dict_add(k, v) ==
  /\ mem.kind = "dict" /\ ~mem.freed /\ mem.used < MaxUsed
  /\ \/ UNCHANGED <<mem, contents>>
     \/ mem' = Added(k, v) /\ contents' = [contents EXCEPT ![k] = v]

(* set_add: an element that is there is refused. *)
set_add(k) ==
  /\ mem.kind = "set" /\ ~mem.freed /\ mem.used < MaxUsed
  /\ \/ UNCHANGED <<mem, contents>>
     \/ /\ Position(k) = 0
        /\ mem' = Added(k, k) /\ contents' = [contents EXCEPT ![k] = k]

(* dict_free goes through every slot. *)
dict_free ==
  /\ mem.kind = "dict" /\ ~mem.freed
  /\ mem' = [mem EXCEPT !.table = NoEntries, !.freed = TRUE]
  /\ UNCHANGED contents

(* set_free stops when used has come down to 0: the slots from there on    *)
(* keep what they have.                                                    *)
set_free ==
  LET before(s) == FoldSet(LAMBDA q, n : n + Len(mem.table[q]), 0, 0 .. s - 1)
  IN
  /\ mem.kind = "set" /\ ~mem.freed
  /\ mem' = [mem EXCEPT !.freed = TRUE,
               !.table = [s \in Slots |->
                            IF before(s) < mem.used THEN <<>> ELSE mem.table[s]]]
  /\ UNCHANGED contents

Next ==
  \/ \E k \in Keys : set_add(k) \/ \E v \in Vals : dict_add(k, v)
  \/ dict_free \/ set_free

(* A key has the value it was added with last, also when other keys share  *)
(* its slot and older entries its chain, and a key that was never added    *)
(* has none; once the table is freed no entry is left behind.              *)
TableRight ==
  IF mem.freed THEN mem.table = NoEntries
  ELSE \A k \in Keys : Find(k) = contents[k]
=============================================================================
