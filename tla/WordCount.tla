------------------------------ MODULE WordCount ------------------------------
(***************************************************************************)
(* src/day12-pthread.c and .cpp: threads that each count the words of one  *)
(* chunk of a file.  A block is read together with some bytes behind it,   *)
(* so that it can be cut at a space; what was read is subtracted from what *)
(* is left, an unsigned number.  In the .cpp a mutex is held for the read. *)
(* The text is a sequence of bytes, TRUE for white space.                  *)
(***************************************************************************)
EXTENDS Integers, Sequences, FiniteSets, FiniteSetsExt

CONSTANTS
  NUM_THREADS, READ_SIZE, LOOKAHEAD_SIZE,
  SizeT,       (* 2^64: size_t arithmetic is modulo this                   *)
  MaxText,     (* bound: bytes of the file                                 *)
  NULL         (* nobody                                                   *)

WordCountAssumption ==
  /\ {NUM_THREADS, READ_SIZE, LOOKAHEAD_SIZE, MaxText} \subseteq Nat \ {0}
  /\ SizeT \in Nat /\ SizeT > MaxText + READ_SIZE + LOOKAHEAD_SIZE

Threads == 0 .. NUM_THREADS - 1

VARIABLES
  text,       (* the file                                                  *)
  mutex,      (* the .cpp: reads take the lock                             *)
  holder,     (* who has it                                                *)
  thread,     (* per thread: pc, offset, length, count, in_word            *)
  counts,     (* word_count of each thread                                 *)
  joined,     (* main: threads joined so far, NULL: it has not got there   *)
  total       (* main: their counts added up                               *)

vars == <<text, mutex, holder, thread, counts, joined, total>>

(* The chunk main gives to thread i; the last one gets the rest (and not   *)
(* an equal share, ChunkLengthEqual).                                      *)
chunk_size == Len(text) \div NUM_THREADS
ChunkOffset(i) == i * chunk_size
ChunkLengthEqual(i) == chunk_size
ChunkLength(i) ==
  IF i = NUM_THREADS - 1 THEN Len(text) - i * chunk_size ELSE chunk_size

(* The texts that are tried: every one of at most MaxText bytes. *)
Texts == UNION {[1 .. n -> BOOLEAN] : n \in 0 .. MaxText}

Init ==
  /\ text \in Texts /\ mutex \in BOOLEAN
  /\ holder = NULL
  /\ thread = [i \in Threads |->
                 [pc |-> "none", offset |-> ChunkOffset(i),
                  length |-> ChunkLength(i), count |-> 0, in_word |-> FALSE]]
  /\ counts = [i \in Threads |-> 0]
  /\ joined = NULL /\ total = 0

-----------------------------------------------------------------------------
(* main creates the next thread; its failure aborts the program. *)
Create(i) ==
  /\ joined = NULL /\ thread[i].pc = "none"
  /\ \A j \in 0 .. i - 1 : thread[j].pc # "none"
  /\ thread' = [thread EXCEPT ![i].pc = "loop"]
  /\ joined' = IF i = NUM_THREADS - 1 THEN 0 ELSE NULL
  /\ UNCHANGED <<text, mutex, holder, counts, total>>

(* The .cpp locks before it reads. *)
Lock(i) ==
  /\ mutex /\ holder = NULL
  /\ thread[i].pc = "loop" /\ thread[i].length > 0
  /\ holder' = i
  /\ UNCHANGED <<text, mutex, thread, counts, joined, total>>

SmallerOf(a, b) == IF a < b THEN a ELSE b

(* How much of a block that starts at offset is used, to_read being asked  *)
(* for: everything up to the end of the file, or else to_read bytes and    *)
(* then up to the last space of the look-ahead.                            *)
Used(offset, to_read) ==
  LET left  == Len(text) - offset
      asked == to_read + LOOKAHEAD_SIZE
      ends  == {k \in 1 .. LOOKAHEAD_SIZE : text[offset + to_read + k]}
  IN IF left < asked THEN left
     ELSE to_read + (IF ends = {} THEN 0 ELSE Max(ends))

(* Does not reset in_word at a space. *)
ScanWithoutReset(block, in_word) ==
  LET scan[k \in 0 .. Len(block)] ==
        IF k = 0 THEN [count |-> 0, in_word |-> in_word]
        ELSE [count   |-> scan[k - 1].count
                          + (IF block[k] /\ scan[k - 1].in_word THEN 1 ELSE 0),
              in_word |-> scan[k - 1].in_word \/ ~block[k]]
  IN scan[Len(block)]

(* The loop over a block: a word is counted at the space that ends it. *)
Scan(block, in_word) ==
  LET scan[k \in 0 .. Len(block)] ==
        IF k = 0 THEN [count |-> 0, in_word |-> in_word]
        ELSE [count   |-> scan[k - 1].count
                          + (IF block[k] /\ scan[k - 1].in_word THEN 1 ELSE 0),
              in_word |-> ~block[k]]
  IN scan[Len(block)]

(* What is left of the chunk: a block that reached past it wraps around.   *)
Remaining(length, used) == (length - used) % SizeT

(* One turn of the while loop. *)
ReadBlock(i) ==
  LET t    == thread[i]
      used == Used(t.offset, SmallerOf(t.length, READ_SIZE))
      scan == Scan(SubSeq(text, t.offset + 1, t.offset + used), t.in_word)
  IN
  /\ t.pc = "loop" /\ t.length > 0
  /\ holder = IF mutex THEN i ELSE NULL
  /\ holder' = NULL
  /\ thread' = [thread EXCEPT ![i] =
                  [pc |-> "loop", offset |-> t.offset + used,
                   length |-> Remaining(t.length, used),
                   count |-> t.count + scan.count, in_word |-> scan.in_word]]
  /\ UNCHANGED <<text, mutex, counts, joined, total>>

(* malloc fails: the thread returns without a count. *)
FailMalloc(i) ==
  /\ thread[i].pc = "loop" /\ holder # i
  /\ thread[i].offset = ChunkOffset(i) /\ thread[i].length = ChunkLength(i)
  /\ thread' = [thread EXCEPT ![i].pc = "failed"]
  /\ UNCHANGED <<text, mutex, holder, counts, joined, total>>

(* pread fails: so does the thread, after it has unlocked. *)
FailRead(i) ==
  /\ thread[i].pc = "loop" /\ thread[i].length > 0
  /\ holder = IF mutex THEN i ELSE NULL
  /\ holder' = NULL
  /\ thread' = [thread EXCEPT ![i].pc = "failed"]
  /\ UNCHANGED <<text, mutex, counts, joined, total>>

(* The chunk is done: a word that the chunk ends in is counted. *)
Return(i) ==
  LET t == thread[i] IN
  /\ t.pc = "loop" /\ t.length = 0
  /\ counts' = [counts EXCEPT ![i] = t.count + (IF t.in_word THEN 1 ELSE 0)]
  /\ thread' = [thread EXCEPT ![i].pc = "done"]
  /\ UNCHANGED <<text, mutex, holder, joined, total>>

(* pthread_join of the next thread. *)
Join ==
  /\ joined # NULL /\ joined < NUM_THREADS
  /\ thread[joined].pc \in {"done", "failed"}
  /\ joined' = joined + 1
  /\ total' = total + counts[joined]
  /\ UNCHANGED <<text, mutex, holder, thread, counts>>

Run(i) == Lock(i) \/ ReadBlock(i) \/ Return(i)

Next ==
  \/ \E i \in Threads : Create(i) \/ Run(i) \/ FailMalloc(i) \/ FailRead(i)
  \/ Join

(* Threads are scheduled and a mutex that is free again and again is got;  *)
(* nothing has to fail.                                                    *)
Fairness ==
  /\ \A i \in Threads : WF_vars(Create(i)) /\ WF_vars(ReadBlock(i))
                        /\ WF_vars(Return(i)) /\ SF_vars(Lock(i))
  /\ WF_vars(Join)

-----------------------------------------------------------------------------
InWord(k) == k \in DOMAIN text /\ ~text[k]

(* The words of the file, each counted at its last byte. *)
Words == Cardinality({k \in DOMAIN text : InWord(k) /\ ~InWord(k + 1)})

(* The chunks that begin inside a word. *)
SplitWords ==
  Cardinality({i \in Threads : ChunkLength(i) > 0 /\ ChunkOffset(i) > 0
                 /\ InWord(ChunkOffset(i)) /\ InWord(ChunkOffset(i) + 1)})

(* If every thread comes to its end, the total is the number of words, and *)
(* one more for each word that lies across two chunks: nothing else is     *)
(* counted twice or missed, however the blocks were cut, whichever thread  *)
(* ran first, with and without the mutex.                                  *)
TotalCounts ==
  joined = NUM_THREADS /\ (\A i \in Threads : thread[i].pc = "done")
    => total = Words + SplitWords

(* The thread of the last chunk stops, if its reads succeed: the end of    *)
(* the file is the end of its chunk.                                       *)
LastThreadEnds == <>(thread[NUM_THREADS - 1].pc \in {"done", "failed"})

(* "Wait until the threads have ended" (day12-pthread.c:133): main comes   *)
(* to print its total.  A thread whose block reached past its chunk has    *)
(* wrapped its length around and reads for ever.                           *)
MainPrintsTotal == <>(joined = NUM_THREADS)
=============================================================================
