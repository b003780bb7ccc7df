----------------------------- MODULE RingBuffer -----------------------------
(***************************************************************************)
(* src/RingBuffer: one ring in shared memory, written by one process       *)
(* (process_a for X) and read by another (process_b).  A message is a      *)
(* header with its length and its bytes; each side publishes its index     *)
(* with one atomic store when it has copied everything.  A copy is one     *)
(* step per byte, so the two sides interleave in the middle of messages.   *)
(*                                                                         *)
(* The bytes wrap around the end of the buffer, the header does not: at    *)
(* the end its memcpy runs into the field behind the buffer, head.  A      *)
(* message that takes all the space left makes head equal to tail, which   *)
(* means empty.  mishap remembers that one of the two has happened.        *)
(***************************************************************************)
EXTENDS Integers, Sequences, FiniteSets

CONSTANTS
  RINGBUFFER_SIZE,
  DataHeader,    (* sizeof(DataHeader)                                     *)
  MaxLength,     (* k: the longest message that write and read accept      *)
  MaxMessages    (* bound: messages written, and messages read             *)

RingAssumption ==
  /\ {DataHeader, MaxLength, MaxMessages} \subseteq Nat \ {0}
  /\ RINGBUFFER_SIZE \in Nat /\ RINGBUFFER_SIZE > DataHeader + MaxLength

Cells == 0 .. RINGBUFFER_SIZE - 1
Free  == <<0, 0>>   (* a byte that was never written                       *)

VARIABLES
  buffer,   (* [Cells -> <<number of the message, position in it>>], the   *)
            (* header at position 0                                        *)
  head, tail,
  sent,     (* the lengths of the messages written                         *)
  writer,   (* [pc, head, copied] of the ringbuffer_write under way        *)
  reader,   (* [pc, tail, size, data] of the ringbuffer_read               *)
  received, (* how many messages were read                                 *)
  whole,    (* each was the next one, and whole                            *)
  mishap

vars == <<buffer, head, tail, sent, writer, reader, received, whole, mishap>>

NoWrite == [pc |-> "idle", head |-> 0, copied |-> 0]
NoRead  == [pc |-> "idle", tail |-> 0, size |-> 0, data |-> <<>>]

(* ringbuffer_init, which the repository does not define, clears the ring. *)
Init ==
  /\ buffer = [c \in Cells |-> Free]
  /\ head = 0 /\ tail = 0
  /\ sent = <<>> /\ writer = NoWrite /\ reader = NoRead
  /\ received = 0 /\ whole = TRUE /\ mishap = FALSE

Forward(i, n) == (i + n) % RINGBUFFER_SIZE

-----------------------------------------------------------------------------
SpaceAvailable(h, t) ==
  RINGBUFFER_SIZE - ((h - t + RINGBUFFER_SIZE) % RINGBUFFER_SIZE) - DataHeader

(* ringbuffer_write up to and including the memcpy of the header; a        *)
(* message that is too long or does not fit is refused.                    *)
BeginWrite(length) ==
  LET n == Len(sent) + 1 IN
  /\ writer.pc = "idle" /\ n =< MaxMessages
  /\ length =< MaxLength /\ length =< SpaceAvailable(head, tail)
  /\ sent' = Append(sent, length)
  /\ buffer' = [c \in Cells |-> IF c \in head .. head + DataHeader - 1
                                THEN <<n, 0>> ELSE buffer[c]]
  /\ mishap' = (mishap \/ head + DataHeader > RINGBUFFER_SIZE)
  /\ writer' = [pc |-> "copy", head |-> Forward(head, DataHeader), copied |-> 0]
  /\ UNCHANGED <<head, tail, reader, received, whole>>

(* Publishes head with each byte. *)
WriteBytePublishing ==
  /\ writer.pc = "copy" /\ writer.copied < sent[Len(sent)]
  /\ buffer' = [buffer EXCEPT ![writer.head] = <<Len(sent), writer.copied + 1>>]
  /\ writer' = [writer EXCEPT !.head = Forward(@, 1), !.copied = @ + 1]
  /\ head' = Forward(writer.head, 1)
  /\ UNCHANGED <<tail, sent, reader, received, whole, mishap>>

WriteByte ==
  /\ writer.pc = "copy" /\ writer.copied < sent[Len(sent)]
  /\ buffer' = [buffer EXCEPT ![writer.head] = <<Len(sent), writer.copied + 1>>]
  /\ writer' = [writer EXCEPT !.head = Forward(@, 1), !.copied = @ + 1]
  /\ UNCHANGED <<head, tail, sent, reader, received, whole, mishap>>

(* The store of head. *)
EndWrite ==
  /\ writer.pc = "copy" /\ writer.copied = sent[Len(sent)]
  /\ head' = writer.head
  /\ writer' = NoWrite
  /\ mishap' = (mishap \/ writer.head = tail)
  /\ UNCHANGED <<buffer, tail, sent, reader, received, whole>>

(* While a header overlaps head, the reader may find any value in it. *)
HeadClobbered ==
  writer.pc = "copy" /\ head + DataHeader > RINGBUFFER_SIZE

(* The lengths a header at tail can show: that of its message, or, where   *)
(* it was overwritten or lies across the end, anything; MaxLength + 1      *)
(* stands for all that are too long.                                       *)
HeaderValues ==
  LET cells == {buffer[c] : c \in (tail .. tail + DataHeader - 1) \cap Cells}
      n     == buffer[tail][1]
  IN IF tail + DataHeader =< RINGBUFFER_SIZE /\ cells = {<<n, 0>>} /\ n > 0
     THEN {sent[n]} ELSE 0 .. MaxLength + 1

(* ringbuffer_read up to the header: the ring is not empty, the length is  *)
(* looked at.  Of a message that is too long nothing is read: the call     *)
(* answers -1 and changes nothing.                                         *)
BeginRead ==
  /\ reader.pc = "idle" /\ received < MaxMessages
  /\ head # tail \/ HeadClobbered
  /\ \E size \in HeaderValues :
       /\ size =< MaxLength
       /\ reader' = [pc |-> "copy", tail |-> Forward(tail, DataHeader),
                     size |-> size, data |-> <<>>]
  /\ UNCHANGED <<buffer, head, tail, sent, writer, received, whole, mishap>>

ReadByte ==
  /\ reader.pc = "copy" /\ Len(reader.data) < reader.size
  /\ reader' = [reader EXCEPT !.tail = Forward(@, 1),
                              !.data = Append(@, buffer[reader.tail])]
  /\ UNCHANGED <<buffer, head, tail, sent, writer, received, whole, mishap>>

(* The store of tail; the caller has the message. *)
EndRead ==
  /\ reader.pc = "copy" /\ Len(reader.data) = reader.size
  /\ tail' = reader.tail
  /\ received' = received + 1
  /\ whole' = (/\ whole /\ received < Len(sent)
               /\ reader.data = [i \in 1 .. sent[received + 1] |->
                                   <<received + 1, i>>])
  /\ reader' = NoRead
  /\ UNCHANGED <<buffer, head, sent, writer, mishap>>

Next ==
  \/ \E length \in 1 .. MaxLength : BeginWrite(length)
  \/ WriteByte \/ EndWrite
  \/ BeginRead \/ ReadByte \/ EndRead

-----------------------------------------------------------------------------
(* Whatever the two processes do at the same time, the reader gets every   *)
(* message whole and in the order of writing, and never one that is still  *)
(* being written - until a message takes all the space left (the ring then *)
(* looks empty and is overwritten) or a header crosses the end.            *)
DeliversWhole ==
  ~mishap =>
    /\ whole
    /\ received =< Len(sent) - (IF writer.pc = "copy" THEN 1 ELSE 0)
    /\ reader.pc = "copy" =>
         received < Len(sent) - (IF writer.pc = "copy" THEN 1 ELSE 0)
=============================================================================
