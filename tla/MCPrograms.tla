------------------------------ MODULE MCPrograms ------------------------------
(***************************************************************************)
(* Six programs whose parts run at the same time, or that wait for         *)
(* something outside: the word count, the ring buffer, the timer that      *)
(* scans /proc, two parts of the takeout server, and the syncer that reads *)
(* its own log.  One of them is chosen at the start; the others stay at    *)
(* their initial state, in which none of their fair actions is enabled.    *)
(***************************************************************************)
EXTENDS Integers

CONSTANTS
  NUM_THREADS, READ_SIZE, LOOKAHEAD_SIZE, SizeT, MaxText,
  RINGBUFFER_SIZE, DataHeader, MaxLength, MaxMessages,
  MaxPid, MaxStarts, Counters, NULL,
  Riders, Workers, MaxEntries, None, MaxLines

VARIABLES
  program,
  text, mutex, holder, thread, counts, joined, total,
  buffer, head, tail, sent, writer, reader, received, whole, mishap,
  start, now, gaps, pc, pid, original, seen, timed, cleaned,
  at, riderIDs, riderIndex, near, refused, answer, redisUp,
  requests, table, cache, announced, deleted, req,
  phase, lines, unread, renamed

Words    == INSTANCE WordCount
Ring     == INSTANCE RingBuffer
Scan     == INSTANCE ProcScan
Dispatch == INSTANCE TakeoutDispatch
Lists    == INSTANCE TakeoutLists
Syncer   == INSTANCE LogSyncer

ASSUME ProgramsAssumption ==
  /\ Words!WordCountAssumption /\ Ring!RingAssumption /\ Scan!ScanAssumption
  /\ Dispatch!DispatchAssumption /\ Lists!ListsAssumption /\ Syncer!SyncerAssumption

wordVars     == <<text, mutex, holder, thread, counts, joined, total>>
ringVars     == <<buffer, head, tail, sent, writer, reader, received, whole, mishap>>
scanVars     == <<start, now, gaps, pc, pid, original, seen, timed, cleaned>>
dispatchVars == <<at, riderIDs, riderIndex, near, refused, answer, redisUp>>
listsVars    == <<requests, table, cache, announced, deleted, req>>
syncerVars   == <<phase, lines, unread, renamed>>
goAndPython  == <<dispatchVars, listsVars, syncerVars>>
vars         == <<program, wordVars, ringVars, scanVars, goAndPython>>

(* A program that does not run has one initial state. *)
Init ==
  /\ program \in {"words", "ring", "scan", "dispatch", "lists", "syncer"}
  /\ Words!Init /\ Ring!Init /\ Scan!Init
  /\ Dispatch!Init /\ Lists!Init /\ Syncer!Init
  /\ program # "words" => text = <<>> /\ ~mutex
  /\ program # "scan" => \A p \in Scan!Pids : start[p] = 0
  /\ program # "syncer" => lines = 0

Next ==
  /\ UNCHANGED program
  /\ \/ program = "words" /\ Words!Next /\ UNCHANGED <<ringVars, scanVars, goAndPython>>
     \/ program = "ring" /\ Ring!Next /\ UNCHANGED <<wordVars, scanVars, goAndPython>>
     \/ program = "scan" /\ Scan!Next /\ UNCHANGED <<wordVars, ringVars, goAndPython>>
     \/ program = "dispatch" /\ Dispatch!Next
        /\ UNCHANGED <<wordVars, ringVars, scanVars, listsVars, syncerVars>>
     \/ program = "lists" /\ Lists!Next
        /\ UNCHANGED <<wordVars, ringVars, scanVars, dispatchVars, syncerVars>>
     \/ program = "syncer" /\ Syncer!Next
        /\ UNCHANGED <<wordVars, ringVars, scanVars, dispatchVars, listsVars>>

Spec ==
  /\ Init /\ [][Next]_vars
  /\ program = "words" => Words!Fairness
  /\ Dispatch!Fairness /\ Lists!Fairness /\ Syncer!Fairness

DeliversWhole  == Ring!DeliversWhole
TotalCounts    == Words!TotalCounts
LastThreadEnds == program = "words" => Words!LastThreadEnds
CleansOnlyGone == Scan!CleansOnlyGone
NobodySkipped  == Dispatch!NobodySkipped
DispatchEnds   == Dispatch!DispatchEnds
AnnouncedGetListed == Lists!AnnouncedGetListed
SyncEnds       == Syncer!SyncEnds
=============================================================================
