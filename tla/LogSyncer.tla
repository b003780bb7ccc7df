------------------------------- MODULE LogSyncer -------------------------------
(***************************************************************************)
(* redis_syncer.py: set_key stores a value and logs it, sync_logs reads    *)
(* the log from its beginning.  A line is "time - level - message", and    *)
(* sync_logs takes the field behind the first dash for the command: that   *)
(* is the level, one word, so that every line of the log is an invalid one *)
(* and a warning is appended to the file being read.                       *)
(*                                                                         *)
(* What ends the loop is the rotation: a full log is renamed, the reader   *)
(* keeps the renamed file and the warnings go to a new one.  The branches  *)
(* of sync_logs for SET, GET and DEL stand behind a length no line of this *)
(* log has and are left out.                                               *)
(***************************************************************************)
EXTENDS Naturals, FiniteSetsExt

CONSTANT
  MaxLines   \* lines a log file takes before it is rotated (maxBytes)

VARIABLES
  phase,    \* "set": in set_key; "sync": in sync_logs; "end"
  lines,    \* number of lines in the file the handler appends to
  unread,   \* number of lines sync_logs has not read of the file it opened
  renamed   \* the file that sync_logs opened has been renamed

vars == <<phase, lines, unread, renamed>>

SyncerAssumption == MaxLines \in Nat \ {0}

\* The log may hold lines of earlier runs.
Init ==
  /\ phase = "set" /\ unread = 0 /\ renamed = FALSE
  /\ lines \in 0 .. MaxLines

\* Mutant of Rotates: the log grows without limit.
RotatesNever == FALSE

\* shouldRollover of RotatingFileHandler.
Rotates == lines >= MaxLines

\* A record is written to the current file, or to a new one.
Log ==
  \/ Rotates /\ lines' = 1
  \/ ~Rotates /\ lines' = Min({lines + 1, MaxLines})

\* set_key: an error of the connection is logged and the call repeated after five
\* seconds, any other one is raised.  The file is opened once the key is set.
SetKey ==
  /\ phase = "set"
  /\ Log
  /\ \/ phase' = "set" /\ UNCHANGED unread
     \/ phase' = "end" /\ UNCHANGED unread
     \/ phase' = "sync" /\ unread' = lines'
  /\ UNCHANGED renamed

\* One turn of the loop: the line has fewer than three words, and the warning about
\* it is appended, to the file that is read as long as that has not been renamed.
ReadLine ==
  /\ phase = "sync" /\ unread > 0
  /\ Log
  /\ renamed' = (renamed \/ Rotates)
  /\ unread' = IF renamed' THEN unread - 1 ELSE unread
  /\ UNCHANGED phase

EndOfFile ==
  /\ phase = "sync" /\ unread = 0
  /\ phase' = "end"
  /\ UNCHANGED <<lines, unread, renamed>>

Next == SetKey \/ ReadLine \/ EndOfFile

\* The one thread of the process runs; Redis may be away for ever.
Fairness == WF_vars(ReadLine \/ EndOfFile)

Spec == Init /\ [][Next]_vars /\ Fairness

\* sync_logs ends although it feeds the file it reads, because that file is taken
\* away from under it.
SyncEnds == phase = "sync" ~> phase = "end"

=============================================================================
