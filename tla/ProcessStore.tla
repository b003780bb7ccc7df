----------------------------- MODULE ProcessStore -----------------------------
(***************************************************************************)
(* What callers of Golang/Redis-Mysql are promised: a table of rows, with  *)
(* no cache in sight.  A query is answered with the row as it is at that   *)
(* moment; a write takes effect at most once and is acknowledged only      *)
(* after it did; a call that fails promises nothing.                       *)
(***************************************************************************)
EXTENDS Naturals

CONSTANTS Clients, Contents, MaxPid, None

VARIABLES rows, nextPid, pending, reply

storeVars == <<rows, nextPid, pending, reply>>

Pids    == 1 .. MaxPid
Blank   == [pid |-> 0, data |-> None]
NoCall  == [op |-> "none", pid |-> 0, data |-> None, done |-> FALSE]
Waiting == [status |-> "none", proc |-> Blank]
Failed  == [status |-> "err", proc |-> Blank]

Answer(p, d) == [status |-> "ok", proc |-> [pid |-> p, data |-> d]]

Init ==
  /\ rows = [p \in Pids |-> None]
  /\ nextPid = 1
  /\ pending = [c \in Clients |-> NoCall]
  /\ reply = [c \in Clients |-> Waiting]

Call(c) ==
  /\ pending[c] = NoCall
  /\ \/ \E p \in Pids, op \in {"get", "delete"} :
          pending' = [pending EXCEPT ![c] = [op |-> op, pid |-> p, data |-> None, done |-> FALSE]]
     \/ \E p \in Pids, d \in Contents :
          pending' = [pending EXCEPT ![c] = [op |-> "update", pid |-> p, data |-> d, done |-> FALSE]]
     \/ \E d \in Contents :
          pending' = [pending EXCEPT ![c] = [op |-> "insert", pid |-> 0, data |-> d, done |-> FALSE]]
  /\ reply' = [reply EXCEPT ![c] = Waiting]
  /\ UNCHANGED <<rows, nextPid>>

Return(c, r) ==
  /\ pending' = [pending EXCEPT ![c] = NoCall]
  /\ reply' = [reply EXCEPT ![c] = r]

\* A query answers with the current row.
Read(c) ==
  LET p == pending[c].pid IN
  /\ pending[c].op = "get"
  /\ rows[p] # None
  /\ Return(c, Answer(p, rows[p]))
  /\ UNCHANGED <<rows, nextPid>>

\* A write takes effect, and is acknowledged, now or later, or its answer is lost.
Commit(c, p) ==
  /\ ~pending[c].done
  /\ rows' = [rows EXCEPT ![p] = pending[c].data]
  /\ \/ /\ pending' = [pending EXCEPT ![c] =
             [op |-> @.op, pid |-> p, data |-> @.data, done |-> TRUE]]
        /\ UNCHANGED reply
     \/ Return(c, Answer(p, pending[c].data))
     \/ Return(c, Failed)

Write(c) ==
  \/ /\ pending[c].op \in {"update", "delete"}
     /\ Commit(c, pending[c].pid)
     /\ UNCHANGED nextPid
  \/ /\ pending[c].op = "insert"
     /\ nextPid \in Pids
     /\ Commit(c, nextPid)
     /\ nextPid' = nextPid + 1

Acknowledge(c) ==
  /\ pending[c].done
  /\ Return(c, Answer(pending[c].pid, pending[c].data))
  /\ UNCHANGED <<rows, nextPid>>

\* A failing call gives up; an insert may waste a PID.
Fail(c) ==
  /\ pending[c] # NoCall
  /\ Return(c, Failed)
  /\ \/ UNCHANGED nextPid
     \/ /\ pending[c].op = "insert"
        /\ nextPid \in Pids
        /\ nextPid' = nextPid + 1
  /\ UNCHANGED rows

Next == \E c \in Clients : Call(c) \/ Read(c) \/ Write(c) \/ Acknowledge(c) \/ Fail(c)

Spec == Init /\ [][Next]_storeVars

=============================================================================
