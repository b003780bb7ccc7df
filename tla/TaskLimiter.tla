------------------------------ MODULE TaskLimiter ------------------------------
(***************************************************************************)
(* Golang/day19.go: main starts one goroutine per task; a buffered channel *)
(* is the semaphore that lets at most MaxConcurrentTasks of them run, and  *)
(* a WaitGroup tells main when to close the channel.                       *)
(***************************************************************************)
EXTENDS Naturals, Sequences, FiniteSets

CONSTANTS
  TotalTasks,          \* totalTasks
  MaxConcurrentTasks   \* maxConcurrentTasks, the capacity of taskCh

SizesAssumption ==
  /\ TotalTasks \in Nat
  /\ MaxConcurrentTasks \in Nat \ {0}

VARIABLES
  main,     \* "spawn": in the loop, "wait": in wg.Wait, "closed": after close(taskCh)
  spawned,  \* iterations of the loop that are over, i.e. goroutines started
  adding,   \* wg.Add(1) of the current iteration is done, its go statement is not
  wg,       \* counter of the WaitGroup
  taskCh,   \* contents of the channel
  pc        \* pc[t]: where the goroutine of task t is

vars == <<main, spawned, adding, wg, taskCh, pc>>

Tasks == 1 .. TotalTasks

Init ==
  /\ main = "spawn"
  /\ spawned = 0
  /\ adding = FALSE
  /\ wg = 0
  /\ taskCh = << >>
  /\ pc = [t \in Tasks |-> "unborn"]

(***************************************************************************)
(* The main goroutine                                                      *)
(***************************************************************************)

Add ==
  /\ main = "spawn" /\ spawned < TotalTasks /\ ~adding
  /\ wg' = wg + 1
  /\ adding' = TRUE
  /\ UNCHANGED <<main, spawned, taskCh, pc>>

Go ==
  /\ adding
  /\ spawned' = spawned + 1
  /\ pc' = [pc EXCEPT ![spawned + 1] = "send"]
  /\ adding' = FALSE
  /\ UNCHANGED <<main, wg, taskCh>>

EndLoop ==
  /\ main = "spawn" /\ spawned = TotalTasks
  /\ main' = "wait"
  /\ UNCHANGED <<spawned, adding, wg, taskCh, pc>>

\* Mutant of Close: wg.Wait() is left out.
CloseWithoutWait ==
  /\ main = "wait"
  /\ main' = "closed"
  /\ UNCHANGED <<spawned, adding, wg, taskCh, pc>>

\* wg.Wait returns when the counter is 0.
Close ==
  /\ main = "wait" /\ wg = 0
  /\ main' = "closed"
  /\ UNCHANGED <<spawned, adding, wg, taskCh, pc>>

(***************************************************************************)
(* The goroutine of task t                                                 *)
(***************************************************************************)

\* Mutant of Send: one more than the capacity is let in.
SendOffByOne(t) ==
  /\ pc[t] = "send"
  /\ Len(taskCh) <= MaxConcurrentTasks
  /\ taskCh' = Append(taskCh, t)
  /\ pc' = [pc EXCEPT ![t] = "run"]
  /\ UNCHANGED <<main, spawned, adding, wg>>

\* taskCh <- taskID blocks while the buffer is full, panics if it is closed.
Send(t) ==
  /\ pc[t] = "send"
  /\ IF main = "closed"
     THEN pc' = [pc EXCEPT ![t] = "panic"] /\ UNCHANGED taskCh
     ELSE /\ Len(taskCh) < MaxConcurrentTasks
          /\ taskCh' = Append(taskCh, t)
          /\ pc' = [pc EXCEPT ![t] = "run"]
  /\ UNCHANGED <<main, spawned, adding, wg>>

\* Mutant of Finish: the goroutine returns without <-taskCh.
FinishWithoutReceive(t) ==
  /\ pc[t] = "run"
  /\ pc' = [pc EXCEPT ![t] = "defer"]
  /\ UNCHANGED <<main, spawned, adding, wg, taskCh>>

\* task(taskID) returns.
Finish(t) ==
  /\ pc[t] = "run"
  /\ pc' = [pc EXCEPT ![t] = "receive"]
  /\ UNCHANGED <<main, spawned, adding, wg, taskCh>>

\* <-taskCh takes the oldest ID, which may be that of another task; it blocks
\* while the channel is empty and open.
Receive(t) ==
  /\ pc[t] = "receive"
  /\ taskCh # << >> \/ main = "closed"
  /\ taskCh' = IF taskCh = << >> THEN taskCh ELSE Tail(taskCh)
  /\ pc' = [pc EXCEPT ![t] = "defer"]
  /\ UNCHANGED <<main, spawned, adding, wg>>

\* The deferred wg.Done().
Done(t) ==
  /\ pc[t] = "defer"
  /\ wg' = wg - 1
  /\ pc' = [pc EXCEPT ![t] = "exited"]
  /\ UNCHANGED <<main, spawned, adding, taskCh>>

MainStep == Add \/ Go \/ EndLoop \/ Close
TaskStep(t) == Send(t) \/ Finish(t) \/ Receive(t) \/ Done(t)

\* After main has closed the channel and returned the process is gone.
Terminated == main = "closed" /\ \A t \in Tasks : pc[t] \in {"exited", "panic"}

Next ==
  \/ MainStep
  \/ \E t \in Tasks : TaskStep(t)
  \/ Terminated /\ UNCHANGED vars

Spec == Init /\ [][Next]_vars

\* The scheduler runs every goroutine that can run; task() is a two-second sleep.
Fairness == WF_vars(MainStep) /\ \A t \in Tasks : WF_vars(TaskStep(t))

(***************************************************************************)
(* Properties                                                              *)
(***************************************************************************)

TypeOK ==
  /\ main \in {"spawn", "wait", "closed"}
  /\ spawned \in 0 .. TotalTasks
  /\ adding \in BOOLEAN
  /\ wg \in Nat
  /\ taskCh \in Seq(Tasks)
  /\ pc \in [Tasks -> {"unborn", "send", "run", "receive", "defer", "exited", "panic"}]

Running == {t \in Tasks : pc[t] = "run"}
Holding == {t \in Tasks : pc[t] \in {"run", "receive"}}
Alive   == {t \in Tasks : pc[t] \in {"send", "run", "receive", "defer"}}

\* day19.go:1, at most ten tasks run at the same time, whichever goroutine takes
\* whose ID out of the channel.
AtMostMaxConcurrentTasks == Cardinality(Running) <= MaxConcurrentTasks

\* The channel holds one ID for every task that has not taken one out yet, so
\* the receive that ends a task never blocks and never frees a slot too many.
SlotsMatchHolders == Len(taskCh) = Cardinality(Holding)

\* close(taskCh) comes after the last send and the last receive: no goroutine is
\* left that could panic on the closed channel.
ClosedAfterAllTasks ==
  main = "closed" => spawned = TotalTasks /\ \A t \in Tasks : pc[t] = "exited"

\* Every task runs and main gets to "All tasks completed".
AllTasksComplete == <>(main = "closed" /\ \A t \in Tasks : pc[t] = "exited")

\* The inductive invariant: the counter of the WaitGroup is the number of
\* goroutines alive, one more between wg.Add(1) and the go statement.
LimiterInv ==
  /\ TypeOK
  /\ Len(taskCh) <= MaxConcurrentTasks
  /\ SlotsMatchHolders
  /\ wg = Cardinality(Alive) + (IF adding THEN 1 ELSE 0)
  /\ adding => main = "spawn" /\ spawned < TotalTasks
  /\ main # "spawn" => spawned = TotalTasks
  /\ main = "closed" => wg = 0
  /\ \A t \in Tasks : (pc[t] = "unborn" <=> t > spawned) /\ pc[t] # "panic"

=============================================================================
