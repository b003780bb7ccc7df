---------------------------- MODULE MCGoroutines ----------------------------
(***************************************************************************)
(* The two Go programs made of goroutines and bounded channels: the task   *)
(* limiter of day19.go and the worker pool of goruntine_pool.go.  One of   *)
(* them is chosen at the start; the other stays at its initial state and   *)
(* nothing is asked of its scheduling.                                     *)
(***************************************************************************)
EXTENDS WorkerPool

CONSTANTS TotalTasks, MaxConcurrentTasks

VARIABLES program, limiterMain, spawned, adding, wg, taskCh, pc

Limiter == INSTANCE TaskLimiter WITH main <- limiterMain

ASSUME LimiterAssumption == Limiter!SizesAssumption

limiterVars == <<limiterMain, spawned, adding, wg, taskCh, pc>>
allVars     == <<program, vars, limiterVars>>

AllInit == program \in {"limiter", "pool"} /\ Init /\ Limiter!Init

AllNext ==
  /\ UNCHANGED program
  /\ \/ program = "pool" /\ Next /\ UNCHANGED limiterVars
     \/ program = "limiter" /\ Limiter!Next /\ UNCHANGED vars

AllSpec ==
  /\ AllInit /\ [][AllNext]_allVars
  /\ program = "pool" => Fairness
  /\ program = "limiter" => Limiter!Fairness

-----------------------------------------------------------------------------
(* The channel bounds the tasks that run, and is closed after its last use. *)
AtMostMaxConcurrentTasks == Limiter!AtMostMaxConcurrentTasks
ClosedAfterAllTasks      == Limiter!ClosedAfterAllTasks

(* Every task of the limiter completes. *)
AllTasksComplete == program = "limiter" => Limiter!AllTasksComplete

(* The pool empties while its main sleeps. *)
PoolEmpties == program = "pool" => AllPrintedUnlessWoken

-----------------------------------------------------------------------------
(* More jobs than the channels and the workers can hold together, and      *)
(* numbers with zero, one and several digits.                              *)
MCRandNums == <<0, 9, 10, 1990>>
=============================================================================
