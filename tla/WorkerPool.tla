------------------------------- MODULE WorkerPool -------------------------------
(***************************************************************************)
(* Golang/goruntine_pool.go: main produces jobs on jobChan, a fixed number *)
(* of workers turns each into a result on resultChan, one printer prints   *)
(* them.  main closes jobChan after the last job, sleeps, closes           *)
(* resultChan and returns, which ends the process.                         *)
(***************************************************************************)
EXTENDS Naturals, Sequences, FiniteSets

CONSTANTS
  RandNums,    \* RandNums[id]: the number drawn for job id
  NumWorkers,  \* numWorkers
  JobCap,      \* capacity of jobChan
  ResultCap    \* capacity of resultChan

ASSUME PoolAssumption ==
  /\ RandNums \in Seq(Nat)
  /\ {NumWorkers, JobCap, ResultCap} \subseteq Nat \ {0}

VARIABLES
  main,        \* "produce", "sleep", "closed" (resultChan is), "exited" or "panic"
  jobChan,     \* IDs of the jobs in the channel
  resultChan,  \* results in the channel
  worker,      \* worker[w]: what worker w waits for, and its job
  produced,    \* number of jobs sent so far
  printed      \* results printed, in order

vars == <<main, jobChan, resultChan, worker, produced, printed>>

NumJobs == Len(RandNums)
Jobs    == 1 .. NumJobs
Workers == 1 .. NumWorkers

Receiving == [at |-> "receive", job |-> 0]
Gone      == [at |-> "gone", job |-> 0]

\* The loop of a worker over the digits of RandNum.
DigitSum[n \in Nat] == IF n = 0 THEN 0 ELSE (n % 10) + DigitSum[n \div 10]

Result(j) == [job |-> j, sum |-> DigitSum[RandNums[j]]]

ProcessAlive == main \notin {"exited", "panic"}

Init ==
  /\ main = "produce"
  /\ jobChan = << >>
  /\ resultChan = << >>
  /\ worker = [w \in Workers |-> Receiving]
  /\ produced = 0
  /\ printed = << >>

(***************************************************************************)
(* main                                                                    *)
(***************************************************************************)

Produce ==
  /\ main = "produce" /\ produced < NumJobs
  /\ Len(jobChan) < JobCap
  /\ produced' = produced + 1
  /\ jobChan' = Append(jobChan, produced + 1)
  /\ UNCHANGED <<main, resultChan, worker, printed>>

CloseJobs ==
  /\ main = "produce" /\ produced = NumJobs
  /\ main' = "sleep"
  /\ UNCHANGED <<jobChan, resultChan, worker, produced, printed>>

\* The sleep lasts two seconds, however far the others have got by then.
CloseResults ==
  /\ main = "sleep"
  /\ main' = "closed"
  /\ UNCHANGED <<jobChan, resultChan, worker, produced, printed>>

Exit ==
  /\ main = "closed"
  /\ main' = "exited"
  /\ UNCHANGED <<jobChan, resultChan, worker, produced, printed>>

(***************************************************************************)
(* Worker w                                                                *)
(***************************************************************************)

\* Mutant of TakeJob: the job is only looked at, not received.
TakeJobPeeking(w) ==
  /\ ProcessAlive
  /\ worker[w] = Receiving
  /\ jobChan # << >>
  /\ worker' = [worker EXCEPT ![w] = [at |-> "send", job |-> Head(jobChan)]]
  /\ UNCHANGED <<main, jobChan, resultChan, produced, printed>>

TakeJob(w) ==
  /\ ProcessAlive
  /\ worker[w] = Receiving
  /\ jobChan # << >>
  /\ jobChan' = Tail(jobChan)
  /\ worker' = [worker EXCEPT ![w] = [at |-> "send", job |-> Head(jobChan)]]
  /\ UNCHANGED <<main, resultChan, produced, printed>>

\* Mutant of SendResult: one result, then the worker returns.
SendOneResult(w) ==
  /\ ProcessAlive
  /\ worker[w].at = "send"
  /\ main # "closed" /\ Len(resultChan) < ResultCap
  /\ resultChan' = Append(resultChan, Result(worker[w].job))
  /\ worker' = [worker EXCEPT ![w] = Gone]
  /\ UNCHANGED <<main, jobChan, produced, printed>>

\* Mutant of SendResult: the worker may send the result of its job again.
SendResultAgain(w) ==
  /\ ProcessAlive
  /\ worker[w].at = "send"
  /\ IF main = "closed"
     THEN main' = "panic" /\ UNCHANGED <<resultChan, worker>>
     ELSE /\ Len(resultChan) < ResultCap
          /\ resultChan' = Append(resultChan, Result(worker[w].job))
          /\ worker' \in {worker, [worker EXCEPT ![w] = Receiving]}
          /\ UNCHANGED main
  /\ UNCHANGED <<jobChan, produced, printed>>

\* A send on the closed resultChan panics, which ends the process; so does one
\* that was blocked on the full channel when main closed it.
SendResult(w) ==
  /\ ProcessAlive
  /\ worker[w].at = "send"
  /\ IF main = "closed"
     THEN main' = "panic" /\ UNCHANGED <<resultChan, worker>>
     ELSE /\ Len(resultChan) < ResultCap
          /\ resultChan' = Append(resultChan, Result(worker[w].job))
          /\ worker' = [worker EXCEPT ![w] = Receiving]
          /\ UNCHANGED main
  /\ UNCHANGED <<jobChan, produced, printed>>

\* range jobChan ends once the channel is closed and empty.
WorkerReturns(w) ==
  /\ main \in {"sleep", "closed"}
  /\ worker[w] = Receiving
  /\ jobChan = << >>
  /\ worker' = [worker EXCEPT ![w] = Gone]
  /\ UNCHANGED <<main, jobChan, resultChan, produced, printed>>

(***************************************************************************)
(* The printer; closing resultChan leaves it what is still in the buffer.  *)
(***************************************************************************)

PrintResult ==
  /\ ProcessAlive
  /\ resultChan # << >>
  /\ printed' = Append(printed, Head(resultChan))
  /\ resultChan' = Tail(resultChan)
  /\ UNCHANGED <<main, jobChan, worker, produced>>

WorkerStep(w) == TakeJob(w) \/ SendResult(w) \/ WorkerReturns(w)

Next ==
  \/ Produce \/ CloseJobs \/ CloseResults \/ Exit
  \/ \E w \in Workers : WorkerStep(w)
  \/ PrintResult
  \/ ~ProcessAlive /\ UNCHANGED vars

Spec == Init /\ [][Next]_vars

\* Goroutines that can run do run.  The end of the sleep is not among what must
\* happen: the properties below hold however long main sleeps.
Fairness ==
  /\ WF_vars(Produce \/ CloseJobs)
  /\ WF_vars(PrintResult)
  /\ \A w \in Workers : WF_vars(WorkerStep(w))

(***************************************************************************)
(* Properties                                                              *)
(***************************************************************************)

InJobChan(j)    == {i \in DOMAIN jobChan : jobChan[i] = j}
InHand(j)       == {w \in Workers : worker[w].job = j}
InResultChan(j) == {i \in DOMAIN resultChan : resultChan[i].job = j}
OnPaper(j)      == {i \in DOMAIN printed : printed[i].job = j}

\* A job that main has sent is in exactly one place, a channel, the hands of one
\* worker or the output, and a job not sent yet is nowhere: none is lost, none is
\* worked on twice, whichever of the workers compete for it.
EachJobOnce ==
  \A j \in Jobs :
    Cardinality(InJobChan(j)) + Cardinality(InHand(j))
      + Cardinality(InResultChan(j)) + Cardinality(OnPaper(j))
    = IF j <= produced THEN 1 ELSE 0

\* The process panics only if main woke up too early: all workers are done and
\* nothing can panic once the last result has been printed.
PanicOnlyIfLate == main = "panic" => Len(printed) < NumJobs

\* The bounded channels never lock producer, workers and printer up: main gets rid of
\* all its jobs, and the pool empties while it sleeps.  Every result is printed in the
\* end, unless main wakes up before.
AllPrintedUnlessWoken == <>(Len(printed) = NumJobs \/ main \notin {"produce", "sleep"})

=============================================================================
