--------------------------- MODULE GoroutinesProofs ---------------------------
(***************************************************************************)
(* For every number of tasks, jobs, slots and workers and all capacities   *)
(* of the channels.  The worker pool (over PoolInv): no job is lost or     *)
(* done twice, and the process panics only when a result is missing on     *)
(* paper.  The task limiter (over LimiterInv): the channel bounds the      *)
(* running tasks and is closed after its last use.                         *)
(***************************************************************************)
EXTENDS MCGoroutines, FiniteSetTheorems, FunctionTheorems, SequenceTheorems, TLAPS

-----------------------------------------------------------------------------
(* The worker pool                                                         *)
-----------------------------------------------------------------------------
\* The results that are due, one for each job.
Results == {Result(j) : j \in Jobs}

\* The types of the variables of the pool.
PoolTypeOK ==
  /\ main \in {"produce", "sleep", "closed", "exited", "panic"}
  /\ jobChan \in Seq(Jobs)
  /\ resultChan \in Seq(Results)
  /\ worker \in [Workers -> [at : {"receive", "send", "gone"}, job : 0 .. NumJobs]]
  /\ produced \in 0 .. NumJobs
  /\ printed \in Seq(Results)

\* A worker holds a job exactly while it wants to send, and after a panic the
\* worker that caused it still does.
PoolInv ==
  /\ PoolTypeOK
  /\ \A w \in Workers : worker[w].at = "send" <=> worker[w].job # 0
  /\ EachJobOnce
  /\ main = "panic" => \E w \in Workers : worker[w].at = "send"

-----------------------------------------------------------------------------
\* The positions of a sequence at which an element of T is.
At(s, T) == {i \in DOMAIN s : s[i] \in T}

\* The results of job j.
Of(j) == {r \in Results : r.job = j}

\* Jobs are numbered from 1.
LEMMA JobsAreNat == NumJobs \in Nat /\ 0 \notin Jobs /\ Jobs \subseteq Nat
<1>1. NumJobs \in Nat
  BY PoolAssumption, LenProperties DEF NumJobs
<1> QED BY <1>1 DEF Jobs

\* There are finitely many workers.
LEMMA WorkersFinite == IsFiniteSet(Workers)
BY FS_Interval, PoolAssumption DEF Workers

\* Finitely many positions of a sequence are in question.
LEMMA AtFinite ==
  ASSUME NEW S, NEW s \in Seq(S), NEW T
  PROVE  IsFiniteSet(At(s, T)) /\ Cardinality(At(s, T)) \in Nat
<1>1. DOMAIN s = 1 .. Len(s) /\ Len(s) \in Nat
  BY LenProperties
<1>2. IsFiniteSet(DOMAIN s)
  BY <1>1, FS_Interval
<1>3. IsFiniteSet(At(s, T))
  BY <1>2, FS_Subset DEF At
<1> QED BY <1>3, FS_CardinalityType

\* Appending e adds one position if e is in T.
LEMMA AtAppend ==
  ASSUME NEW S, NEW s \in Seq(S), NEW T, NEW e \in S
  PROVE  Cardinality(At(Append(s, e), T)) =
           Cardinality(At(s, T)) + (IF e \in T THEN 1 ELSE 0)
<1> DEFINE a == Append(s, e)
<1>1. /\ Len(s) \in Nat /\ DOMAIN s = 1 .. Len(s)
      /\ a \in Seq(S) /\ Len(a) = Len(s) + 1 /\ DOMAIN a = 1 .. Len(a)
      /\ \A i \in 1 .. Len(s) : a[i] = s[i]
      /\ a[Len(s) + 1] = e
  BY AppendProperties, LenProperties
<1>2. At(a, T) = IF e \in T THEN At(s, T) \cup {Len(s) + 1} ELSE At(s, T)
  <2> HIDE DEF a
  <2> QED BY <1>1 DEF At
<1>3. Len(s) + 1 \notin At(s, T)
  BY <1>1 DEF At
<1>4. IsFiniteSet(At(s, T)) /\ Cardinality(At(s, T)) \in Nat
  BY AtFinite
<1>5. CASE e \in T
  <2>1. Cardinality(At(s, T) \cup {Len(s) + 1}) = Cardinality(At(s, T)) + 1
    BY <1>3, <1>4, FS_AddElement
  <2> QED BY <1>2, <1>5, <2>1
<1>6. CASE e \notin T
  BY <1>2, <1>4, <1>6
<1> QED BY <1>5, <1>6

\* Taking the head away removes one position if the head is in T.
LEMMA AtTail ==
  ASSUME NEW S, NEW s \in Seq(S), s # << >>, NEW T
  PROVE  Cardinality(At(Tail(s), T)) =
           Cardinality(At(s, T)) - (IF Head(s) \in T THEN 1 ELSE 0)
<1> DEFINE t == Tail(s)
           Rest == At(s, T) \ {1}
           shift == [i \in At(t, T) |-> i + 1]
<1>1. /\ Len(s) \in Nat \ {0} /\ DOMAIN s = 1 .. Len(s)
      /\ Len(t) = Len(s) - 1 /\ DOMAIN t = 1 .. Len(t)
      /\ \A i \in 1 .. Len(t) : t[i] = s[i + 1]
  BY HeadTailProperties, LenProperties, EmptySeq
<1>2. shift \in Bijection(At(t, T), Rest)
  <2> HIDE DEF t
  <2>1. \A i \in At(t, T) : i \in Nat \ {0} /\ i + 1 \in Rest
    BY <1>1 DEF At
  <2>2. shift \in [At(t, T) -> Rest]
    BY <2>1
  <2>3. \A i, k \in At(t, T) : shift[i] = shift[k] => i = k
    BY <2>1
  <2>4. \A k \in Rest : \E i \in At(t, T) : shift[i] = k
    <3> TAKE k \in Rest
    <3>1. k - 1 \in At(t, T)
      BY <1>1 DEF At
    <3>2. shift[k - 1] = k
      BY <1>1, <3>1 DEF At
    <3> QED BY <3>1, <3>2
  <2> QED BY <2>2, <2>3, <2>4 DEF Bijection, Injection, Surjection, IsInjective
<1>3. IsFiniteSet(At(t, T)) /\ IsFiniteSet(At(s, T)) /\ Cardinality(At(s, T)) \in Nat
  BY AtFinite, HeadTailProperties
<1>4. Cardinality(Rest) = Cardinality(At(t, T))
  BY <1>2, <1>3, FS_Bijection DEF ExistsBijection
<1>5. Cardinality(Rest) = IF 1 \in At(s, T) THEN Cardinality(At(s, T)) - 1
                                            ELSE Cardinality(At(s, T))
  BY <1>3, FS_RemoveElement
<1>6. 1 \in At(s, T) <=> Head(s) \in T
  BY <1>1 DEF At
<1> HIDE DEF t, Rest
<1> QED BY <1>3, <1>4, <1>5, <1>6 DEF t

-----------------------------------------------------------------------------
\* Where job j is, in terms of At, and that all counts are numbers.
LEMMA Places ==
  ASSUME PoolTypeOK, NEW j \in Jobs
  PROVE  /\ InJobChan(j) = At(jobChan, {j})
         /\ InResultChan(j) = At(resultChan, Of(j))
         /\ OnPaper(j) = At(printed, Of(j))
         /\ IsFiniteSet(InHand(j)) /\ IsFiniteSet(OnPaper(j))
         /\ Cardinality(InJobChan(j)) \in Nat /\ Cardinality(InHand(j)) \in Nat
         /\ Cardinality(InResultChan(j)) \in Nat /\ Cardinality(OnPaper(j)) \in Nat
<1>1. \A i \in DOMAIN resultChan : resultChan[i] \in Results
  BY ElementOfSeq, LenProperties DEF PoolTypeOK
<1>2. \A i \in DOMAIN printed : printed[i] \in Results
  BY ElementOfSeq, LenProperties DEF PoolTypeOK
<1>3. InJobChan(j) = At(jobChan, {j})
  BY DEF InJobChan, At
<1>4. InResultChan(j) = At(resultChan, Of(j))
  BY <1>1 DEF InResultChan, At, Of
<1>5. OnPaper(j) = At(printed, Of(j))
  BY <1>2 DEF OnPaper, At, Of
<1>6. IsFiniteSet(InHand(j)) /\ Cardinality(InHand(j)) \in Nat
  BY WorkersFinite, FS_Subset, FS_CardinalityType DEF InHand
<1>7. jobChan \in Seq(Jobs) /\ resultChan \in Seq(Results) /\ printed \in Seq(Results)
  BY DEF PoolTypeOK
<1> QED BY <1>3, <1>4, <1>5, <1>6, <1>7, AtFinite

\* A worker that takes job d is one more hand on d and on nothing else.
LEMMA TakeInHand ==
  ASSUME PoolTypeOK, NEW w \in Workers, NEW d \in Jobs, NEW j \in Jobs,
         worker[w].job = 0,
         worker' = [worker EXCEPT ![w] = [at |-> "send", job |-> d]]
  PROVE  Cardinality(InHand(j)') =
           Cardinality(InHand(j)) + (IF j = d THEN 1 ELSE 0)
<1>1. InHand(j)' = IF j = d THEN InHand(j) \cup {w} ELSE InHand(j)
  BY JobsAreNat DEF InHand, PoolTypeOK
<1>2. w \notin InHand(j)
  BY JobsAreNat DEF InHand
<1>3. IsFiniteSet(InHand(j)) /\ Cardinality(InHand(j)) \in Nat
  BY Places
<1>4. Cardinality(InHand(j) \cup {w}) = Cardinality(InHand(j)) + 1
  BY <1>2, <1>3, FS_AddElement
<1> QED BY <1>1, <1>3, <1>4

\* A worker that is rid of its job is one hand fewer on it.
LEMMA DropInHand ==
  ASSUME PoolTypeOK, NEW w \in Workers, NEW j \in Jobs,
         worker' = [worker EXCEPT ![w] = Receiving]
  PROVE  Cardinality(InHand(j)') =
           Cardinality(InHand(j)) - (IF j = worker[w].job THEN 1 ELSE 0)
<1>1. InHand(j)' = IF j = worker[w].job THEN InHand(j) \ {w} ELSE InHand(j)
  BY JobsAreNat DEF InHand, PoolTypeOK, Receiving
<1>2. w \in InHand(j) <=> j = worker[w].job
  BY DEF InHand
<1>3. IsFiniteSet(InHand(j)) /\ Cardinality(InHand(j)) \in Nat
  BY Places
<1>4. Cardinality(InHand(j) \ {w}) =
        IF w \in InHand(j) THEN Cardinality(InHand(j)) - 1 ELSE Cardinality(InHand(j))
  BY <1>3, FS_RemoveElement
<1> QED BY <1>1, <1>2, <1>3, <1>4

\* A result is that of one job.
LEMMA ResultOf ==
  ASSUME NEW j \in Jobs, NEW k \in Jobs
  PROVE  Result(k) \in Results /\ Result(k).job = k /\ (Result(k) \in Of(j) <=> j = k)
BY DEF Results, Result, Of

\* At the start no job is anywhere.
LEMMA PoolInit == Init => PoolInv
<1> SUFFICES ASSUME Init PROVE PoolInv
  OBVIOUS
<1>1. << >> \in Seq(Jobs) /\ << >> \in Seq(Results) /\ 0 \in 0 .. NumJobs
  BY JobsAreNat
<1>2. PoolTypeOK
  BY <1>1, JobsAreNat DEF Init, PoolTypeOK, Receiving
<1>3. EachJobOnce
  <2>1. SUFFICES ASSUME NEW j \in Jobs
                 PROVE  InJobChan(j) = {} /\ InHand(j) = {}
                        /\ InResultChan(j) = {} /\ OnPaper(j) = {} /\ ~(j <= produced)
    BY <2>1, FS_EmptySet DEF EachJobOnce
  <2>2. DOMAIN << >> = {}
    BY LenProperties
  <2>3. InHand(j) = {}
    BY JobsAreNat DEF Init, InHand, Receiving
  <2>4. ~(j <= produced)
    BY JobsAreNat DEF Init, Jobs
  <2> QED BY <2>2, <2>3, <2>4 DEF Init, InJobChan, InResultChan, OnPaper
<1>4. \A w \in Workers : worker[w].at = "send" <=> worker[w].job # 0
  BY DEF Init, Receiving
<1> QED BY <1>2, <1>3, <1>4 DEF PoolInv, Init

-----------------------------------------------------------------------------
\* A step after which each job is in as many places as EachJobOnce says.
LEMMA OneJobAtATime ==
  ASSUME EachJobOnce, NEW j \in Jobs
  PROVE  Cardinality(InJobChan(j)) + Cardinality(InHand(j))
           + Cardinality(InResultChan(j)) + Cardinality(OnPaper(j))
         = IF j <= produced THEN 1 ELSE 0
BY DEF EachJobOnce

\* main sends one job more.
LEMMA ProduceStep == PoolInv /\ Produce => PoolInv'
<1> SUFFICES ASSUME PoolInv, Produce PROVE PoolInv'
  OBVIOUS
<1>1. produced + 1 \in Jobs /\ produced \in Nat
  BY JobsAreNat DEF PoolInv, PoolTypeOK, Produce, Jobs
<1>2. PoolTypeOK'
  <2>1. jobChan' \in Seq(Jobs)
    BY <1>1, AppendProperties DEF PoolInv, PoolTypeOK, Produce
  <2>2. produced' \in 0 .. NumJobs
    BY <1>1, JobsAreNat DEF Produce, Jobs
  <2> QED BY <2>1, <2>2 DEF PoolInv, PoolTypeOK, Produce
<1>3. ASSUME NEW j \in Jobs
      PROVE  Cardinality(InJobChan(j)') + Cardinality(InHand(j)')
               + Cardinality(InResultChan(j)') + Cardinality(OnPaper(j)')
             = IF j <= produced' THEN 1 ELSE 0
  <2>1. Cardinality(At(jobChan', {j})) =
          Cardinality(At(jobChan, {j})) + (IF produced + 1 = j THEN 1 ELSE 0)
    BY <1>1, AtAppend DEF PoolInv, PoolTypeOK, Produce
  <2>2. Cardinality(InJobChan(j)') =
          Cardinality(InJobChan(j)) + (IF produced + 1 = j THEN 1 ELSE 0)
    BY <2>1 DEF InJobChan, At
  <2>3. /\ InHand(j)' = InHand(j) /\ InResultChan(j)' = InResultChan(j)
        /\ OnPaper(j)' = OnPaper(j)
    BY DEF Produce, InHand, InResultChan, OnPaper
  <2>4. j \in Nat /\ produced' = produced + 1
    BY JobsAreNat DEF Produce
  <2>5. (j <= produced' <=> (j <= produced \/ j = produced + 1))
        /\ ~(j <= produced /\ j = produced + 1)
    BY <1>1, <2>4
  <2>6. /\ Cardinality(InJobChan(j)) \in Nat /\ Cardinality(InHand(j)) \in Nat
        /\ Cardinality(InResultChan(j)) \in Nat /\ Cardinality(OnPaper(j)) \in Nat
    BY Places DEF PoolInv
  <2>7. Cardinality(InJobChan(j)) + Cardinality(InHand(j))
          + Cardinality(InResultChan(j)) + Cardinality(OnPaper(j))
        = IF j <= produced THEN 1 ELSE 0
    BY OneJobAtATime DEF PoolInv
  <2> QED BY <2>2, <2>3, <2>5, <2>6, <2>7
<1> QED BY <1>2, <1>3 DEF PoolInv, Produce, EachJobOnce

\* A job goes from the channel into the hands of one worker.
LEMMA TakeJobStep ==
  ASSUME PoolInv, NEW w \in Workers, TakeJob(w) PROVE PoolInv'
<1> DEFINE d == Head(jobChan)
<1>1. /\ jobChan \in Seq(Jobs) /\ jobChan # << >> /\ d \in Jobs
      /\ jobChan' = Tail(jobChan) /\ Tail(jobChan) \in Seq(Jobs)
      /\ worker' = [worker EXCEPT ![w] = [at |-> "send", job |-> d]]
  BY HeadTailProperties DEF PoolInv, PoolTypeOK, TakeJob
<1>2. d # 0 /\ d \in 0 .. NumJobs
  BY <1>1, JobsAreNat DEF Jobs
<1> HIDE DEF d
<1>3. PoolTypeOK'
  BY <1>1, <1>2 DEF PoolInv, PoolTypeOK, TakeJob
<1>4. ASSUME NEW j \in Jobs
      PROVE  Cardinality(InJobChan(j)') + Cardinality(InHand(j)')
               + Cardinality(InResultChan(j)') + Cardinality(OnPaper(j)')
             = IF j <= produced' THEN 1 ELSE 0
  <2>1. Cardinality(At(jobChan', {j})) =
          Cardinality(At(jobChan, {j})) - (IF d = j THEN 1 ELSE 0)
    BY <1>1, AtTail DEF d
  <2>2. Cardinality(InJobChan(j)') =
          Cardinality(InJobChan(j)) - (IF d = j THEN 1 ELSE 0)
    BY <2>1 DEF InJobChan, At
  <2>3. worker[w].job = 0
    BY DEF TakeJob, Receiving
  <2>4. Cardinality(InHand(j)') = Cardinality(InHand(j)) + (IF j = d THEN 1 ELSE 0)
    BY <1>1, <2>3, TakeInHand DEF PoolInv
  <2>5. /\ InResultChan(j)' = InResultChan(j) /\ OnPaper(j)' = OnPaper(j)
        /\ produced' = produced
    BY DEF TakeJob, InResultChan, OnPaper
  <2>6. /\ Cardinality(InJobChan(j)) \in Nat /\ Cardinality(InHand(j)) \in Nat
        /\ Cardinality(InResultChan(j)) \in Nat /\ Cardinality(OnPaper(j)) \in Nat
    BY Places DEF PoolInv
  <2>7. Cardinality(InJobChan(j)) + Cardinality(InHand(j))
          + Cardinality(InResultChan(j)) + Cardinality(OnPaper(j))
        = IF j <= produced THEN 1 ELSE 0
    BY OneJobAtATime DEF PoolInv
  <2> QED BY <2>2, <2>4, <2>5, <2>6, <2>7
<1>5. \A v \in Workers : worker'[v].at = "send" <=> worker'[v].job # 0
  BY <1>1, <1>2 DEF PoolInv, PoolTypeOK
<1>6. main' = main /\ main # "panic"
  BY DEF TakeJob, ProcessAlive
<1> QED BY <1>3, <1>4, <1>5, <1>6 DEF PoolInv, EachJobOnce

\* A job goes from the hands of a worker into the result channel, or the process panics.
LEMMA SendResultStep ==
  ASSUME PoolInv, NEW w \in Workers, SendResult(w) PROVE PoolInv'
<1> DEFINE d == worker[w].job
<1>1. d \in Jobs /\ worker[w].at = "send"
  BY JobsAreNat DEF PoolInv, PoolTypeOK, SendResult, Jobs
<1>2. CASE main = "closed"
  <2>1. main' = "panic" /\ UNCHANGED <<jobChan, resultChan, worker, produced, printed>>
    BY <1>2 DEF SendResult
  <2>2. PoolTypeOK'
    BY <2>1 DEF PoolInv, PoolTypeOK
  <2>3. EachJobOnce'
    BY <2>1 DEF PoolInv, EachJobOnce, InJobChan, InHand, InResultChan, OnPaper
  <2> QED BY <1>1, <2>1, <2>2, <2>3 DEF PoolInv
<1>3. CASE main # "closed"
  <2>1. /\ resultChan' = Append(resultChan, Result(d))
        /\ worker' = [worker EXCEPT ![w] = Receiving]
        /\ main' = main /\ main # "panic"
        /\ UNCHANGED <<jobChan, produced, printed>>
    BY <1>3 DEF SendResult, ProcessAlive
  <2>2. resultChan \in Seq(Results) /\ Result(d) \in Results
    BY <1>1, ResultOf DEF PoolInv, PoolTypeOK
  <2>3. PoolTypeOK'
    <3>1. resultChan' \in Seq(Results)
      BY <2>1, <2>2, AppendProperties
    <3> QED BY <2>1, <3>1, JobsAreNat DEF PoolInv, PoolTypeOK, Receiving
  <2>4. ASSUME NEW j \in Jobs
        PROVE  Cardinality(InJobChan(j)') + Cardinality(InHand(j)')
                 + Cardinality(InResultChan(j)') + Cardinality(OnPaper(j)')
               = IF j <= produced' THEN 1 ELSE 0
    <3>1. Cardinality(At(resultChan', Of(j))) =
            Cardinality(At(resultChan, Of(j))) + (IF j = d THEN 1 ELSE 0)
      BY <1>1, <2>1, <2>2, AtAppend, ResultOf
    <3>2. InResultChan(j)' = At(resultChan', Of(j))
      <4>1. \A i \in DOMAIN resultChan' : resultChan'[i] \in Results
        BY <2>3, ElementOfSeq, LenProperties DEF PoolTypeOK
      <4> QED BY <4>1 DEF InResultChan, At, Of
    <3>3. Cardinality(InHand(j)') = Cardinality(InHand(j)) - (IF j = d THEN 1 ELSE 0)
      BY <2>1, DropInHand DEF PoolInv
    <3>4. /\ InJobChan(j)' = InJobChan(j) /\ OnPaper(j)' = OnPaper(j)
          /\ produced' = produced
      BY <2>1 DEF InJobChan, OnPaper
    <3> HIDE DEF d
    <3>5. Cardinality(InResultChan(j)') =
            Cardinality(InResultChan(j)) + (IF j = d THEN 1 ELSE 0)
      BY <3>1, <3>2, Places DEF PoolInv
    <3>6. /\ Cardinality(InJobChan(j)) \in Nat /\ Cardinality(InHand(j)) \in Nat
          /\ Cardinality(InResultChan(j)) \in Nat /\ Cardinality(OnPaper(j)) \in Nat
      BY Places DEF PoolInv
    <3>7. Cardinality(InJobChan(j)) + Cardinality(InHand(j))
            + Cardinality(InResultChan(j)) + Cardinality(OnPaper(j))
          = IF j <= produced THEN 1 ELSE 0
      BY OneJobAtATime DEF PoolInv
    <3> QED BY <3>3, <3>4, <3>5, <3>6, <3>7
  <2>5. \A v \in Workers : worker'[v].at = "send" <=> worker'[v].job # 0
    BY <2>1 DEF PoolInv, PoolTypeOK, Receiving
  <2> QED BY <2>1, <2>3, <2>4, <2>5 DEF PoolInv, EachJobOnce
<1> QED BY <1>2, <1>3

\* A result goes from the channel to the output.
LEMMA PrintResultStep == PoolInv /\ PrintResult => PoolInv'
<1> SUFFICES ASSUME PoolInv, PrintResult PROVE PoolInv'
  OBVIOUS
<1> DEFINE r == Head(resultChan)
<1>1. /\ resultChan \in Seq(Results) /\ resultChan # << >> /\ r \in Results
      /\ resultChan' = Tail(resultChan) /\ Tail(resultChan) \in Seq(Results)
      /\ printed \in Seq(Results) /\ printed' = Append(printed, r)
      /\ UNCHANGED <<main, jobChan, worker, produced>>
  BY HeadTailProperties DEF PoolInv, PoolTypeOK, PrintResult
<1> HIDE DEF r
<1>2. PoolTypeOK'
  <2>1. printed' \in Seq(Results)
    BY <1>1, AppendProperties
  <2> QED BY <1>1, <2>1 DEF PoolInv, PoolTypeOK
<1>3. ASSUME NEW j \in Jobs
      PROVE  Cardinality(InJobChan(j)') + Cardinality(InHand(j)')
               + Cardinality(InResultChan(j)') + Cardinality(OnPaper(j)')
             = IF j <= produced' THEN 1 ELSE 0
  <2>1. Cardinality(At(resultChan', Of(j))) =
          Cardinality(At(resultChan, Of(j))) - (IF r \in Of(j) THEN 1 ELSE 0)
    BY <1>1, AtTail DEF r
  <2>2. Cardinality(At(printed', Of(j))) =
          Cardinality(At(printed, Of(j))) + (IF r \in Of(j) THEN 1 ELSE 0)
    BY <1>1, AtAppend
  <2>3. InResultChan(j)' = At(resultChan', Of(j)) /\ OnPaper(j)' = At(printed', Of(j))
    <3>1. /\ \A i \in DOMAIN resultChan' : resultChan'[i] \in Results
          /\ \A i \in DOMAIN printed' : printed'[i] \in Results
      BY <1>2, ElementOfSeq, LenProperties DEF PoolTypeOK
    <3> QED BY <3>1 DEF InResultChan, OnPaper, At, Of
  <2>4. /\ InJobChan(j)' = InJobChan(j) /\ InHand(j)' = InHand(j)
        /\ produced' = produced
    BY <1>1 DEF InJobChan, InHand
  <2>5. /\ Cardinality(InResultChan(j)') =
             Cardinality(InResultChan(j)) - (IF r \in Of(j) THEN 1 ELSE 0)
        /\ Cardinality(OnPaper(j)') =
             Cardinality(OnPaper(j)) + (IF r \in Of(j) THEN 1 ELSE 0)
    BY <2>1, <2>2, <2>3, Places DEF PoolInv
  <2>6. /\ Cardinality(InJobChan(j)) \in Nat /\ Cardinality(InHand(j)) \in Nat
        /\ Cardinality(InResultChan(j)) \in Nat /\ Cardinality(OnPaper(j)) \in Nat
    BY Places DEF PoolInv
  <2>7. Cardinality(InJobChan(j)) + Cardinality(InHand(j))
          + Cardinality(InResultChan(j)) + Cardinality(OnPaper(j))
        = IF j <= produced THEN 1 ELSE 0
    BY OneJobAtATime DEF PoolInv
  <2> QED BY <2>4, <2>5, <2>6, <2>7
<1> QED BY <1>1, <1>2, <1>3 DEF PoolInv, EachJobOnce

\* The end of a worker that holds nothing moves no job.
LEMMA WorkerReturnsStep ==
  ASSUME PoolInv, NEW w \in Workers, WorkerReturns(w) PROVE PoolInv'
<1>1. /\ worker' = [worker EXCEPT ![w] = Gone] /\ worker[w].job = 0
      /\ UNCHANGED <<main, jobChan, resultChan, produced, printed>>
      /\ main # "panic"
  BY DEF WorkerReturns, Receiving
<1>2. PoolTypeOK'
  BY <1>1, JobsAreNat DEF PoolInv, PoolTypeOK, Gone
<1>3. ASSUME NEW j \in Jobs PROVE InHand(j)' = InHand(j)
  BY <1>1, JobsAreNat DEF PoolInv, PoolTypeOK, InHand, Gone
<1>4. EachJobOnce'
  BY <1>1, <1>3 DEF PoolInv, EachJobOnce, InJobChan, InResultChan, OnPaper
<1>5. \A v \in Workers : worker'[v].at = "send" <=> worker'[v].job # 0
  BY <1>1 DEF PoolInv, PoolTypeOK, Gone
<1> QED BY <1>1, <1>2, <1>4, <1>5 DEF PoolInv

\* The closes, the end of main, and nothing at all leave the jobs alone.
LEMMA QuietStep ==
  PoolInv /\ (CloseJobs \/ CloseResults \/ Exit \/ UNCHANGED vars) => PoolInv'
<1> SUFFICES ASSUME PoolInv, CloseJobs \/ CloseResults \/ Exit \/ UNCHANGED vars
             PROVE  PoolInv'
  OBVIOUS
<1>1. /\ UNCHANGED <<jobChan, resultChan, worker, produced, printed>>
      /\ main' \in {"sleep", "closed", "exited", main}
  BY DEF CloseJobs, CloseResults, Exit, vars
<1>2. EachJobOnce'
  BY <1>1 DEF PoolInv, EachJobOnce, InJobChan, InHand, InResultChan, OnPaper
<1>3. PoolTypeOK'
  BY <1>1 DEF PoolInv, PoolTypeOK
<1> QED BY <1>1, <1>2, <1>3 DEF PoolInv

\* No step loses a job or makes two of it.
LEMMA PoolStep == PoolInv /\ [Next]_vars => PoolInv'
<1> SUFFICES ASSUME PoolInv, [Next]_vars PROVE PoolInv'
  OBVIOUS
<1>1. ASSUME NEW w \in Workers, WorkerStep(w) PROVE PoolInv'
  BY <1>1, TakeJobStep, SendResultStep, WorkerReturnsStep DEF WorkerStep
<1> QED BY <1>1, ProduceStep, PrintResultStep, QuietStep DEF Next

\* The invariant of the pool holds throughout.
LEMMA PoolInvariant == Spec => []PoolInv
BY PoolInit, PoolStep, PTL DEF Spec

\* However many workers compete for the jobs and whenever main wakes up, a job
\* that was sent is in one place and a job not sent yet is nowhere.
THEOREM JobsAreConserved == Spec => []EachJobOnce
<1>1. PoolInv => EachJobOnce
  BY DEF PoolInv
<1> QED BY <1>1, PoolInvariant, PTL

\* Each result is printed once at most, so that a job in the hand of a worker
\* leaves a gap on paper.
LEMMA GapOnPaper ==
  ASSUME PoolInv, NEW w \in Workers, worker[w].at = "send"
  PROVE  Len(printed) < NumJobs
<1> DEFINE d == worker[w].job
           jobOf == [i \in DOMAIN printed |-> printed[i].job]
<1>1. d \in Jobs
  BY JobsAreNat DEF PoolInv, PoolTypeOK, Jobs
<1>2. DOMAIN printed = 1 .. Len(printed) /\ Len(printed) \in Nat
      /\ IsFiniteSet(DOMAIN printed) /\ Cardinality(DOMAIN printed) = Len(printed)
  <2>1. DOMAIN printed = 1 .. Len(printed) /\ Len(printed) \in Nat
    BY LenProperties DEF PoolInv, PoolTypeOK
  <2> DEFINE n == Len(printed)
  <2> HIDE DEF n
  <2>2. n \in Nat
    BY <2>1 DEF n
  <2>3. IsFiniteSet(1 .. n) /\ Cardinality(1 .. n) = n
    BY <2>2, FS_Interval
  <2> QED BY <2>1, <2>3 DEF n
<1>3. ASSUME NEW i \in DOMAIN printed PROVE printed[i].job \in Jobs
  <2>1. printed[i] \in Results
    BY <1>2, ElementOfSeq DEF PoolInv, PoolTypeOK
  <2> QED BY <2>1 DEF Results, Result
<1>4. ASSUME NEW j \in Jobs
      PROVE  /\ Cardinality(InHand(j)) \in Nat /\ Cardinality(OnPaper(j)) \in Nat
             /\ Cardinality(InHand(j)) + Cardinality(OnPaper(j)) <= 1
             /\ IsFiniteSet(InHand(j)) /\ IsFiniteSet(OnPaper(j))
  <2>1. /\ Cardinality(InJobChan(j)) \in Nat /\ Cardinality(InHand(j)) \in Nat
        /\ Cardinality(InResultChan(j)) \in Nat /\ Cardinality(OnPaper(j)) \in Nat
        /\ IsFiniteSet(InHand(j)) /\ IsFiniteSet(OnPaper(j))
    BY Places DEF PoolInv
  <2>2. Cardinality(InJobChan(j)) + Cardinality(InHand(j))
          + Cardinality(InResultChan(j)) + Cardinality(OnPaper(j)) <= 1
    BY OneJobAtATime DEF PoolInv
  <2> QED BY <2>1, <2>2
<1>5. ASSUME NEW i \in DOMAIN printed PROVE printed[i].job # d
  <2> SUFFICES ASSUME printed[i].job = d PROVE FALSE
    OBVIOUS
  <2>1. w \in InHand(d) /\ i \in OnPaper(d)
    BY DEF InHand, OnPaper
  <2>2. Cardinality(InHand(d)) # 0 /\ Cardinality(OnPaper(d)) # 0
    BY <1>1, <1>4, <2>1, FS_EmptySet
  <2> QED BY <1>1, <1>4, <2>2
<1>6. ASSUME NEW i \in DOMAIN printed, NEW k \in DOMAIN printed,
             printed[i].job = printed[k].job
      PROVE  i = k
  <2> DEFINE j == printed[i].job
  <2>1. j \in Jobs /\ i \in OnPaper(j) /\ k \in OnPaper(j)
    BY <1>3, <1>6 DEF OnPaper
  <2>2. Cardinality(OnPaper(j)) = 1
    <3>1. Cardinality(OnPaper(j)) # 0
      BY <1>4, <2>1, FS_EmptySet
    <3> QED BY <1>4, <2>1, <3>1
  <2>3. PICK x : OnPaper(j) = {x}
    BY <1>4, <2>1, <2>2, FS_Singleton
  <2> QED BY <2>1, <2>3
<1>7. jobOf \in Injection(DOMAIN printed, Jobs \ {d})
  BY <1>3, <1>5, <1>6 DEF Injection, IsInjective
<1>8. IsFiniteSet(Jobs \ {d}) /\ Cardinality(Jobs \ {d}) = NumJobs - 1
  <2>1. IsFiniteSet(Jobs) /\ Cardinality(Jobs) = NumJobs
    BY JobsAreNat, FS_Interval DEF Jobs
  <2> QED BY <1>1, <2>1, FS_RemoveElement
<1>9. Cardinality(DOMAIN printed) <= Cardinality(Jobs \ {d})
  BY <1>7, <1>8, FS_Injection
<1> QED BY <1>2, <1>8, <1>9, JobsAreNat

\* A send on the closed channel can only happen while a result is missing: once
\* all of them are printed, nothing in the process can panic.
THEOREM PanicMeansLate == Spec => []PanicOnlyIfLate
<1>1. PoolInv => PanicOnlyIfLate
  BY GapOnPaper DEF PoolInv, PanicOnlyIfLate
<1> QED BY <1>1, PoolInvariant, PTL

-----------------------------------------------------------------------------
(* The task limiter                                                        *)
-----------------------------------------------------------------------------
\* What the limiter is given.
LEMMA LimiterSizes == TotalTasks \in Nat /\ MaxConcurrentTasks \in Nat \ {0}
BY LimiterAssumption DEF Limiter!SizesAssumption

\* The instance counts as this module does.
LEMMA LimiterCounts == \A S : Limiter!Cardinality(S) = Cardinality(S)
BY DEF Limiter!Cardinality, Cardinality

\* Sets of tasks are finite.
LEMMA TasksFinite ==
  ASSUME NEW S \in SUBSET Limiter!Tasks
  PROVE  IsFiniteSet(S) /\ Cardinality(S) \in Nat
<1>1. IsFiniteSet(Limiter!Tasks)
  BY LimiterSizes, FS_Interval DEF Limiter!Tasks
<1>2. IsFiniteSet(S)
  BY <1>1, FS_Subset
<1> QED BY <1>2, FS_CardinalityType

\* A task that runs holds a slot.
LEMMA HoldersAreTasks ==
  /\ Limiter!Holding \subseteq Limiter!Tasks /\ Limiter!Alive \subseteq Limiter!Tasks
  /\ Limiter!Running \subseteq Limiter!Holding
BY DEF Limiter!Holding, Limiter!Alive, Limiter!Running

\* At the start nobody holds a slot.
LEMMA LimiterInit == Limiter!Init => Limiter!LimiterInv
<1> SUFFICES ASSUME Limiter!Init PROVE Limiter!LimiterInv
  OBVIOUS
<1>1. Limiter!Holding = {} /\ Limiter!Alive = {}
  BY DEF Limiter!Init, Limiter!Holding, Limiter!Alive
<1>2. Limiter!TypeOK
  <2>1. << >> \in Seq(Limiter!Tasks) /\ 0 \in 0 .. TotalTasks
    BY LimiterSizes, EmptySeq
  <2> QED BY <2>1 DEF Limiter!Init, Limiter!TypeOK
<1>3. Len(taskCh) = 0
  BY EmptySeq DEF Limiter!Init
<1> QED BY LimiterCounts, <1>1, <1>2, <1>3, FS_EmptySet, LimiterSizes
        DEF Limiter!Init, Limiter!LimiterInv, Limiter!SlotsMatchHolders, Limiter!Tasks

\* The counts of the channel and of the WaitGroup survive every step.
LEMMA LimiterStep == Limiter!LimiterInv /\ [Limiter!Next]_(Limiter!vars) => Limiter!LimiterInv'
<1> SUFFICES ASSUME Limiter!LimiterInv, [Limiter!Next]_(Limiter!vars) PROVE Limiter!LimiterInv'
  OBVIOUS
<1>t. Limiter!TypeOK
  BY DEF Limiter!LimiterInv
<1>h. /\ Cardinality(Limiter!Holding) \in Nat /\ IsFiniteSet(Limiter!Holding)
      /\ Cardinality(Limiter!Alive) \in Nat /\ IsFiniteSet(Limiter!Alive)
  BY HoldersAreTasks, TasksFinite
<1>l. Len(taskCh) \in Nat /\ taskCh \in Seq(Limiter!Tasks)
  BY <1>t, LenProperties DEF Limiter!TypeOK
<1>1. CASE Limiter!Add
  <2>1. Limiter!Holding' = Limiter!Holding /\ Limiter!Alive' = Limiter!Alive
    BY <1>1 DEF Limiter!Add, Limiter!Holding, Limiter!Alive
  <2> QED BY LimiterCounts, <1>1, <2>1, <1>h
          DEF Limiter!Add, Limiter!LimiterInv, Limiter!TypeOK, Limiter!SlotsMatchHolders
<1>2. CASE Limiter!Go
  <2>1. spawned + 1 \in Limiter!Tasks /\ pc[spawned + 1] = "unborn"
    BY <1>2, LimiterSizes
      DEF Limiter!Go, Limiter!LimiterInv, Limiter!TypeOK, Limiter!Tasks
  <2>2. /\ Limiter!Holding' = Limiter!Holding
        /\ Limiter!Alive' = Limiter!Alive \cup {spawned + 1}
        /\ spawned + 1 \notin Limiter!Alive
    BY <1>2, <2>1, <1>t DEF Limiter!Go, Limiter!Holding, Limiter!Alive, Limiter!TypeOK
  <2>3. Cardinality(Limiter!Alive') = Cardinality(Limiter!Alive) + 1
    BY <2>2, <1>h, FS_AddElement
  <2>4. \A t \in Limiter!Tasks : (pc'[t] = "unborn" <=> t > spawned') /\ pc'[t] # "panic"
    BY <1>2, <2>1, <1>t DEF Limiter!Go, Limiter!LimiterInv, Limiter!TypeOK, Limiter!Tasks
  <2>5. Limiter!TypeOK'
    <3>1. spawned' \in 0 .. TotalTasks
      BY <1>2, <2>1, <1>t, LimiterSizes DEF Limiter!Go, Limiter!TypeOK, Limiter!Tasks
    <3> QED BY <1>2, <3>1, <1>t DEF Limiter!Go, Limiter!TypeOK
  <2> QED BY LimiterCounts, <1>2, <2>2, <2>3, <2>4, <2>5, <1>h
          DEF Limiter!Go, Limiter!LimiterInv, Limiter!SlotsMatchHolders
<1>3. CASE Limiter!EndLoop
  <2>1. Limiter!Holding' = Limiter!Holding /\ Limiter!Alive' = Limiter!Alive
    BY <1>3 DEF Limiter!EndLoop, Limiter!Holding, Limiter!Alive
  <2> QED BY <1>3, <2>1
          DEF Limiter!EndLoop, Limiter!LimiterInv, Limiter!TypeOK,
              Limiter!SlotsMatchHolders
<1>4. CASE Limiter!Close
  <2>1. Limiter!Holding' = Limiter!Holding /\ Limiter!Alive' = Limiter!Alive
    BY <1>4 DEF Limiter!Close, Limiter!Holding, Limiter!Alive
  <2> QED BY <1>4, <2>1
          DEF Limiter!Close, Limiter!LimiterInv, Limiter!TypeOK, Limiter!SlotsMatchHolders
<1>5. ASSUME NEW t \in Limiter!Tasks, Limiter!Send(t) PROVE Limiter!LimiterInv'
  <2>1. t \in Limiter!Alive
    BY <1>5 DEF Limiter!Send, Limiter!Alive
  <2>2. limiterMain # "closed"
    <3>1. Cardinality(Limiter!Alive) # 0
      BY <2>1, <1>h, FS_EmptySet
    <3> QED BY LimiterCounts, <3>1, <1>h DEF Limiter!LimiterInv
  <2>3. /\ Len(taskCh) < MaxConcurrentTasks
        /\ taskCh' = Append(taskCh, t)
        /\ pc' = [pc EXCEPT ![t] = "run"] /\ pc[t] = "send"
    BY <1>5, <2>2 DEF Limiter!Send
  <2>4. /\ Limiter!Holding' = Limiter!Holding \cup {t}
        /\ t \notin Limiter!Holding
        /\ Limiter!Alive' = Limiter!Alive
    BY <2>3, <1>t DEF Limiter!Holding, Limiter!Alive, Limiter!TypeOK
  <2>5. Cardinality(Limiter!Holding') = Cardinality(Limiter!Holding) + 1
    BY <2>4, <1>h, FS_AddElement
  <2>6. taskCh' \in Seq(Limiter!Tasks) /\ Len(taskCh') = Len(taskCh) + 1
    BY <2>3, <1>l, AppendProperties
  <2> QED BY LimiterCounts, <1>5, <2>3, <2>4, <2>5, <2>6, <1>h, <1>l, LimiterSizes
          DEF Limiter!Send, Limiter!LimiterInv, Limiter!TypeOK, Limiter!SlotsMatchHolders
<1>6. ASSUME NEW t \in Limiter!Tasks, Limiter!Finish(t) PROVE Limiter!LimiterInv'
  <2>1. Limiter!Holding' = Limiter!Holding /\ Limiter!Alive' = Limiter!Alive
    BY <1>6, <1>t DEF Limiter!Finish, Limiter!Holding, Limiter!Alive, Limiter!TypeOK
  <2> QED BY <1>6, <2>1
          DEF Limiter!Finish, Limiter!LimiterInv, Limiter!TypeOK,
              Limiter!SlotsMatchHolders
<1>7. ASSUME NEW t \in Limiter!Tasks, Limiter!Receive(t) PROVE Limiter!LimiterInv'
  <2>1. /\ Limiter!Holding' = Limiter!Holding \ {t}
        /\ t \in Limiter!Holding
        /\ Limiter!Alive' = Limiter!Alive
    BY <1>7, <1>t DEF Limiter!Receive, Limiter!Holding, Limiter!Alive, Limiter!TypeOK
  <2>2. /\ Cardinality(Limiter!Holding') = Cardinality(Limiter!Holding) - 1
        /\ Cardinality(Limiter!Holding) # 0
    BY <2>1, <1>h, FS_RemoveElement, FS_EmptySet
  <2>3. taskCh # << >>
    BY LimiterCounts, <2>2, EmptySeq DEF Limiter!LimiterInv, Limiter!SlotsMatchHolders
  <2>4. taskCh' \in Seq(Limiter!Tasks) /\ Len(taskCh') = Len(taskCh) - 1
    BY <1>7, <2>3, <1>l, HeadTailProperties DEF Limiter!Receive
  <2> QED BY LimiterCounts, <1>7, <2>1, <2>2, <2>4, <1>h, <1>l, LimiterSizes
          DEF Limiter!Receive, Limiter!LimiterInv, Limiter!TypeOK,
              Limiter!SlotsMatchHolders
<1>8. ASSUME NEW t \in Limiter!Tasks, Limiter!Done(t) PROVE Limiter!LimiterInv'
  <2>1. /\ Limiter!Holding' = Limiter!Holding
        /\ Limiter!Alive' = Limiter!Alive \ {t}
        /\ t \in Limiter!Alive
    BY <1>8, <1>t DEF Limiter!Done, Limiter!Holding, Limiter!Alive, Limiter!TypeOK
  <2>2. /\ Cardinality(Limiter!Alive') = Cardinality(Limiter!Alive) - 1
        /\ Cardinality(Limiter!Alive) # 0
    BY <2>1, <1>h, FS_RemoveElement, FS_EmptySet
  <2>3. wg' \in Nat /\ limiterMain # "closed"
    BY LimiterCounts, <1>8, <2>2, <1>h DEF Limiter!Done, Limiter!LimiterInv
  <2> QED BY LimiterCounts, <1>8, <2>1, <2>2, <2>3, <1>h
          DEF Limiter!Done, Limiter!LimiterInv, Limiter!TypeOK, Limiter!SlotsMatchHolders
<1>9. CASE UNCHANGED Limiter!vars
  BY <1>9
    DEF Limiter!vars, Limiter!LimiterInv, Limiter!TypeOK, Limiter!SlotsMatchHolders,
        Limiter!Holding, Limiter!Alive
<1> QED BY <1>1, <1>2, <1>3, <1>4, <1>5, <1>6, <1>7, <1>8, <1>9
        DEF Limiter!Next, Limiter!MainStep, Limiter!TaskStep

\* The invariant of the limiter holds throughout.
LEMMA LimiterInvariant == Limiter!Spec => []Limiter!LimiterInv
BY LimiterInit, LimiterStep, PTL DEF Limiter!Spec

\* The channel never loses count: it holds as many IDs as there are goroutines
\* between their send and their receive, whichever IDs those took out.
THEOREM SlotPerHolder == Limiter!Spec => []Limiter!SlotsMatchHolders
<1>1. Limiter!LimiterInv => Limiter!SlotsMatchHolders
  BY DEF Limiter!LimiterInv
<1> QED BY <1>1, LimiterInvariant, PTL

\* For every number of tasks and every capacity, no more tasks run at once than
\* the channel has slots.
THEOREM ConcurrencyBound == Limiter!Spec => []AtMostMaxConcurrentTasks
<1>1. Limiter!LimiterInv => AtMostMaxConcurrentTasks
  <2> SUFFICES ASSUME Limiter!LimiterInv
               PROVE  Cardinality(Limiter!Running) <= MaxConcurrentTasks
    BY LimiterCounts DEF AtMostMaxConcurrentTasks, Limiter!AtMostMaxConcurrentTasks
  <2>1. /\ IsFiniteSet(Limiter!Holding)
        /\ Cardinality(Limiter!Holding) \in Nat
        /\ Cardinality(Limiter!Running) \in Nat
    BY HoldersAreTasks, TasksFinite DEF Limiter!Running
  <2>2. Cardinality(Limiter!Running) <= Cardinality(Limiter!Holding)
    BY <2>1, HoldersAreTasks, FS_Subset
  <2> QED BY LimiterCounts, <2>1, <2>2, LimiterSizes
          DEF Limiter!LimiterInv, Limiter!SlotsMatchHolders
<1> QED BY <1>1, LimiterInvariant, PTL

\* close(taskCh) finds every goroutine gone: none can panic on a closed channel.
THEOREM CloseIsLast == Limiter!Spec => []ClosedAfterAllTasks
<1>1. Limiter!LimiterInv => ClosedAfterAllTasks
  <2> SUFFICES ASSUME Limiter!LimiterInv, limiterMain = "closed"
               PROVE  spawned = TotalTasks /\ \A t \in Limiter!Tasks : pc[t] = "exited"
    BY DEF ClosedAfterAllTasks, Limiter!ClosedAfterAllTasks
  <2>1. spawned = TotalTasks /\ Cardinality(Limiter!Alive) = 0
    <3>1. Cardinality(Limiter!Alive) \in Nat
      BY HoldersAreTasks, TasksFinite
    <3> QED BY LimiterCounts, <3>1 DEF Limiter!LimiterInv
  <2>2. Limiter!Alive = {}
    BY <2>1, HoldersAreTasks, TasksFinite, FS_EmptySet
  <2> QED BY <2>1, <2>2, LimiterSizes
          DEF Limiter!LimiterInv, Limiter!TypeOK, Limiter!Alive, Limiter!Tasks
<1> QED BY <1>1, LimiterInvariant, PTL

-----------------------------------------------------------------------------
(* Whichever of the two programs is chosen, the other does nothing, so     *)
(* that what is proved of each by itself holds of both.                    *)
THEOREM EachByItself == AllSpec => Spec /\ Limiter!Spec
<1>1. AllInit => Init /\ Limiter!Init
  BY DEF AllInit
<1>2. [AllNext]_allVars => [Next]_vars /\ [Limiter!Next]_(Limiter!vars)
  BY DEF AllNext, allVars, vars, limiterVars, Limiter!vars
<1> QED BY <1>1, <1>2, PTL DEF AllSpec, Spec, Limiter!Spec

=============================================================================
