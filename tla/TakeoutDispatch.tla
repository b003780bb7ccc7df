---------------------------- MODULE TakeoutDispatch ----------------------------
(***************************************************************************)
(* handNotifyNearbyRider of Golang/takeout/order.go: an order is offered   *)
(* to one random rider after the other until one of them accepts it.  The  *)
(* handlers of two requests share nothing they write, so one is modelled.  *)
(*                                                                         *)
(* Redis goes away and comes back as it likes.  While it is away Publish   *)
(* fails (or its answer is lost, which the handler cannot tell apart), and *)
(* the handler begins another turn with the same list.                     *)
(***************************************************************************)
EXTENDS Naturals, FiniteSets, SequencesExt

CONSTANT Riders  \* rows of the table riders

VARIABLES
  at,          \* what the handler does next; "idle": no request
  riderIDs,    \* riders who were near and have not refused, as the code keeps them
  riderIndex,  \* position in riderIDs of the rider who was notified
  near,        \* history: what the SELECT returned
  refused,     \* history: riders who refused
  answer,      \* how the last request was answered
  redisUp      \* Redis can be reached

vars == <<at, riderIDs, riderIndex, near, refused, answer, redisUp>>

DispatchAssumption == IsFiniteSet(Riders)

Init ==
  /\ at = "idle" /\ answer = "none"
  /\ riderIDs = << >> /\ riderIndex = 0
  /\ near = {} /\ refused = {}
  /\ redisUp = TRUE

Request ==
  /\ at = "idle"
  /\ at' = "query" /\ answer' = "none"
  /\ riderIDs' = << >> /\ riderIndex' = 0
  /\ near' = {} /\ refused' = {}
  /\ UNCHANGED redisUp

Answer(a) == at' = "idle" /\ answer' = a

\* The SELECT fails, finds nobody, or finds some of the riders, each once.
QueryRiders ==
  /\ at = "query"
  /\ \E found \in SUBSET Riders :
       /\ near' = found
       /\ riderIDs' \in SetToSeqs(found)
       /\ IF found = {} THEN Answer("nobodyNear") \/ Answer("error")
                        ELSE at' = "choose" /\ UNCHANGED answer
  /\ UNCHANGED <<riderIndex, refused, redisUp>>

\* rand.Intn and Publish.  After an error the loop goes on with the rider still in
\* the list: the state is the one before.
Publish ==
  /\ at = "choose"
  /\ \E i \in DOMAIN riderIDs :
       IF redisUp THEN riderIndex' = i /\ at' = "wait"
                  ELSE UNCHANGED <<riderIndex, at>>
  /\ UNCHANGED <<riderIDs, near, refused, answer, redisUp>>

\* Mutant of Removed: the rider who refused is asked again.
RemovedNot(s, i) == s

\* Mutant of Removed: an index too far, append(s[:i+1], s[i+2:]...).
RemovedNext(s, i) == IF i < Len(s) THEN RemoveAt(s, i + 1) ELSE s

\* append(riderIDs[:i], riderIDs[i+1:]...)
Removed(s, i) == RemoveAt(s, i)

\* waitForRiderResponse answers at random, and never with an error.
WaitForRiderResponse ==
  /\ at = "wait"
  /\ \/ Answer("accepted") /\ UNCHANGED <<riderIDs, refused>>
     \/ /\ riderIDs' = Removed(riderIDs, riderIndex)
        /\ refused' = refused \cup {riderIDs[riderIndex]}
        /\ IF riderIDs' = << >> THEN Answer("allRefused")
                                ELSE at' = "choose" /\ UNCHANGED answer
  /\ UNCHANGED <<riderIndex, near, redisUp>>

RedisGoesOrComes ==
  /\ redisUp' = ~redisUp
  /\ UNCHANGED <<at, riderIDs, riderIndex, near, refused, answer>>

Next == Request \/ QueryRiders \/ Publish \/ WaitForRiderResponse \/ RedisGoesOrComes

\* A goroutine that can run does run, and MySQL answers; nothing is said of Redis.
Fairness == WF_vars(QueryRiders) /\ WF_vars(Publish) /\ WF_vars(WaitForRiderResponse)

Spec == Init /\ [][Next]_vars /\ Fairness

(***************************************************************************)
(* Properties                                                              *)
(***************************************************************************)

\* The slice is edited in place by position: at every turn it holds exactly the
\* riders in reach who have not refused, each once, so that nobody who refused is
\* asked again, and "all riders refused" is true of every rider in reach.
NobodySkipped ==
  /\ ToSet(riderIDs) = near \ refused
  /\ Len(riderIDs) = Cardinality(near \ refused)
  /\ answer = "allRefused" => refused = near /\ near # {}
  /\ answer = "accepted" => riderIDs[riderIndex] \notin refused

\* Once Redis stays up every request is answered, however the riders decide and
\* whatever failed before.  (While it is away the handler turns in its loop.)
DispatchEnds == <>[]redisUp => [](at # "idle" => <>(at = "idle"))

=============================================================================
