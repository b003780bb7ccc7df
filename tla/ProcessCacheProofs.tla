-------------------------- MODULE ProcessCacheProofs --------------------------
(***************************************************************************)
(* Proofs about ProcessCache, for any clients, contents and MaxPid.        *)
(***************************************************************************)
EXTENDS ProcessCache, TLAPS

LEMMA MissIsProcess == Miss \in Process /\ Miss.pid = 0 /\ Miss.data = None
BY ConstantsAssumption DEF Miss, Process, Keys

\* The steps of the disciplined specification are steps of the open one.
LEMMA DisciplinedIsNext == DisciplinedNext => Next
BY ConstantsAssumption DEF DisciplinedNext, DisciplinedCall, Next, Call, Keys, Pids

(***************************************************************************)
(* Type correctness                                                        *)
(***************************************************************************)

CallType == [at : {"idle", "get", "query", "del", "write", "fill"},
             op : {"none", "get", "insert", "update", "delete"},
             key : Keys, proc : Process]

ReplyType == [status : {"none", "ok", "err"}, proc : Process]

LEMMA GotoType ==
  ASSUME TypeOK, NEW c \in Clients, NEW p \in Process,
         NEW at \in {"query", "write", "fill"}, Goto(c, at, p)
  PROVE  /\ call' \in [Clients -> CallType]
         /\ reply' \in [Clients -> ReplyType]
BY DEF TypeOK, Goto, CallType, ReplyType

LEMMA ReturnType ==
  ASSUME TypeOK, NEW c \in Clients, NEW r \in ReplyType, Return(c, r)
  PROVE  /\ call' \in [Clients -> CallType]
         /\ reply' \in [Clients -> ReplyType]
BY MissIsProcess, ConstantsAssumption DEF TypeOK, Return, CallType, ReplyType, Idle, Keys

LEMMA ReplyTypes ==
  /\ Waiting \in ReplyType
  /\ Failed \in ReplyType
  /\ \A p \in Process : Ok(p) \in ReplyType
BY MissIsProcess DEF Waiting, Failed, Ok, ReplyType

LEMMA TypeInit == Init => TypeOK
<1> SUFFICES ASSUME Init PROVE TypeOK
  OBVIOUS
<1>1. Idle \in CallType
  BY MissIsProcess, ConstantsAssumption DEF Idle, CallType, Keys
<1>2. nextPid \in 1 .. MaxPid + 1
  BY ConstantsAssumption DEF Init
<1> QED
  BY <1>1, <1>2, MissIsProcess, ReplyTypes DEF Init, TypeOK, CallType, ReplyType

LEMMA TypeStep == TypeOK /\ RequestsOK /\ [Next]_vars => TypeOK'
<1> SUFFICES ASSUME TypeOK, RequestsOK, [Next]_vars PROVE TypeOK'
  OBVIOUS
<1> DEFINE RestType == /\ db' \in [Pids -> Contents \cup {None}]
                       /\ nextPid' \in 1 .. MaxPid + 1
                       /\ cache' \in [Keys -> Process]
                       /\ executed' \in [Pids -> SUBSET Contents]
           CallsType == /\ call' \in [Clients -> CallType]
                        /\ reply' \in [Clients -> ReplyType]
<1>q. SUFFICES RestType /\ CallsType
  BY DEF TypeOK, CallType, ReplyType
<1>t. /\ call \in [Clients -> CallType]
      /\ \A c \in Clients : call[c].proc \in Process /\ call[c].key \in Keys
  BY DEF TypeOK, CallType
<1>1. ASSUME NEW c \in Clients, Call(c) PROVE RestType /\ CallsType
  <2>1. \A at, op, p : Begin(c, at, op, p) /\ p \in Process
            /\ at \in {"get", "del"} /\ op \in {"get", "insert", "update", "delete"}
            => RestType /\ CallsType
    BY ReplyTypes DEF Begin, TypeOK, CallType, ReplyType, Process
  <2>2. \A p \in Keys, d \in Contents \cup {None} : [pid |-> p, data |-> d] \in Process
    BY DEF Process
  <2> QED BY <1>1, <2>1, <2>2 DEF Call, CallGet, CallDelete, CallUpsert
<1>2. ASSUME NEW c \in Clients, GetFromCache(c) PROVE RestType /\ CallsType
  <2>1. RestType BY <1>2 DEF GetFromCache, TypeOK
  <2>2. cache[call[c].key] \in Process BY <1>t DEF TypeOK
  <2> QED BY <1>2, <1>t, <2>1, <2>2, GotoType, ReturnType, ReplyTypes DEF GetFromCache
<1>3. ASSUME NEW c \in Clients, DeleteFromCache(c) PROVE RestType /\ CallsType
  <2>1. RestType BY <1>3, <1>t, MissIsProcess DEF DeleteFromCache, TypeOK
  <2> QED BY <1>3, <1>t, <2>1, GotoType, ReturnType, ReplyTypes DEF DeleteFromCache
<1>4. ASSUME NEW c \in Clients, SetToCache(c) PROVE RestType /\ CallsType
  <2>1. RestType BY <1>4, <1>t DEF SetToCache, TypeOK
  <2> QED BY <1>4, <1>t, <2>1, ReturnType, ReplyTypes DEF SetToCache
<1>5. ASSUME NEW c \in Clients, QueryProcess(c) PROVE RestType /\ CallsType
  <2>1. RestType BY <1>5 DEF QueryProcess, TypeOK
  <2>2. call[c].key \in Pids => Row(call[c].key) \in Process
    BY <1>t DEF TypeOK, Row, Process
  <2> QED BY <1>5, <2>1, <2>2, GotoType, ReturnType, ReplyTypes DEF QueryProcess
<1>6. ASSUME NEW c \in Clients, InsertProcess(c) PROVE RestType /\ CallsType
  <2>1. call[c].proc.data \in Contents
    BY <1>6 DEF InsertProcess, RequestsOK
  <2>2. CASE /\ nextPid \in Pids
             /\ db' = [db EXCEPT ![nextPid] = call[c].proc.data]
             /\ executed' = [executed EXCEPT ![nextPid] = @ \cup {call[c].proc.data}]
             /\ nextPid' = nextPid + 1
             /\ cache' = cache
             /\ \/ Goto(c, "fill", [call[c].proc EXCEPT !.pid = nextPid])
                \/ Return(c, Failed)
    <3>1. nextPid' \in 1 .. MaxPid + 1
      BY <2>2, ConstantsAssumption DEF Pids
    <3>2. [call[c].proc EXCEPT !.pid = nextPid] \in Process
      BY <2>2, <1>t, ConstantsAssumption DEF Process, Pids, Keys
    <3>3. RestType
      BY <2>1, <2>2, <3>1 DEF TypeOK
    <3>4. CallsType
      BY <2>2, <3>2, GotoType, ReturnType, ReplyTypes
    <3> QED BY <3>3, <3>4
  <2>3. CASE /\ nextPid' \in {nextPid, nextPid + 1} \cap (1 .. MaxPid + 1)
             /\ Return(c, Failed)
             /\ UNCHANGED <<db, executed, cache>>
    <3>1. RestType BY <2>3 DEF TypeOK
    <3> QED BY <2>3, <3>1, ReturnType, ReplyTypes
  <2> QED BY <1>6, <2>2, <2>3 DEF InsertProcess
<1>7. ASSUME NEW c \in Clients, UpdateProcess(c) PROVE RestType /\ CallsType
  <2>1. call[c].proc.data \in Contents
    BY <1>7 DEF UpdateProcess, RequestsOK
  <2>2. RestType
    <3>1. \/ db' = db
          \/ db' = [db EXCEPT ![call[c].key] = call[c].proc.data]
      BY <1>7 DEF UpdateProcess
    <3>2. \/ executed' = executed
          \/ executed' = [executed EXCEPT ![call[c].key] = @ \cup {call[c].proc.data}]
      BY <1>7 DEF UpdateProcess
    <3>3. nextPid' = nextPid /\ cache' = cache
      BY <1>7 DEF UpdateProcess
    <3> QED BY <2>1, <3>1, <3>2, <3>3 DEF TypeOK
  <2> QED BY <1>7, <1>t, <2>2, GotoType, ReturnType, ReplyTypes DEF UpdateProcess
<1>8. ASSUME NEW c \in Clients, DeleteProcess(c) PROVE RestType /\ CallsType
  <2>1. RestType BY <1>8 DEF DeleteProcess, TypeOK
  <2> QED BY <1>8, <1>t, <2>1, ReturnType, ReplyTypes DEF DeleteProcess
<1>9. ASSUME NEW c \in Clients, Crash(c) PROVE RestType /\ CallsType
  <2>1. RestType BY <1>9 DEF Crash, TypeOK
  <2> QED BY <1>9, <2>1, ReturnType, ReplyTypes DEF Crash
<1>10. ASSUME NEW k \in Keys, Expire(k) PROVE RestType /\ CallsType
  BY <1>10, MissIsProcess DEF Expire, TypeOK, CallType, ReplyType
<1>11. CASE UNCHANGED vars
  BY <1>11 DEF vars, TypeOK, CallType, ReplyType
<1> QED
  BY <1>1, <1>2, <1>3, <1>4, <1>5, <1>6, <1>7, <1>8, <1>9, <1>10, <1>11 DEF Next, Request

(***************************************************************************)
(* The invariant of the open specification: overlapping calls, lost and    *)
(* unacknowledged requests, crashes                                        *)
(***************************************************************************)

LEMMA CacheInvInit == Init => CacheInv
<1> SUFFICES ASSUME Init PROVE CacheInv
  OBVIOUS
<1>1. RequestsOK
  BY ConstantsAssumption DEF Init, RequestsOK, Idle
<1>2. KeyedByPid /\ ExecutedBeforeCached
  BY ConstantsAssumption DEF Init, KeyedByPid, ExecutedBeforeCached, Pids, Keys
<1> QED BY <1>1, <1>2, TypeInit DEF CacheInv

\* A call that has what its next request relies on.
CallOK(r, done) ==
  /\ r.op = "insert" => r.key = 0
  /\ r.op = "update" => r.key \in Pids
  /\ r.at \in {"del", "write"} /\ r.op \in {"insert", "update"} =>
       r.proc.pid = r.key /\ r.proc.data \in Contents
  /\ r.at = "fill" =>
       /\ r.proc.pid \in Pids
       /\ r.key \in Pids => r.proc.pid = r.key
       /\ r.proc.data \in done[r.proc.pid]

\* A step of client c keeps the invariant when the history grows, rows and
\* entries stay covered by it, and c itself is left with a call that is OK.
LEMMA ClientStep ==
  ASSUME CacheInv, TypeOK', NEW c \in Clients,
         NEW r, call' = [call EXCEPT ![c] = r], CallOK(r, executed'),
         \A p \in Pids : executed[p] \subseteq executed'[p],
         \A p \in Pids : db'[p] # None => db'[p] \in executed'[p],
         \A k \in Keys : cache'[k] # Miss =>
           /\ cache'[k].pid \in Pids
           /\ k \in Pids => cache'[k].pid = k
           /\ cache'[k].data \in executed'[cache'[k].pid]
  PROVE  CacheInv'
<1>1. \A d \in Clients : CallOK(call'[d], executed')
  <2> SUFFICES ASSUME NEW d \in Clients PROVE CallOK(call'[d], executed')
    OBVIOUS
  <2>1. CASE d = c
    BY <2>1 DEF CacheInv, TypeOK
  <2>2. CASE d # c
    BY <2>2 DEF CacheInv, TypeOK, RequestsOK, CallOK
  <2> QED BY <2>1, <2>2
<1>2. RequestsOK'
  BY <1>1 DEF RequestsOK, CallOK
<1>3. KeyedByPid' /\ ExecutedBeforeCached'
  BY ConstantsAssumption DEF KeyedByPid, ExecutedBeforeCached, Pids, Keys
<1> QED BY <1>2, <1>3 DEF CacheInv

\* A call that goes on to its next request.
LEMMA GotoCall ==
  ASSUME TypeOK, NEW c \in Clients, NEW at, NEW p, Goto(c, at, p)
  PROVE  call' = [call EXCEPT ![c] =
           [at |-> at, op |-> call[c].op, key |-> call[c].key, proc |-> p]]
BY DEF TypeOK, Goto

LEMMA CacheInvStep == CacheInv /\ [Next]_vars => CacheInv'
<1> SUFFICES ASSUME CacheInv, [Next]_vars PROVE CacheInv'
  OBVIOUS
<1>t. TypeOK /\ TypeOK' /\ RequestsOK
  BY TypeStep DEF CacheInv
<1>c. \A c \in Clients : CallOK(call[c], executed)
  BY DEF CacheInv, RequestsOK, CallOK
<1>i. \A done : CallOK(Idle, done)
  BY DEF CallOK, Idle
\* What the state already has, for the parts a step leaves alone.
<1>e. /\ \A p \in Pids : db[p] # None => db[p] \in executed[p]
      /\ \A k \in Keys : cache[k] # Miss =>
           /\ cache[k].pid \in Pids
           /\ k \in Pids => cache[k].pid = k
           /\ cache[k].data \in executed[cache[k].pid]
  BY DEF CacheInv, RequestsOK, KeyedByPid, ExecutedBeforeCached
<1>1. ASSUME NEW c \in Clients, Call(c) PROVE CacheInv'
  <2>1. \A at, op, proc :
          /\ Begin(c, at, op, proc)
          /\ CallOK([at |-> at, op |-> op, key |-> proc.pid, proc |-> proc], executed)
          => CacheInv'
    <3> SUFFICES ASSUME NEW at, NEW op, NEW proc, Begin(c, at, op, proc),
          CallOK([at |-> at, op |-> op, key |-> proc.pid, proc |-> proc], executed)
        PROVE  CacheInv'
      OBVIOUS
    <3> DEFINE r == [at |-> at, op |-> op, key |-> proc.pid, proc |-> proc]
    <3>1. call' = [call EXCEPT ![c] = r] /\ UNCHANGED <<db, cache, executed>>
      BY DEF Begin
    <3>2. CallOK(r, executed')
      BY <3>1
    <3> QED BY <3>1, <3>2, <1>t, <1>e, ClientStep
  <2>2. \A p \in Keys : CallGet(c, p) => CacheInv'
    BY <2>1 DEF CallGet, CallOK
  <2>3. \A p \in Keys : CallDelete(c, p) => CacheInv'
    BY <2>1 DEF CallDelete, CallOK
  <2>4. \A p \in Keys, d \in Contents : CallUpsert(c, p, d) => CacheInv'
    BY <2>1, ConstantsAssumption DEF CallUpsert, CallOK, Keys, Pids
  <2> QED BY <1>1, <2>2, <2>3, <2>4 DEF Call
<1>2. ASSUME NEW c \in Clients, GetFromCache(c) PROVE CacheInv'
  <2>1. UNCHANGED <<db, cache, executed>>
    BY <1>2 DEF GetFromCache
  <2>2. CASE call' = [call EXCEPT ![c] = Idle]
    BY <2>1, <2>2, <1>t, <1>e, <1>i, ClientStep
  <2>3. CASE Goto(c, "query", call[c].proc)
    BY <2>1, <2>3, <1>t, <1>c, <1>e, GotoCall, ClientStep DEF CallOK
  <2> QED BY <1>2, <2>2, <2>3 DEF GetFromCache, Return
<1>3. ASSUME NEW c \in Clients, DeleteFromCache(c) PROVE CacheInv'
  <2>1. UNCHANGED <<db, executed>> /\ cache' \in {cache, [cache EXCEPT ![call[c].key] = Miss]}
    BY <1>3 DEF DeleteFromCache
  <2>2. \A k \in Keys : cache'[k] # Miss => cache[k] # Miss /\ cache'[k] = cache[k]
    BY <2>1, <1>t DEF TypeOK
  <2>3. CASE call' = [call EXCEPT ![c] = Idle]
    BY <2>1, <2>2, <2>3, <1>t, <1>e, <1>i, ClientStep
  <2>4. CASE Goto(c, "write", call[c].proc)
    <3>1. call[c].at = "del"
      BY <1>3 DEF DeleteFromCache
    <3> QED BY <2>1, <2>2, <2>4, <3>1, <1>t, <1>c, <1>e, GotoCall, ClientStep DEF CallOK
  <2> QED BY <1>3, <2>3, <2>4 DEF DeleteFromCache, Return
<1>4. ASSUME NEW c \in Clients, SetToCache(c) PROVE CacheInv'
  <2>1. /\ UNCHANGED <<db, executed>>
        /\ cache' \in {cache, [cache EXCEPT ![call[c].key] = call[c].proc]}
        /\ call' = [call EXCEPT ![c] = Idle]
        /\ call[c].at = "fill"
    BY <1>4 DEF SetToCache, Return
  <2>2. /\ call[c].proc.pid \in Pids
        /\ call[c].key \in Pids => call[c].proc.pid = call[c].key
        /\ call[c].proc.data \in executed[call[c].proc.pid]
    BY <2>1, <1>c DEF CallOK
  <2>3. \A k \in Keys : cache'[k] # Miss =>
           /\ cache'[k].pid \in Pids
           /\ k \in Pids => cache'[k].pid = k
           /\ cache'[k].data \in executed[cache'[k].pid]
    BY <2>1, <2>2, <1>t, <1>e DEF TypeOK
  <2> QED BY <2>1, <2>3, <1>t, <1>e, <1>i, ClientStep
<1>5. ASSUME NEW c \in Clients, QueryProcess(c) PROVE CacheInv'
  <2>1. UNCHANGED <<db, cache, executed>>
    BY <1>5 DEF QueryProcess
  <2>2. CASE call' = [call EXCEPT ![c] = Idle]
    BY <2>1, <2>2, <1>t, <1>e, <1>i, ClientStep
  <2>3. CASE /\ call[c].key \in Pids
             /\ db[call[c].key] # None
             /\ Goto(c, "fill", Row(call[c].key))
    BY <2>1, <2>3, <1>t, <1>c, <1>e, GotoCall, ClientStep DEF CallOK, Row
  <2> QED BY <1>5, <2>2, <2>3 DEF QueryProcess, Return
<1>6. ASSUME NEW c \in Clients, InsertProcess(c) PROVE CacheInv'
  <2>1. CASE UNCHANGED <<db, executed, cache>> /\ Return(c, Failed)
    BY <2>1, <1>t, <1>e, <1>i, ClientStep DEF Return
  <2>2. CASE /\ nextPid \in Pids
             /\ db' = [db EXCEPT ![nextPid] = call[c].proc.data]
             /\ executed' = [executed EXCEPT ![nextPid] = @ \cup {call[c].proc.data}]
             /\ cache' = cache
             /\ \/ Goto(c, "fill", [call[c].proc EXCEPT !.pid = nextPid])
                \/ Return(c, Failed)
    <3>1. /\ \A p \in Pids : executed[p] \subseteq executed'[p]
          /\ call[c].proc.data \in executed'[nextPid]
      BY <2>2, <1>t DEF TypeOK
    <3>2. \A p \in Pids : db'[p] # None => db'[p] \in executed'[p]
      BY <2>2, <3>1, <1>t, <1>e DEF TypeOK
    <3>3. \A k \in Keys : cache'[k] # Miss =>
           /\ cache'[k].pid \in Pids
           /\ k \in Pids => cache'[k].pid = k
           /\ cache'[k].data \in executed'[cache'[k].pid]
      BY <2>2, <3>1, <1>e
    <3>4. CASE Return(c, Failed)
      BY <3>1, <3>2, <3>3, <3>4, <1>t, <1>i, ClientStep DEF Return
    <3>5. CASE Goto(c, "fill", [call[c].proc EXCEPT !.pid = nextPid])
      <4> DEFINE p == [call[c].proc EXCEPT !.pid = nextPid]
                 r == [at |-> "fill", op |-> call[c].op, key |-> call[c].key, proc |-> p]
      <4>1. p.pid = nextPid /\ p.data = call[c].proc.data
        BY <1>t DEF TypeOK, Process
      <4>2. call[c].op = "insert" /\ call[c].key = 0
        BY <1>6, <1>c DEF InsertProcess, CallOK
      <4>3. CallOK(r, executed')
        <5> HIDE DEF p
        <5> QED BY <4>1, <4>2, <2>2, <3>1, ConstantsAssumption DEF CallOK, Pids
      <4>4. call' = [call EXCEPT ![c] = r]
        BY <3>5, <1>t, GotoCall
      <4> QED BY <3>1, <3>2, <3>3, <4>3, <4>4, <1>t, ClientStep
    <3> QED BY <2>2, <3>4, <3>5
  <2> QED BY <1>6, <2>1, <2>2 DEF InsertProcess
<1>7. ASSUME NEW c \in Clients, UpdateProcess(c) PROVE CacheInv'
  <2> DEFINE k == call[c].key
             d == call[c].proc.data
  <2>1. /\ cache' = cache
        /\ call[c].at = "write" /\ call[c].op = "update"
    BY <1>7 DEF UpdateProcess
  <2>2. k \in Pids /\ call[c].proc.pid = k /\ d \in Contents
    BY <2>1, <1>c DEF CallOK
  <2>3. PICK o \in Outcomes :
          /\ db' = IF Executed(o) /\ db[k] # None THEN [db EXCEPT ![k] = d] ELSE db
          /\ executed' = IF Executed(o) THEN [executed EXCEPT ![k] = @ \cup {d}] ELSE executed
          /\ IF o = "ok" THEN Goto(c, "fill", call[c].proc) ELSE Return(c, Failed)
    BY <1>7 DEF UpdateProcess
  <2>4. /\ \A p \in Pids : executed[p] \subseteq executed'[p]
        /\ Executed(o) => d \in executed'[k]
    BY <2>2, <2>3, <1>t DEF TypeOK
  <2>5. \A p \in Pids : db'[p] # None => db'[p] \in executed'[p]
    BY <2>2, <2>3, <2>4, <1>t, <1>e DEF TypeOK
  <2>6. \A q \in Keys : cache'[q] # Miss =>
           /\ cache'[q].pid \in Pids
           /\ q \in Pids => cache'[q].pid = q
           /\ cache'[q].data \in executed'[cache'[q].pid]
    BY <2>1, <2>4, <1>e
  <2>7. CASE o = "ok"
    BY <2>2, <2>3, <2>4, <2>5, <2>6, <2>7, <2>1, <1>t, <1>c, GotoCall, ClientStep
       DEF CallOK, Executed
  <2>8. CASE o # "ok"
    BY <2>3, <2>4, <2>5, <2>6, <2>8, <1>t, <1>i, ClientStep DEF Return
  <2> QED BY <2>7, <2>8
<1>8. ASSUME NEW c \in Clients, DeleteProcess(c) PROVE CacheInv'
  <2>1. /\ UNCHANGED <<cache, executed>>
        /\ call' = [call EXCEPT ![c] = Idle]
        /\ db' \in {db, [db EXCEPT ![call[c].key] = None]}
    BY <1>8 DEF DeleteProcess, Return
  <2>2. \A p \in Pids : db'[p] # None => db'[p] \in executed'[p]
    BY <2>1, <1>t, <1>e DEF TypeOK
  <2> QED BY <2>1, <2>2, <1>t, <1>e, <1>i, ClientStep
<1>9. ASSUME NEW c \in Clients, Crash(c) PROVE CacheInv'
  BY <1>9, <1>t, <1>e, <1>i, ClientStep DEF Crash, Return
<1>10. ASSUME NEW k \in Keys, Expire(k) PROVE CacheInv'
  BY <1>10, <1>t, <1>e DEF Expire, CacheInv, RequestsOK, KeyedByPid, ExecutedBeforeCached, TypeOK
<1>11. CASE UNCHANGED vars
  BY <1>11, <1>t DEF vars, CacheInv, RequestsOK, KeyedByPid, ExecutedBeforeCached
<1> QED
  BY <1>1, <1>2, <1>3, <1>4, <1>5, <1>6, <1>7, <1>8, <1>9, <1>10, <1>11 DEF Next, Request

\* Every value of every variable has its type, under any overlap of calls, lost
\* requests and crashes.
THEOREM TypeCorrect == Spec => []TypeOK
<1>1. CacheInv => TypeOK
  BY DEF CacheInv
<1> QED BY <1>1, CacheInvInit, CacheInvStep, PTL DEF Spec

\* GetFromCache never answers a query for a real PID with the row of another
\* PID, whatever calls overlap, fail or crash.
THEOREM CacheKeyedByPid == Spec => []KeyedByPid
<1>1. CacheInv => KeyedByPid
  BY DEF CacheInv
<1> QED BY <1>1, CacheInvInit, CacheInvStep, PTL DEF Spec

\* SetToCache never publishes a content MySQL was not made to execute first.
THEOREM CacheBehindDatabase == Spec => []ExecutedBeforeCached
<1>1. CacheInv => ExecutedBeforeCached
  BY DEF CacheInv
<1> QED BY <1>1, CacheInvInit, CacheInvStep, PTL DEF Spec

(***************************************************************************)
(* The invariant of the disciplined specification                          *)
(***************************************************************************)

LEMMA DisciplinedInvInit == Init => DisciplinedInv
<1> SUFFICES ASSUME Init PROVE DisciplinedInv
  OBVIOUS
<1>1. CacheInv
  BY CacheInvInit
<1>2. CacheTransparent
  BY ConstantsAssumption DEF Init, CacheTransparent, Stale, Pids, Keys
<1>3. \A c \in Clients : DisciplinedCallOK(c)
  BY DEF Init, DisciplinedCallOK, Busy, Idle
<1> QED BY <1>1, <1>2, <1>3 DEF DisciplinedInv, Init

\* Client c, busy with PID k, changes at most the row and the entry of k; it
\* leaves the entry gone or equal to the row, and itself idle or at a request
\* for which that is enough.
LEMMA OwnPidStep ==
  ASSUME DisciplinedInv, CacheInv', NEW c \in Clients, Busy(c),
         NEW k \in Pids, call[c].key = k, nextPid' = nextPid,
         \A p \in Pids : p # k => db'[p] = db[p],
         db[k] = None => db'[k] = None,
         \A q \in Keys : q # k => cache'[q] = cache[q],
         cache'[k] = Miss \/ cache'[k] = [pid |-> k, data |-> db'[k]],
         NEW r, call' = [call EXCEPT ![c] = r],
         r.at # "idle" =>
           /\ r.key = k
           /\ r.op = "update" /\ r.at \in {"del", "write"} => db'[k] # None
           /\ r.at = "write" => cache'[k] = Miss
           /\ r.at = "fill" => r.proc = [pid |-> k, data |-> db'[k]]
  PROVE  DisciplinedInv'
<1>t. TypeOK
  BY DEF DisciplinedInv, CacheInv
<1>1. CacheTransparent'
  <2> SUFFICES ASSUME NEW p \in Pids, cache'[p] # Miss PROVE p # 0 /\ cache'[p] = [pid |-> p, data |-> db'[p]]
    BY DEF CacheTransparent, Stale, Row
  <2>1. p # 0 /\ p \in Keys
    BY ConstantsAssumption DEF Pids, Keys
  <2>2. CASE p # k
    BY <2>1, <2>2 DEF DisciplinedInv, CacheTransparent, Stale, Row
  <2> QED BY <2>1, <2>2
<1>2. \A p \in Pids : p >= nextPid' => db'[p] = None
  BY DEF DisciplinedInv
<1>3. ASSUME NEW d \in Clients PROVE DisciplinedCallOK(d)'
  <2>1. CASE d = c
    <3>1. call'[d] = r /\ \A e \in Clients : e # d => call'[e] = call[e]
      BY <2>1, <1>t DEF TypeOK
    <3>2. \A e \in Clients : e # d /\ Busy(e) => call[e].key # k
      BY <2>1 DEF DisciplinedInv, DisciplinedCallOK
    <3> QED BY <3>1, <3>2 DEF DisciplinedCallOK, Busy, Row
  <2>2. CASE d # c
    <3>1. call'[d] = call[d] /\ (Busy(d) => call[d].key # k)
      BY <2>2, <1>t DEF TypeOK, DisciplinedInv, DisciplinedCallOK
    <3>2. call[d].key \in Pids /\ Busy(d) =>
            /\ db'[call[d].key] = db[call[d].key]
            /\ cache'[call[d].key] = cache[call[d].key]
      BY <3>1, ConstantsAssumption DEF Pids, Keys
    <3>3. ASSUME NEW e \in Clients, e # d, Busy(e)', Busy(d), call[d].key \in Pids
          PROVE  call'[e].key # call[d].key
      <4>1. CASE e = c
        BY <4>1, <3>1, <3>3, <1>t DEF Busy, TypeOK
      <4>2. CASE e # c
        BY <4>2, <3>3, <1>t DEF DisciplinedInv, DisciplinedCallOK, Busy, TypeOK
      <4> QED BY <4>1, <4>2
    <3>4. call[d].op = "update" => call[d].key \in Pids
      BY DEF DisciplinedInv, CacheInv, RequestsOK
    <3>5. Busy(d)' => Busy(d) /\ DisciplinedCallOK(d)
      BY <3>1 DEF Busy, DisciplinedInv
    <3>6. \A p : Row(p)' = [pid |-> p, data |-> db'[p]]
      BY DEF Row
    <3>7. Busy(d)' => \A e \in Clients : e # d /\ Busy(e)' /\ call'[d].key \in Pids
                         => call'[e].key # call'[d].key
      BY <3>1, <3>3, <3>5
    <3>8. Busy(d)' => LET q == call'[d] IN
            /\ q.op = "insert" \/ q.key \in Pids
            /\ q.op = "update" /\ q.at \in {"del", "write"} => db'[q.key] # None
            /\ q.at = "write" /\ q.key \in Pids => cache'[q.key] = Miss
            /\ q.at = "fill" /\ q.key \in Pids => q.proc = [pid |-> q.key, data |-> db'[q.key]]
      BY <3>1, <3>2, <3>4, <3>5 DEF DisciplinedCallOK, Row
    <3> QED BY <3>6, <3>7, <3>8 DEF DisciplinedCallOK
  <2> QED BY <2>1, <2>2
<1> QED BY <1>1, <1>2, <1>3 DEF DisciplinedInv

\* An entry and a pending fill of a real PID hold a content, so its row exists.
LEMMA CachedRowExists ==
  ASSUME DisciplinedInv
  PROVE  /\ \A p \in Pids : cache[p] # Miss => db[p] # None
         /\ \A c \in Clients : call[c].at = "fill" /\ call[c].key \in Pids
              => db[call[c].key] # None
<1>1. \A p \in Pids : executed[p] \subseteq Contents
  BY DEF DisciplinedInv, CacheInv, TypeOK
<1>2. ASSUME NEW p \in Pids, cache[p] # Miss PROVE db[p] # None
  <2>1. cache[p].data \in executed[p] /\ cache[p] = [pid |-> p, data |-> db[p]]
    BY <1>2, ConstantsAssumption
       DEF DisciplinedInv, CacheInv, ExecutedBeforeCached, KeyedByPid, CacheTransparent,
           Stale, Row, Pids, Keys
  <2>2. db[p] \in Contents
    BY <2>1, <1>1
  <2> QED BY <2>2, ConstantsAssumption
<1>3. ASSUME NEW c \in Clients, call[c].at = "fill", call[c].key \in Pids
      PROVE  db[call[c].key] # None
  <2>1. /\ call[c].proc.pid = call[c].key
        /\ call[c].proc.data \in executed[call[c].key]
    BY <1>3 DEF DisciplinedInv, CacheInv, RequestsOK
  <2>2. call[c].proc = [pid |-> call[c].key, data |-> db[call[c].key]]
    BY <1>3 DEF DisciplinedInv, DisciplinedCallOK, Busy, Row
  <2>3. db[call[c].key] \in Contents
    BY <2>1, <2>2, <1>1, <1>3
  <2> QED BY <2>3, ConstantsAssumption
<1> QED BY <1>2, <1>3

\* A client that is inserting touches no entry of a real PID, and no row but the
\* new one, which nobody can be working on.
LEMMA InsertStep ==
  ASSUME DisciplinedInv, CacheInv', NEW c \in Clients, Busy(c),
         call[c].key \notin Pids,
         \A k \in Pids : cache'[k] = cache[k],
         nextPid' \in Nat, nextPid' >= nextPid,
         \A p \in Pids : db'[p] # db[p] => p = nextPid /\ nextPid' > nextPid,
         NEW r, call' = [call EXCEPT ![c] = r],
         r.at # "idle" => r.key \notin Pids /\ r.op = "insert"
  PROVE  DisciplinedInv'
<1>t. TypeOK
  BY DEF DisciplinedInv, CacheInv
<1>n. nextPid \in Nat /\ \A p \in Pids : p \in Nat
  BY <1>t, ConstantsAssumption DEF TypeOK, Pids
<1>0. db[nextPid] = None \/ nextPid \notin Pids
  BY <1>n DEF DisciplinedInv
<1>u. \A p \in Pids : db[p] # None => db'[p] = db[p]
  BY <1>0
<1>1. CacheTransparent'
  <2> SUFFICES ASSUME NEW p \in Pids, cache'[p] # Miss PROVE p # 0 /\ cache'[p] = [pid |-> p, data |-> db'[p]]
    BY DEF CacheTransparent, Stale, Row
  <2>1. db[p] # None
    BY CachedRowExists
  <2> QED BY <2>1, <1>u DEF DisciplinedInv, CacheTransparent, Stale, Row
<1>2. \A p \in Pids : p >= nextPid' => db'[p] = None
  BY <1>n DEF DisciplinedInv
<1>3. ASSUME NEW d \in Clients PROVE DisciplinedCallOK(d)'
  <2>1. CASE d = c
    <3>1. call'[d] = r
      BY <2>1, <1>t DEF TypeOK
    <3> QED BY <3>1 DEF DisciplinedCallOK, Busy
  <2>2. CASE d # c
    <3>1. call'[d] = call[d]
      BY <2>2, <1>t DEF TypeOK
    <3>2. Busy(d)' => Busy(d) /\ DisciplinedCallOK(d)
      BY <3>1 DEF Busy, DisciplinedInv
    <3>3. ASSUME NEW e \in Clients, e # d, Busy(e)', Busy(d)', call[d].key \in Pids
          PROVE  call'[e].key # call[d].key
      <4>1. CASE e = c
        <5>1. call'[e] = r BY <4>1, <1>t DEF TypeOK
        <5> QED BY <5>1, <3>3 DEF Busy
      <4>2. CASE e # c
        BY <4>2, <3>2, <3>3, <1>t DEF DisciplinedCallOK, Busy, TypeOK
      <4> QED BY <4>1, <4>2
    <3>4. call[d].op = "update" => call[d].key \in Pids
      BY DEF DisciplinedInv, CacheInv, RequestsOK
    <3>5. call[d].at = "fill" /\ call[d].key \in Pids => db[call[d].key] # None
      BY CachedRowExists
    <3>6. \A p : Row(p)' = [pid |-> p, data |-> db'[p]]
      BY DEF Row
    <3>7. Busy(d)' => LET q == call[d] IN
            /\ q.op = "insert" \/ q.key \in Pids
            /\ q.op = "update" /\ q.at \in {"del", "write"} => db'[q.key] # None
            /\ q.at = "write" /\ q.key \in Pids => cache'[q.key] = Miss
            /\ q.at = "fill" /\ q.key \in Pids => q.proc = [pid |-> q.key, data |-> db'[q.key]]
      BY <3>2, <3>4, <3>5, <1>u DEF DisciplinedCallOK, Row
    <3> QED BY <3>1, <3>3, <3>6, <3>7 DEF DisciplinedCallOK
  <2> QED BY <2>1, <2>2
<1> QED BY <1>1, <1>2, <1>3 DEF DisciplinedInv

\* A step of a busy client that leaves rows and PIDs alone and lets its entry be
\* or go.
LEMMA RequestStep ==
  ASSUME DisciplinedInv, CacheInv', NEW c \in Clients, Busy(c),
         UNCHANGED <<db, nextPid>>,
         \A q \in Keys : q # call[c].key => cache'[q] = cache[q],
         call[c].key \in Pids => cache'[call[c].key] \in {cache[call[c].key], Miss, Row(call[c].key)},
         NEW r, call' = [call EXCEPT ![c] = r],
         r.at # "idle" =>
           /\ r.key = call[c].key /\ r.op = call[c].op
           /\ r.at \in {"del", "write"} => call[c].at = "del"
           /\ r.at = "write" /\ r.key \in Pids => cache'[r.key] = Miss
           /\ r.at = "fill" /\ r.key \in Pids => r.proc = Row(r.key)
  PROVE  DisciplinedInv'
<1>t. TypeOK /\ nextPid \in Nat /\ DisciplinedCallOK(c)
  BY ConstantsAssumption DEF DisciplinedInv, CacheInv, TypeOK
<1>1. CASE call[c].key \in Pids
  <2> DEFINE k == call[c].key
  <2>1. cache'[k] = Miss \/ cache'[k] = [pid |-> k, data |-> db'[k]]
    BY <1>1 DEF DisciplinedInv, CacheTransparent, Stale, Row
  <2>2. r.at # "idle" =>
           /\ r.key = k
           /\ r.op = "update" /\ r.at \in {"del", "write"} => db'[k] # None
           /\ r.at = "write" => cache'[k] = Miss
           /\ r.at = "fill" => r.proc = [pid |-> k, data |-> db'[k]]
    BY <1>1, <1>t DEF DisciplinedCallOK, Row
  <2> HIDE DEF k
  <2>3. k = call[c].key
    BY DEF k
  <2> QED BY <1>1, <2>1, <2>2, <2>3, OwnPidStep
<1>2. CASE call[c].key \notin Pids
  <2>1. \A q \in Pids : cache'[q] = cache[q]
    BY <1>2, ConstantsAssumption DEF Pids, Keys
  <2>2. r.at # "idle" => r.key \notin Pids /\ r.op = "insert"
    BY <1>2, <1>t DEF DisciplinedCallOK
  <2>3. nextPid' \in Nat /\ nextPid' >= nextPid
    BY <1>t
  <2>4. \A p \in Pids : db'[p] # db[p] => p = nextPid /\ nextPid' > nextPid
    OBVIOUS
  <2> QED BY <1>2, <2>1, <2>2, <2>3, <2>4, InsertStep
<1> QED BY <1>1, <1>2

LEMMA DisciplinedInvStep == DisciplinedInv /\ [DisciplinedNext]_vars => DisciplinedInv'
<1> SUFFICES ASSUME DisciplinedInv, [DisciplinedNext]_vars PROVE DisciplinedInv'
  OBVIOUS
<1>t. CacheInv /\ CacheInv' /\ TypeOK
  BY DisciplinedIsNext, CacheInvStep DEF DisciplinedInv, CacheInv
<1>c. \A c \in Clients : DisciplinedCallOK(c) /\ CallOK(call[c], executed)
  BY <1>t DEF DisciplinedInv, CacheInv, RequestsOK, CallOK
<1>r. \A c \in Clients : \A r : Return(c, r) => call' = [call EXCEPT ![c] = Idle] /\ Idle.at = "idle"
  BY DEF Return, Idle
<1>1. ASSUME NEW c \in Clients, DisciplinedCall(c) PROVE DisciplinedInv'
  <2>1. \A at, op, proc : Begin(c, at, op, proc) /\ at \in {"get", "del"}
            /\ (proc.pid \in Pids => Exclusive(proc.pid))
            /\ (op = "insert" \/ proc.pid \in Pids)
            /\ (op = "update" => db[proc.pid] # None)
          => DisciplinedInv'
    <3> SUFFICES ASSUME NEW at, NEW op, NEW proc, Begin(c, at, op, proc), at \in {"get", "del"},
                        proc.pid \in Pids => Exclusive(proc.pid),
                        op = "insert" \/ proc.pid \in Pids,
                        op = "update" => db[proc.pid] # None
                 PROVE  DisciplinedInv'
      OBVIOUS
    <3> DEFINE r == [at |-> at, op |-> op, key |-> proc.pid, proc |-> proc]
    <3>1. /\ call'[c] = r
          /\ \A d \in Clients : d # c => call'[d] = call[d]
          /\ UNCHANGED <<db, nextPid, cache>>
      BY <1>t DEF Begin, TypeOK
    <3>2. /\ r.at \in {"get", "del"} /\ r.op = op /\ r.key = proc.pid
      OBVIOUS
    <3>3. DisciplinedCallOK(c)'
      BY <3>1, <3>2 DEF DisciplinedCallOK, Busy, Exclusive
    <3>4. ASSUME NEW d \in Clients, d # c PROVE DisciplinedCallOK(d)'
      <4>1. call'[d] = call[d] /\ (Busy(d)' => Busy(d))
        BY <3>1, <3>4 DEF Busy
      <4>2. ASSUME NEW e \in Clients, e # d, Busy(e)', Busy(d), call[d].key \in Pids
            PROVE  call'[e].key # call[d].key
        <5>1. CASE e = c
          BY <5>1, <3>1, <3>2, <4>2 DEF Exclusive
        <5>2. CASE e # c
          BY <5>2, <3>1, <4>2, <1>c DEF DisciplinedCallOK, Busy
        <5> QED BY <5>1, <5>2
      <4> QED BY <3>1, <4>1, <4>2, <1>c DEF DisciplinedCallOK, Row
    <3>5. CacheTransparent' /\ \A p \in Pids : p >= nextPid' => db'[p] = None
      BY <3>1 DEF DisciplinedInv, CacheTransparent, Stale, Row
    <3> QED BY <3>3, <3>4, <3>5, <1>t DEF DisciplinedInv
  <2>2. ASSUME NEW p \in Pids, Exclusive(p),
               \/ CallGet(c, p)
               \/ CallDelete(c, p)
               \/ db[p] # None /\ \E d \in Contents : CallUpsert(c, p, d)
        PROVE  DisciplinedInv'
    <3>1. CASE CallGet(c, p)
      BY <2>1, <2>2, <3>1 DEF CallGet
    <3>2. CASE CallDelete(c, p)
      BY <2>1, <2>2, <3>2 DEF CallDelete
    <3>3. CASE db[p] # None /\ \E d \in Contents : CallUpsert(c, p, d)
      BY <2>1, <2>2, <3>3, ConstantsAssumption DEF CallUpsert, Pids
    <3> QED BY <2>2, <3>1, <3>2, <3>3
  <2>3. ASSUME NEW d \in Contents, CallUpsert(c, 0, d) PROVE DisciplinedInv'
    BY <2>1, <2>3, ConstantsAssumption DEF CallUpsert, Pids
  <2> QED BY <1>1, <2>2, <2>3 DEF DisciplinedCall
<1>2. ASSUME NEW c \in Clients, GetFromCache(c) PROVE DisciplinedInv'
  <2>1. Busy(c) /\ call[c].at = "get" /\ UNCHANGED <<db, nextPid, cache>>
    BY <1>2 DEF GetFromCache, Busy
  <2>2. CASE call' = [call EXCEPT ![c] = Idle]
    BY <2>1, <2>2, <1>t, RequestStep DEF Idle
  <2>3. CASE Goto(c, "query", call[c].proc)
    BY <2>1, <2>3, <1>t, GotoCall, RequestStep
  <2> QED BY <1>2, <2>2, <2>3 DEF GetFromCache, Return
<1>3. ASSUME NEW c \in Clients, DeleteFromCache(c) PROVE DisciplinedInv'
  <2>1. /\ Busy(c) /\ call[c].at = "del" /\ UNCHANGED <<db, nextPid>>
        /\ cache' \in {cache, [cache EXCEPT ![call[c].key] = Miss]}
        /\ \/ call' = [call EXCEPT ![c] = Idle]
           \/ Goto(c, "write", call[c].proc) /\ cache' = [cache EXCEPT ![call[c].key] = Miss]
    BY <1>3 DEF DeleteFromCache, Busy, Executed, Return
  <2>2. /\ \A q \in Keys : q # call[c].key => cache'[q] = cache[q]
        /\ cache'[call[c].key] \in {cache[call[c].key], Miss}
    BY <2>1, <1>t DEF TypeOK
  <2>3. CASE call' = [call EXCEPT ![c] = Idle]
    BY <2>1, <2>2, <2>3, <1>t, RequestStep DEF Idle
  <2>4. CASE Goto(c, "write", call[c].proc) /\ cache' = [cache EXCEPT ![call[c].key] = Miss]
    <3>1. cache'[call[c].key] = Miss
      BY <2>4, <1>t DEF TypeOK
    <3> QED BY <2>1, <2>2, <2>4, <3>1, <1>t, GotoCall, RequestStep
  <2> QED BY <2>1, <2>3, <2>4
<1>4. ASSUME NEW c \in Clients, SetToCache(c) PROVE DisciplinedInv'
  <2>1. /\ Busy(c) /\ call[c].at = "fill" /\ UNCHANGED <<db, nextPid>>
        /\ cache' \in {cache, [cache EXCEPT ![call[c].key] = call[c].proc]}
        /\ call' = [call EXCEPT ![c] = Idle]
    BY <1>4 DEF SetToCache, Busy, Return
  <2>2. /\ \A q \in Keys : q # call[c].key => cache'[q] = cache[q]
        /\ cache'[call[c].key] \in {cache[call[c].key], call[c].proc}
    BY <2>1, <1>t DEF TypeOK
  <2>3. call[c].key \in Pids => call[c].proc = Row(call[c].key)
    BY <2>1, <1>c DEF DisciplinedCallOK
  <2> QED BY <2>1, <2>2, <2>3, <1>t, RequestStep DEF Idle
<1>5. ASSUME NEW c \in Clients, QueryProcess(c) PROVE DisciplinedInv'
  <2>1. Busy(c) /\ UNCHANGED <<db, nextPid, cache>>
    BY <1>5 DEF QueryProcess, Busy
  <2>2. CASE call' = [call EXCEPT ![c] = Idle]
    BY <2>1, <2>2, <1>t, RequestStep DEF Idle
  <2>3. CASE Goto(c, "fill", Row(call[c].key))
    <3> DEFINE r == [at |-> "fill", op |-> call[c].op, key |-> call[c].key, proc |-> Row(call[c].key)]
    <3>1. call' = [call EXCEPT ![c] = r]
      BY <2>3, <1>t, GotoCall
    <3>2. r.at = "fill" /\ r.op = call[c].op /\ r.key = call[c].key /\ r.proc = Row(r.key)
      OBVIOUS
    <3> HIDE DEF r
    <3> QED BY <2>1, <3>1, <3>2, <1>t, RequestStep
  <2> QED BY <1>5, <2>2, <2>3 DEF QueryProcess, Return
<1>6. ASSUME NEW c \in Clients, InsertProcess(c) PROVE DisciplinedInv'
  <2>1. /\ Busy(c) /\ call[c].op = "insert" /\ cache' = cache
        /\ call[c].key \notin Pids
    BY <1>6, <1>c, ConstantsAssumption DEF InsertProcess, Busy, CallOK, Pids
  <2>2. nextPid' \in Nat /\ nextPid' >= nextPid /\ nextPid \in Nat
    BY <1>6, <1>t, ConstantsAssumption DEF InsertProcess, TypeOK, Pids
  <2>3. \A p \in Pids : db'[p] # db[p] => p = nextPid /\ nextPid' > nextPid
    BY <1>6, <1>t, <2>2 DEF InsertProcess, TypeOK
  <2>4. CASE call' = [call EXCEPT ![c] = Idle]
    BY <2>1, <2>2, <2>3, <2>4, <1>t, InsertStep DEF Idle
  <2>5. CASE Goto(c, "fill", [call[c].proc EXCEPT !.pid = nextPid])
    BY <2>1, <2>2, <2>3, <2>5, <1>t, GotoCall, InsertStep
  <2> QED BY <1>6, <2>4, <2>5 DEF InsertProcess, Return
<1>7. ASSUME NEW c \in Clients, UpdateProcess(c) PROVE DisciplinedInv'
  <2> DEFINE k == call[c].key
             d == call[c].proc.data
  <2>1. /\ Busy(c) /\ cache' = cache /\ nextPid' = nextPid
        /\ call[c].at = "write" /\ call[c].op = "update"
    BY <1>7 DEF UpdateProcess, Busy
  <2>2. /\ k \in Pids /\ db[k] # None /\ cache[k] = Miss
        /\ call[c].proc.pid = k
    BY <2>1, <1>c DEF CallOK, DisciplinedCallOK
  <2>3. \/ db' \in {db, [db EXCEPT ![k] = d]} /\ call' = [call EXCEPT ![c] = Idle]
        \/ db' = [db EXCEPT ![k] = d] /\ Goto(c, "fill", call[c].proc)
    BY <1>7, <2>2 DEF UpdateProcess, Executed, Return
  <2>4. \A p \in Pids : p # k => db'[p] = db[p]
    BY <2>3, <1>t DEF TypeOK
  <2>5. CASE call' = [call EXCEPT ![c] = Idle]
    BY <2>1, <2>2, <2>4, <2>5, <1>t, OwnPidStep DEF Idle
  <2>6. CASE db' = [db EXCEPT ![k] = d] /\ Goto(c, "fill", call[c].proc)
    <3>1. call[c].proc = [pid |-> k, data |-> db'[k]]
      BY <2>2, <2>6, <1>t DEF TypeOK, Process
    <3> DEFINE r == [at |-> "fill", op |-> call[c].op, key |-> k, proc |-> call[c].proc]
    <3>2. call' = [call EXCEPT ![c] = r]
      BY <2>6, <1>t, GotoCall
    <3>3. r.at = "fill" /\ r.key = k /\ r.proc = [pid |-> k, data |-> db'[k]]
      BY <3>1
    <3> HIDE DEF r
    <3> QED BY <2>1, <2>2, <2>4, <3>2, <3>3, <1>t, OwnPidStep
  <2> QED BY <2>3, <2>5, <2>6
<1>8. ASSUME NEW c \in Clients, DeleteProcess(c) PROVE DisciplinedInv'
  <2> DEFINE k == call[c].key
  <2>1. /\ Busy(c) /\ UNCHANGED <<cache, nextPid>>
        /\ call[c].at = "write" /\ call[c].op = "delete"
        /\ call' = [call EXCEPT ![c] = Idle]
        /\ db' \in {db, [db EXCEPT ![k] = None]}
    BY <1>8 DEF DeleteProcess, Busy, Return
  <2>2. k \in Pids /\ cache[k] = Miss
    BY <2>1, <1>c DEF DisciplinedCallOK
  <2>3. /\ \A p \in Pids : p # k => db'[p] = db[p]
        /\ db[k] = None => db'[k] = None
    BY <2>1, <2>2, <1>t DEF TypeOK
  <2> QED BY <2>1, <2>2, <2>3, <1>t, OwnPidStep DEF Idle
<1>9. ASSUME NEW c \in Clients, Crash(c) PROVE DisciplinedInv'
  BY <1>9, <1>t, RequestStep DEF Crash, Return, Idle
<1>10. ASSUME NEW k \in Keys, Expire(k) PROVE DisciplinedInv'
  <2>1. /\ \A q \in Keys : cache'[q] \in {cache[q], Miss}
        /\ UNCHANGED <<db, nextPid, call>>
    BY <1>10, <1>t DEF Expire, TypeOK
  <2>2. \A q \in Pids : q \in Keys
    BY DEF Pids, Keys
  <2>3. CacheTransparent'
    BY <2>1, <2>2 DEF DisciplinedInv, CacheTransparent, Stale, Row
  <2>4. \A c \in Clients : DisciplinedCallOK(c)'
    BY <2>1, <2>2, <1>c DEF DisciplinedCallOK, Busy, Row
  <2> QED BY <2>1, <2>3, <2>4, <1>t DEF DisciplinedInv
<1>11. CASE UNCHANGED vars
  BY <1>11, <1>t DEF vars, DisciplinedInv, CacheTransparent, Stale, Row, DisciplinedCallOK, Busy
<1> QED
  BY <1>1, <1>2, <1>3, <1>4, <1>5, <1>6, <1>7, <1>8, <1>9, <1>10, <1>11
     DEF DisciplinedNext, Request

\* Any number of clients, any contents, lost requests and crashes included: as
\* long as the calls about one PID do not overlap, what Redis holds for a PID is
\* the row MySQL holds.
THEOREM DisciplinedCacheTransparent == DisciplinedSpec => []CacheTransparent
<1>1. DisciplinedInv => CacheTransparent
  BY DEF DisciplinedInv
<1> QED BY <1>1, DisciplinedInvInit, DisciplinedInvStep, PTL DEF DisciplinedSpec

(***************************************************************************)
(* Refinement: under disciplined use the cache protocol implements         *)
(* ProcessStore.  Every step maps to a step of the store or to none.       *)
(***************************************************************************)

\* Which kinds of call are at which requests, and what a query and a delete hold.
CallShape(r) ==
  /\ r.at \in {"get", "query"} => r.op = "get" /\ r.proc.pid = r.key
  /\ r.at \in {"del", "write"} => r.op \in {"insert", "update", "delete"}
  /\ r.at \in {"del", "write"} /\ r.op = "delete" =>
       r.proc.pid = r.key /\ r.proc.data = None
  /\ r.at = "fill" => r.op \in {"get", "insert", "update"}

ShapeInv == \A c \in Clients : CallShape(call[c])

StoreInv == DisciplinedInv /\ ShapeInv

\* The store does not see the call of a client that is idle.
LEMMA IdleUnseen == PendingCall(Idle) = Store!NoCall /\ CallShape(Idle)
BY DEF PendingCall, Idle, Store!NoCall, CallShape

\* One client's step shows in its own call only.
LEMMA OwnCall ==
  ASSUME TypeOK, NEW c \in Clients, NEW r, call' = [call EXCEPT ![c] = r]
  PROVE  /\ Pending' = [Pending EXCEPT ![c] = PendingCall(r)]
         /\ ShapeInv /\ CallShape(r) => ShapeInv'
<1>1. \A d \in Clients : call'[d] = IF d = c THEN r ELSE call[d]
  BY DEF TypeOK
<1>2. ShapeInv /\ CallShape(r) => ShapeInv'
  BY <1>1 DEF ShapeInv
<1>3. Pending' = [d \in Clients |-> IF d = c THEN PendingCall(r) ELSE PendingCall(call[d])]
  BY <1>1 DEF Pending
<1>4. [Pending EXCEPT ![c] = PendingCall(r)] =
        [d \in Clients |-> IF d = c THEN PendingCall(r) ELSE PendingCall(call[d])]
  BY DEF Pending
<1> QED BY <1>2, <1>3, <1>4

\* A call that gives up is a failing call of the store.
LEMMA GivesUp ==
  ASSUME StoreInv, NEW c \in Clients, Busy(c), Return(c, Failed), UNCHANGED db,
         \/ UNCHANGED nextPid
         \/ call[c].op = "insert" /\ nextPid \in Pids /\ nextPid' = nextPid + 1
  PROVE  Store!Next /\ ShapeInv'
<1>1. TypeOK /\ CallShape(call[c])
  BY DEF StoreInv, DisciplinedInv, CacheInv, ShapeInv
<1>2. call[c].at # "idle" /\ call[c].op # "none"
  BY <1>1 DEF CallShape, Busy, TypeOK
<1>3. Pending[c] = PendingCall(call[c]) /\ Pending[c].op = call[c].op
  BY <1>2 DEF Pending, PendingCall
<1>4. Pending[c] # Store!NoCall
  BY <1>2, <1>3 DEF Store!NoCall
<1>5. Pending' = [Pending EXCEPT ![c] = Store!NoCall] /\ ShapeInv'
  BY <1>1, OwnCall, IdleUnseen DEF Return, StoreInv
<1>6. Store!Fail(c)
  BY <1>3, <1>4, <1>5 DEF Store!Fail, Store!Return, Return, Store!Failed, Store!Blank,
     Failed, Miss, Store!Pids, Pids
<1> QED BY <1>5, <1>6 DEF Store!Next

\* A step that leaves rows, answers and what the store sees of the call alone.
LEMMA Unseen ==
  ASSUME StoreInv, NEW c \in Clients, NEW r, call' = [call EXCEPT ![c] = r],
         PendingCall(r) = PendingCall(call[c]), CallShape(r),
         UNCHANGED <<db, nextPid, reply>>
  PROVE  UNCHANGED Store!storeVars /\ ShapeInv'
<1>1. TypeOK
  BY DEF StoreInv, DisciplinedInv, CacheInv
<1>2. Pending' = [Pending EXCEPT ![c] = PendingCall(call[c])] /\ ShapeInv'
  BY <1>1, OwnCall DEF StoreInv
<1>3. Pending' = Pending
  BY <1>2 DEF Pending
<1> QED BY <1>2, <1>3 DEF Store!storeVars

StoreStep == [Store!Next]_(Store!storeVars)

\* A call begins: the store sees what was asked for.
LEMMA CallStep ==
  ASSUME StoreInv, NEW c \in Clients, DisciplinedCall(c) PROVE StoreStep /\ ShapeInv'
<1>1. TypeOK
  BY DEF StoreInv, DisciplinedInv, CacheInv
<1>2. ASSUME NEW at, NEW op, NEW proc, Begin(c, at, op, proc)
      PROVE  LET r == [at |-> at, op |-> op, key |-> proc.pid, proc |-> proc]
             IN /\ Pending[c] = Store!NoCall
                /\ Pending' = [Pending EXCEPT ![c] = PendingCall(r)]
                /\ CallShape(r) => ShapeInv'
                /\ reply' = [reply EXCEPT ![c] = Store!Waiting]
                /\ UNCHANGED <<db, nextPid>>
  <2> DEFINE r == [at |-> at, op |-> op, key |-> proc.pid, proc |-> proc]
  <2>1. call' = [call EXCEPT ![c] = r]
    BY <1>2 DEF Begin
  <2> HIDE DEF r
  <2>2. Pending' = [Pending EXCEPT ![c] = PendingCall(r)] /\ (CallShape(r) => ShapeInv')
    BY <1>1, <2>1, OwnCall DEF StoreInv
  <2>3. Pending[c] = Store!NoCall
    BY <1>2 DEF Pending, PendingCall, Begin, Busy, Store!NoCall
  <2>4. reply' = [reply EXCEPT ![c] = Store!Waiting] /\ UNCHANGED <<db, nextPid>>
    BY <1>2 DEF Begin, Waiting, Miss, Store!Waiting, Store!Blank
  <2> QED BY <2>2, <2>3, <2>4 DEF r
<1>3. ASSUME NEW p \in Pids, CallGet(c, p) PROVE Store!Call(c) /\ ShapeInv'
  <2> DEFINE proc == [pid |-> p, data |-> None]
             r == [at |-> "get", op |-> "get", key |-> p, proc |-> proc]
  <2>1. PendingCall(r) = [op |-> "get", pid |-> p, data |-> None, done |-> FALSE] /\ CallShape(r)
    BY DEF PendingCall, CallShape
  <2>2. /\ Pending[c] = Store!NoCall
        /\ Pending' = [Pending EXCEPT ![c] = PendingCall(r)] /\ (CallShape(r) => ShapeInv')
        /\ reply' = [reply EXCEPT ![c] = Store!Waiting] /\ UNCHANGED <<db, nextPid>>
    BY <1>2, <1>3 DEF CallGet
  <2> HIDE DEF r
  <2>3. Pending' = [Pending EXCEPT ![c] = [op |-> "get", pid |-> p, data |-> None, done |-> FALSE]]
    BY <2>1, <2>2
  <2>4. p \in Store!Pids
    BY DEF Store!Pids, Pids
  <2>5. \E q \in Store!Pids, op \in {"get", "delete"} :
          Pending' = [Pending EXCEPT ![c] = [op |-> op, pid |-> q, data |-> None, done |-> FALSE]]
    BY <2>3, <2>4
  <2> QED BY <2>1, <2>2, <2>5 DEF Store!Call
<1>4. ASSUME NEW p \in Pids, CallDelete(c, p) PROVE Store!Call(c) /\ ShapeInv'
  <2> DEFINE proc == [pid |-> p, data |-> None]
             r == [at |-> "del", op |-> "delete", key |-> p, proc |-> proc]
  <2>1. PendingCall(r) = [op |-> "delete", pid |-> p, data |-> None, done |-> FALSE] /\ CallShape(r)
    BY DEF PendingCall, CallShape
  <2>2. /\ Pending[c] = Store!NoCall
        /\ Pending' = [Pending EXCEPT ![c] = PendingCall(r)] /\ (CallShape(r) => ShapeInv')
        /\ reply' = [reply EXCEPT ![c] = Store!Waiting] /\ UNCHANGED <<db, nextPid>>
    BY <1>2, <1>4 DEF CallDelete
  <2> HIDE DEF r
  <2>3. Pending' = [Pending EXCEPT ![c] = [op |-> "delete", pid |-> p, data |-> None, done |-> FALSE]]
    BY <2>1, <2>2
  <2>4. p \in Store!Pids
    BY DEF Store!Pids, Pids
  <2>5. \E q \in Store!Pids, op \in {"get", "delete"} :
          Pending' = [Pending EXCEPT ![c] = [op |-> op, pid |-> q, data |-> None, done |-> FALSE]]
    BY <2>3, <2>4
  <2> QED BY <2>1, <2>2, <2>5 DEF Store!Call
<1>5. ASSUME NEW p \in Keys, NEW d \in Contents, CallUpsert(c, p, d)
      PROVE  Store!Call(c) /\ ShapeInv'
  <2> DEFINE op == IF p = 0 THEN "insert" ELSE "update"
             proc == [pid |-> p, data |-> d]
             r == [at |-> "del", op |-> op, key |-> p, proc |-> proc]
  <2>1. PendingCall(r) = [op |-> op, pid |-> p, data |-> d, done |-> FALSE] /\ CallShape(r)
    BY DEF PendingCall, CallShape
  <2>2. /\ Pending[c] = Store!NoCall
        /\ Pending' = [Pending EXCEPT ![c] = PendingCall(r)] /\ (CallShape(r) => ShapeInv')
        /\ reply' = [reply EXCEPT ![c] = Store!Waiting] /\ UNCHANGED <<db, nextPid>>
    BY <1>2, <1>5 DEF CallUpsert
  <2>3. p = 0 \/ p \in Store!Pids
    BY DEF Keys, Store!Pids
  <2> HIDE DEF r
  <2> QED BY <2>1, <2>2, <2>3 DEF Store!Call
<1>6. Store!Call(c) /\ ShapeInv'
  BY <1>3, <1>4, <1>5, ConstantsAssumption DEF DisciplinedCall, Pids, Keys
<1> QED BY <1>6 DEF StoreStep, Store!Next

\* Whatever becomes of a query on its way, it is answered with the row.
LEMMA QueryStep ==
  ASSUME StoreInv, NEW c \in Clients, GetFromCache(c) \/ QueryProcess(c)
  PROVE  StoreStep /\ ShapeInv'
<1> DEFINE k == call[c].key
<1>1. /\ TypeOK /\ CallShape(call[c]) /\ DisciplinedCallOK(c) /\ CacheTransparent
      /\ call[c].at \in {"get", "query"} /\ Busy(c)
  BY DEF StoreInv, DisciplinedInv, CacheInv, ShapeInv, GetFromCache, QueryProcess, Busy
<1>2. call[c].op = "get" /\ call[c].proc.pid = k /\ k \in Pids
  BY <1>1 DEF CallShape, DisciplinedCallOK
<1>3. Pending[c].pid = k /\ Pending[c].op = "get"
  BY <1>1, <1>2 DEF Pending, PendingCall, Busy
<1>4. UNCHANGED <<db, nextPid>>
  BY DEF GetFromCache, QueryProcess
<1>5. CASE Goto(c, "query", call[c].proc)
  <2> DEFINE r == [at |-> "query", op |-> call[c].op, key |-> k, proc |-> call[c].proc]
  <2>1. call' = [call EXCEPT ![c] = r] /\ reply' = reply
    BY <1>1, <1>5, GotoCall DEF Goto
  <2>2. PendingCall(r) = PendingCall(call[c]) /\ CallShape(r)
    BY <1>1, <1>2 DEF PendingCall, CallShape
  <2> HIDE DEF r
  <2> QED BY <1>4, <2>1, <2>2, Unseen DEF StoreStep
<1>6. CASE Goto(c, "fill", Row(k))
  <2> DEFINE r == [at |-> "fill", op |-> call[c].op, key |-> k, proc |-> Row(k)]
  <2>1. call' = [call EXCEPT ![c] = r] /\ reply' = reply
    BY <1>1, <1>6, GotoCall DEF Goto
  <2>2. PendingCall(r) = PendingCall(call[c]) /\ CallShape(r)
    BY <1>1, <1>2 DEF PendingCall, CallShape, Row
  <2> HIDE DEF r
  <2> QED BY <1>4, <2>1, <2>2, Unseen DEF StoreStep
<1>7. CASE cache[k] # Miss /\ Return(c, Ok(cache[k]))
  <2>1. cache[k] = Row(k) /\ db[k] # None
    BY <1>2, <1>7, <1>1, CachedRowExists DEF CacheTransparent, Stale, StoreInv
  <2>2. Ok(cache[k]) = Store!Answer(k, db[k])
    BY <2>1 DEF Ok, Row, Store!Answer
  <2>3. Pending' = [Pending EXCEPT ![c] = Store!NoCall] /\ ShapeInv'
    BY <1>1, <1>7, OwnCall, IdleUnseen DEF Return, StoreInv
  <2>4. Store!Read(c)
    BY <1>3, <1>4, <1>7, <2>1, <2>2, <2>3 DEF Return, Store!Read, Store!Return
  <2> QED BY <2>3, <2>4 DEF StoreStep, Store!Next
<1>8. CASE Return(c, Failed)
  BY <1>1, <1>4, <1>8, GivesUp DEF StoreStep
<1> QED BY <1>5, <1>6, <1>7, <1>8 DEF GetFromCache, QueryProcess

\* The delete of the entry, which the store does not see.
LEMMA DeleteEntryStep ==
  ASSUME StoreInv, NEW c \in Clients, DeleteFromCache(c) PROVE StoreStep /\ ShapeInv'
<1>1. /\ TypeOK /\ CallShape(call[c]) /\ call[c].at = "del" /\ Busy(c)
      /\ UNCHANGED <<db, nextPid>>
  BY DEF StoreInv, DisciplinedInv, CacheInv, ShapeInv, DeleteFromCache, Busy
<1>2. CASE Goto(c, "write", call[c].proc)
  <2> DEFINE r == [at |-> "write", op |-> call[c].op, key |-> call[c].key,
                   proc |-> call[c].proc]
  <2>1. call' = [call EXCEPT ![c] = r] /\ reply' = reply
    BY <1>1, <1>2, GotoCall DEF Goto
  <2>2. PendingCall(r) = PendingCall(call[c]) /\ CallShape(r)
    BY <1>1 DEF PendingCall, CallShape
  <2> HIDE DEF r
  <2> QED BY <1>1, <2>1, <2>2, Unseen DEF StoreStep
<1>3. CASE Return(c, Failed)
  BY <1>1, <1>3, GivesUp DEF StoreStep
<1> QED BY <1>2, <1>3 DEF DeleteFromCache

\* The fill ends a query with its row, and a write with what it stored.
LEMMA FillStep ==
  ASSUME StoreInv, NEW c \in Clients, SetToCache(c) PROVE StoreStep /\ ShapeInv'
<1> DEFINE k == call[c].key
           proc == call[c].proc
<1>1. /\ TypeOK /\ CallShape(call[c]) /\ DisciplinedCallOK(c)
      /\ call[c].at = "fill" /\ Busy(c) /\ UNCHANGED <<db, nextPid>>
  BY DEF StoreInv, DisciplinedInv, CacheInv, ShapeInv, SetToCache, Busy
<1>2. proc = [pid |-> proc.pid, data |-> proc.data]
  BY <1>1 DEF TypeOK, Process
<1>3. CASE Return(c, Failed)
  BY <1>1, <1>3, GivesUp DEF StoreStep
<1>4. CASE Return(c, Ok(proc)) /\ call[c].op = "get"
  <2>1. k \in Pids /\ proc = Row(k) /\ db[k] # None
    BY <1>1, <1>4, CachedRowExists DEF DisciplinedCallOK, StoreInv
  <2>2. Pending[c].op = "get" /\ Pending[c].pid = k
    BY <1>1, <1>4, <2>1 DEF Pending, PendingCall, Row
  <2>3. Ok(proc) = Store!Answer(k, db[k])
    BY <2>1 DEF Ok, Row, Store!Answer
  <2>4. Pending' = [Pending EXCEPT ![c] = Store!NoCall] /\ ShapeInv'
    BY <1>1, <1>4, OwnCall, IdleUnseen DEF Return, StoreInv
  <2>5. Store!Read(c)
    BY <1>1, <1>4, <2>1, <2>2, <2>3, <2>4 DEF Return, Store!Read, Store!Return
  <2> QED BY <2>4, <2>5 DEF StoreStep, Store!Next
<1>5. CASE Return(c, Ok(proc)) /\ call[c].op # "get"
  <2>1. Pending[c].done /\ Pending[c].pid = proc.pid /\ Pending[c].data = proc.data
    BY <1>1, <1>5 DEF Pending, PendingCall
  <2>2. Ok(proc) = Store!Answer(Pending[c].pid, Pending[c].data)
    BY <1>2, <2>1 DEF Ok, Store!Answer
  <2>3. Pending' = [Pending EXCEPT ![c] = Store!NoCall] /\ ShapeInv'
    BY <1>1, <1>5, OwnCall, IdleUnseen DEF Return, StoreInv
  <2>4. Store!Acknowledge(c)
    BY <1>1, <1>5, <2>1, <2>2, <2>3 DEF Return, Store!Acknowledge, Store!Return
  <2> QED BY <2>3, <2>4 DEF StoreStep, Store!Next
<1> QED BY <1>3, <1>4, <1>5 DEF SetToCache

\* A write that MySQL executes is a commit of the store, whether the call goes on
\* to fill the cache, is answered, or hears of an error.
LEMMA CommitStep ==
  ASSUME StoreInv, NEW c \in Clients, call[c].at = "write",
         NEW p \in Pids, db' = [db EXCEPT ![p] = call[c].proc.data],
         \/ /\ call[c].op \in {"insert", "update"}
            /\ Goto(c, "fill", [pid |-> p, data |-> call[c].proc.data])
         \/ call[c].op = "delete" /\ Return(c, Ok(call[c].proc)) /\ call[c].proc.pid = p
         \/ Return(c, Failed)
  PROVE  Store!Commit(c, p) /\ ShapeInv'
<1> DEFINE d == call[c].proc.data
<1>1. /\ TypeOK /\ CallShape(call[c]) /\ call[c].op \in {"insert", "update", "delete"}
      /\ call[c].proc = [pid |-> call[c].proc.pid, data |-> d]
  BY DEF StoreInv, DisciplinedInv, CacheInv, ShapeInv, CallShape, TypeOK, Process
<1>2. Pending[c] = [op |-> call[c].op, pid |-> call[c].proc.pid, data |-> d, done |-> FALSE]
  BY <1>1 DEF Pending, PendingCall
<1>3. ~Pending[c].done /\ Pending[c].data = d
  BY <1>2
<1>4. CASE \/ Return(c, Failed)
           \/ Return(c, Ok(call[c].proc)) /\ call[c].proc.pid = p
  <2>1. Pending' = [Pending EXCEPT ![c] = Store!NoCall] /\ ShapeInv'
    BY <1>1, <1>4, OwnCall, IdleUnseen DEF Return, StoreInv
  <2>2. reply' = [reply EXCEPT ![c] = Store!Failed]
        \/ reply' = [reply EXCEPT ![c] = Store!Answer(p, d)]
    BY <1>1, <1>4 DEF Return, Ok, Store!Answer, Failed, Miss, Store!Failed, Store!Blank
  <2> QED BY <1>3, <2>1, <2>2 DEF Store!Commit, Store!Return
<1>5. CASE /\ call[c].op \in {"insert", "update"}
           /\ Goto(c, "fill", [pid |-> p, data |-> d])
  <2> DEFINE r == [at |-> "fill", op |-> call[c].op, key |-> call[c].key,
                   proc |-> [pid |-> p, data |-> d]]
  <2>1. call' = [call EXCEPT ![c] = r] /\ reply' = reply
    BY <1>1, <1>5, GotoCall DEF Goto
  <2>2. /\ PendingCall(r) = [op |-> call[c].op, pid |-> p, data |-> d, done |-> TRUE]
        /\ CallShape(r)
    BY <1>5 DEF PendingCall, CallShape
  <2> HIDE DEF r
  <2>3. Pending' = [Pending EXCEPT ![c] =
                      [op |-> call[c].op, pid |-> p, data |-> d, done |-> TRUE]]
        /\ ShapeInv'
    BY <1>1, <2>1, <2>2, OwnCall DEF StoreInv
  <2>4. Pending' = [Pending EXCEPT ![c] = [op |-> Pending[c].op, pid |-> p,
                                           data |-> Pending[c].data, done |-> TRUE]]
    BY <1>2, <2>3
  <2>5. db' = [db EXCEPT ![p] = Pending[c].data]
    BY <1>3
  <2> QED BY <1>3, <2>1, <2>3, <2>4, <2>5 DEF Store!Commit
<1> QED BY <1>4, <1>5

\* Each of the three writes is a write of the store, or a failing call.
LEMMA WriteStep ==
  ASSUME StoreInv, NEW c \in Clients,
         InsertProcess(c) \/ UpdateProcess(c) \/ DeleteProcess(c)
  PROVE  StoreStep /\ ShapeInv'
<1> DEFINE k == call[c].key
           d == call[c].proc.data
<1>1. /\ TypeOK /\ CallShape(call[c]) /\ DisciplinedCallOK(c) /\ CallOK(call[c], executed)
      /\ call[c].at = "write" /\ Busy(c)
  BY DEF StoreInv, DisciplinedInv, CacheInv, ShapeInv, RequestsOK, CallOK, Busy,
         InsertProcess, UpdateProcess, DeleteProcess
<1>2. Pending[c].op = call[c].op /\ Pending[c].pid = call[c].proc.pid
  BY <1>1 DEF Pending, PendingCall
<1>3. ASSUME Return(c, Failed), UNCHANGED <<db, nextPid>> PROVE StoreStep /\ ShapeInv'
  BY <1>1, <1>3, GivesUp DEF StoreStep
<1>4. ASSUME InsertProcess(c) PROVE StoreStep /\ ShapeInv'
  <2>1. call[c].op = "insert"
    BY <1>4 DEF InsertProcess
  <2>2. CASE /\ nextPid \in Pids
             /\ db' = [db EXCEPT ![nextPid] = d]
             /\ nextPid' = nextPid + 1
             /\ \/ Goto(c, "fill", [call[c].proc EXCEPT !.pid = nextPid])
                \/ Return(c, Failed)
    <3>1. [call[c].proc EXCEPT !.pid = nextPid] = [pid |-> nextPid, data |-> d]
      BY <1>1 DEF TypeOK, Process
    <3>2. Store!Commit(c, nextPid) /\ ShapeInv'
      BY <1>1, <2>1, <2>2, <3>1, CommitStep
    <3>3. Store!Write(c)
      BY <1>2, <2>1, <2>2, <3>2 DEF Store!Write, Store!Pids, Pids
    <3> QED BY <3>2, <3>3 DEF StoreStep, Store!Next
  <2>3. CASE /\ nextPid' \in {nextPid, nextPid + 1} \cap (1 .. MaxPid + 1)
             /\ Return(c, Failed) /\ db' = db
    <3>1. \/ nextPid' = nextPid
          \/ nextPid \in Pids /\ nextPid' = nextPid + 1
      BY <1>1, <2>3, ConstantsAssumption DEF TypeOK, Pids
    <3> QED BY <1>1, <2>1, <2>3, <3>1, GivesUp DEF StoreStep
  <2> QED BY <1>4, <2>2, <2>3 DEF InsertProcess
<1>5. ASSUME UpdateProcess(c) PROVE StoreStep /\ ShapeInv'
  <2>1. /\ call[c].op = "update" /\ k \in Pids /\ db[k] # None /\ call[c].proc.pid = k
        /\ nextPid' = nextPid
    BY <1>1, <1>5 DEF UpdateProcess, CallOK, DisciplinedCallOK
  <2>2. call[c].proc = [pid |-> k, data |-> d]
    BY <1>1, <2>1 DEF TypeOK, Process
  <2>3. \/ Return(c, Failed) /\ db' = db
        \/ /\ db' = [db EXCEPT ![k] = d]
           /\ Return(c, Failed) \/ Goto(c, "fill", call[c].proc)
    BY <1>5, <2>1 DEF UpdateProcess, Executed
  <2>4. CASE /\ db' = [db EXCEPT ![k] = d]
             /\ Return(c, Failed) \/ Goto(c, "fill", call[c].proc)
    <3>1. Store!Commit(c, k) /\ ShapeInv'
      BY <1>1, <2>1, <2>2, <2>4, CommitStep
    <3>2. Store!Write(c)
      BY <1>2, <2>1, <3>1 DEF Store!Write
    <3> QED BY <3>1, <3>2 DEF StoreStep, Store!Next
  <2> QED BY <1>3, <2>1, <2>3, <2>4
<1>6. ASSUME DeleteProcess(c) PROVE StoreStep /\ ShapeInv'
  <2>1. /\ call[c].op = "delete" /\ k \in Pids /\ call[c].proc.pid = k /\ d = None
        /\ nextPid' = nextPid
    BY <1>1, <1>6 DEF DeleteProcess, CallShape, DisciplinedCallOK
  <2>2. \/ Return(c, Failed) /\ db' = db
        \/ /\ db' = [db EXCEPT ![k] = d]
           /\ Return(c, Failed) \/ Return(c, Ok(call[c].proc))
    BY <1>6, <2>1 DEF DeleteProcess, Executed
  <2>3. CASE /\ db' = [db EXCEPT ![k] = d]
             /\ Return(c, Failed) \/ Return(c, Ok(call[c].proc))
    <3>1. Store!Commit(c, k) /\ ShapeInv'
      BY <1>1, <2>1, <2>3, CommitStep
    <3>2. Store!Write(c)
      BY <1>2, <2>1, <3>1 DEF Store!Write
    <3> QED BY <3>1, <3>2 DEF StoreStep, Store!Next
  <2> QED BY <1>3, <2>1, <2>2, <2>3
<1> QED BY <1>4, <1>5, <1>6

LEMMA StoreInvInit == Init => Store!Init /\ StoreInv
<1> SUFFICES ASSUME Init PROVE Store!Init /\ StoreInv
  OBVIOUS
<1>1. ShapeInv
  BY IdleUnseen DEF Init, ShapeInv
<1>2. Pending = [c \in Clients |-> Store!NoCall]
  BY IdleUnseen DEF Init, Pending
<1>3. Store!Init
  BY <1>2 DEF Init, Store!Init, Store!Pids, Pids, Waiting, Miss, Store!Waiting, Store!Blank
<1> QED BY <1>1, <1>3, DisciplinedInvInit DEF StoreInv

LEMMA StoreSimulation == StoreInv /\ [DisciplinedNext]_vars => StoreStep /\ StoreInv'
<1> SUFFICES ASSUME StoreInv, [DisciplinedNext]_vars PROVE StoreStep /\ ShapeInv'
  BY DisciplinedInvStep DEF StoreInv
<1>1. ASSUME NEW c \in Clients, Request(c) PROVE StoreStep /\ ShapeInv'
  BY <1>1, QueryStep, DeleteEntryStep, FillStep, WriteStep DEF Request
<1>2. ASSUME NEW c \in Clients, Crash(c) PROVE StoreStep /\ ShapeInv'
  BY <1>2, GivesUp DEF Crash, StoreStep
<1>3. CASE UNCHANGED <<db, nextPid, call, reply>>
  BY <1>3 DEF StoreStep, StoreInv, ShapeInv, Store!storeVars, Pending
<1>4. ASSUME NEW k \in Keys, Expire(k) PROVE StoreStep /\ ShapeInv'
  BY <1>3, <1>4 DEF Expire
<1> QED BY <1>1, <1>2, <1>3, <1>4, CallStep DEF DisciplinedNext, vars

\* For any number of clients, with lost and unacknowledged requests, crashes and
\* expiring entries, calls that do not overlap on a PID behave as if there were
\* no cache: queries answer with the row of that moment, a write takes effect at
\* most once, and an acknowledged one did.
THEOREM CacheImplementsStore == DisciplinedSpec => ImplementsStore
<1>1. StoreInv /\ [DisciplinedNext]_vars => [Store!Next]_(Store!storeVars) /\ StoreInv'
  BY StoreSimulation DEF StoreStep
<1> QED BY <1>1, StoreInvInit, PTL DEF DisciplinedSpec, ImplementsStore, Store!Spec

=============================================================================
