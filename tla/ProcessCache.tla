----------------------------- MODULE ProcessCache -----------------------------
(***************************************************************************)
(* The cache-aside protocol of Golang/Redis-Mysql: rows of the MySQL table *)
(* Process are cached in Redis under "process:<pid>" for ten minutes.      *)
(*                                                                         *)
(* A client is one goroutine or OS process inside one of the three calls   *)
(* of main.go (GetProcessWithCache, UpsertProcessWithCache,                *)
(* DeleteProcessWithCache).  Every request it sends to Redis or MySQL is   *)
(* one action, so the calls of several clients interleave between any two  *)
(* requests.  A request may be lost, or may be executed although its caller *)
(* sees an error, and a client may die between any two requests.           *)
(***************************************************************************)
EXTENDS Naturals

CONSTANTS
  Clients,   \* callers of the three functions
  Contents,  \* what the columns other than PID can hold, taken together
  MaxPid,    \* largest value of the AUTO_INCREMENT column PID
  None       \* no content: a missing row

ASSUME ConstantsAssumption ==
  /\ MaxPid \in Nat \ {0}
  /\ None \notin Contents

VARIABLES
  db,        \* db[p]: content of the row with PID p, or None
  nextPid,   \* next AUTO_INCREMENT value
  cache,     \* cache[k]: the Process stored under "process:k", or Miss
  call,      \* call[c]: the call client c is in
  reply,     \* reply[c]: what the last call of c returned
  executed   \* history: executed[p], the contents MySQL was made to store for p

vars == <<db, nextPid, cache, call, reply, executed>>

Pids == 1 .. MaxPid
Keys == 0 .. MaxPid

Process == [pid : Keys, data : Contents \cup {None}]
Miss    == [pid |-> 0, data |-> None]
Row(p)  == [pid |-> p, data |-> db[p]]

Idle    == [at |-> "idle", op |-> "none", key |-> 0, proc |-> Miss]
Waiting == [status |-> "none", proc |-> Miss]
Failed  == [status |-> "err", proc |-> Miss]
Ok(p)   == [status |-> "ok", proc |-> p]

Busy(c) == call[c].at # "idle"

\* What happens to a request: executed and acknowledged, executed but answered
\* with an error (the connection broke after the server acted), or not executed.
Outcomes    == {"ok", "unacked", "lost"}
Executed(o) == o \in {"ok", "unacked"}

Init ==
  /\ db = [p \in Pids |-> None]
  /\ nextPid = 1
  /\ cache = [k \in Keys |-> Miss]
  /\ call = [c \in Clients |-> Idle]
  /\ reply = [c \in Clients |-> Waiting]
  /\ executed = [p \in Pids |-> {}]

(***************************************************************************)
(* Beginning and ending a call                                             *)
(***************************************************************************)

Begin(c, at, op, proc) ==
  /\ ~Busy(c)
  /\ call' = [call EXCEPT ![c] = [at |-> at, op |-> op, key |-> proc.pid, proc |-> proc]]
  /\ reply' = [reply EXCEPT ![c] = Waiting]
  /\ UNCHANGED <<db, nextPid, cache, executed>>

\* GetProcessWithCache(pid)
CallGet(c, p) == Begin(c, "get", "get", [pid |-> p, data |-> None])

\* UpsertProcessWithCache(process): PID 0 inserts, any other PID updates.  The
\* cache key is computed here, before InsertProcess has given the row its PID.
CallUpsert(c, p, d) ==
  Begin(c, "del", IF p = 0 THEN "insert" ELSE "update", [pid |-> p, data |-> d])

\* DeleteProcessWithCache(pid)
CallDelete(c, p) == Begin(c, "del", "delete", [pid |-> p, data |-> None])

Goto(c, at, proc) ==
  /\ call' = [call EXCEPT ![c] = [at |-> at, op |-> @.op, key |-> @.key, proc |-> proc]]
  /\ UNCHANGED reply

Return(c, r) ==
  /\ call' = [call EXCEPT ![c] = Idle]
  /\ reply' = [reply EXCEPT ![c] = r]

(***************************************************************************)
(* Requests to Redis                                                       *)
(***************************************************************************)

\* Mutant of GetFromCache: a hit is written back, for another ten minutes.
GetFromCacheRenewing(c) ==
  LET entry == cache[call[c].key] IN
  /\ call[c].at = "get"
  /\ \/ entry # Miss /\ Goto(c, "fill", entry)
     \/ Goto(c, "query", call[c].proc)
  /\ UNCHANGED <<db, nextPid, cache, executed>>

\* GetFromCache: a hit is returned; a miss, like any other error, goes to MySQL.
GetFromCache(c) ==
  LET entry == cache[call[c].key] IN
  /\ call[c].at = "get"
  /\ \/ /\ entry # Miss
        /\ Return(c, Ok(entry))
     \/ Goto(c, "query", call[c].proc)
  /\ UNCHANGED <<db, nextPid, cache, executed>>

\* Mutant of DeleteFromCache: the err of the delete is not looked at.
DeleteFromCacheIgnoringErr(c) ==
  /\ call[c].at = "del"
  /\ \E o \in Outcomes :
       /\ cache' = IF Executed(o) THEN [cache EXCEPT ![call[c].key] = Miss] ELSE cache
       /\ Goto(c, "write", call[c].proc)
  /\ UNCHANGED <<db, nextPid, executed>>

\* DeleteFromCache, the first request of an upsert and of a delete.
DeleteFromCache(c) ==
  /\ call[c].at = "del"
  /\ \E o \in Outcomes :
       /\ cache' = IF Executed(o) THEN [cache EXCEPT ![call[c].key] = Miss] ELSE cache
       /\ IF o = "ok" THEN Goto(c, "write", call[c].proc) ELSE Return(c, Failed)
  /\ UNCHANGED <<db, nextPid, executed>>

\* SetToCache, the last request of an upsert and of a get that missed.
SetToCache(c) ==
  /\ call[c].at = "fill"
  /\ \E o \in Outcomes :
       /\ cache' = IF Executed(o) THEN [cache EXCEPT ![call[c].key] = call[c].proc] ELSE cache
       /\ Return(c, IF o = "ok" THEN Ok(call[c].proc) ELSE Failed)
  /\ UNCHANGED <<db, nextPid, executed>>

\* Redis drops an entry whose ten minutes are over.
Expire(k) ==
  /\ cache[k] # Miss
  /\ cache' = [cache EXCEPT ![k] = Miss]
  /\ UNCHANGED <<db, nextPid, call, reply, executed>>

(***************************************************************************)
(* Requests to MySQL.  Each transaction has one statement and takes effect *)
(* at its commit.                                                          *)
(***************************************************************************)

\* Mutant of QueryProcess: the PID is not among the scanned columns.
QueryProcessWithoutPid(c) ==
  LET p == call[c].key IN
  /\ call[c].at = "query"
  /\ p \in Pids
  /\ db[p] # None
  /\ Goto(c, "fill", [pid |-> 0, data |-> db[p]])
  /\ UNCHANGED <<db, nextPid, cache, executed>>

QueryProcess(c) ==
  LET p == call[c].key IN
  /\ call[c].at = "query"
  /\ \/ /\ p \in Pids
        /\ db[p] # None
        /\ Goto(c, "fill", Row(p))
     \/ Return(c, Failed)          \* sql.ErrNoRows, or the query failed
  /\ UNCHANGED <<db, nextPid, cache, executed>>

\* A rolled back insert may have used up an AUTO_INCREMENT value, and a full
\* column makes every insert fail.
InsertProcess(c) ==
  /\ call[c].at = "write" /\ call[c].op = "insert"
  /\ \/ /\ nextPid \in Pids
        /\ db' = [db EXCEPT ![nextPid] = call[c].proc.data]
        /\ executed' = [executed EXCEPT ![nextPid] = @ \cup {call[c].proc.data}]
        /\ nextPid' = nextPid + 1
        /\ \/ Goto(c, "fill", [call[c].proc EXCEPT !.pid = nextPid])
           \/ Return(c, Failed)
     \/ /\ nextPid' \in {nextPid, nextPid + 1} \cap (1 .. MaxPid + 1)
        /\ Return(c, Failed)
        /\ UNCHANGED <<db, executed>>
  /\ UNCHANGED cache

\* Mutant of UpdateProcess: the err of the update is not looked at.
UpdateProcessIgnoringErr(c) ==
  LET p == call[c].key
      d == call[c].proc.data
  IN
  /\ call[c].at = "write" /\ call[c].op = "update"
  /\ \E o \in Outcomes :
       /\ db' = IF Executed(o) /\ db[p] # None THEN [db EXCEPT ![p] = d] ELSE db
       /\ executed' = IF Executed(o) THEN [executed EXCEPT ![p] = @ \cup {d}] ELSE executed
       /\ Goto(c, "fill", call[c].proc)
  /\ UNCHANGED <<nextPid, cache>>

\* UPDATE ... WHERE PID = ? changes nothing, and succeeds, when there is no row.
UpdateProcess(c) ==
  LET p == call[c].key
      d == call[c].proc.data
  IN
  /\ call[c].at = "write" /\ call[c].op = "update"
  /\ \E o \in Outcomes :
       /\ db' = IF Executed(o) /\ db[p] # None THEN [db EXCEPT ![p] = d] ELSE db
       /\ executed' = IF Executed(o) THEN [executed EXCEPT ![p] = @ \cup {d}] ELSE executed
       /\ IF o = "ok" THEN Goto(c, "fill", call[c].proc) ELSE Return(c, Failed)
  /\ UNCHANGED <<nextPid, cache>>

DeleteProcess(c) ==
  LET p == call[c].key IN
  /\ call[c].at = "write" /\ call[c].op = "delete"
  /\ \E o \in Outcomes :
       /\ db' = IF Executed(o) /\ p \in Pids THEN [db EXCEPT ![p] = None] ELSE db
       /\ Return(c, IF o = "ok" THEN Ok(call[c].proc) ELSE Failed)
  /\ UNCHANGED <<nextPid, cache, executed>>

(***************************************************************************)
(* The client dies (main.go ends a failed step with log.Fatal): its call is *)
(* forgotten, what Redis and MySQL already did stays.                      *)
(***************************************************************************)

Crash(c) ==
  /\ Busy(c)
  /\ Return(c, Failed)
  /\ UNCHANGED <<db, nextPid, cache, executed>>

Call(c) ==
  \/ \E p \in Keys : CallGet(c, p) \/ CallDelete(c, p)
  \/ \E p \in Keys, d \in Contents : CallUpsert(c, p, d)

Request(c) ==
  \/ GetFromCache(c)
  \/ DeleteFromCache(c)
  \/ SetToCache(c)
  \/ QueryProcess(c)
  \/ InsertProcess(c)
  \/ UpdateProcess(c)
  \/ DeleteProcess(c)

Next ==
  \/ \E c \in Clients : Call(c) \/ Request(c) \/ Crash(c)
  \/ \E k \in Keys : Expire(k)

Spec == Init /\ [][Next]_vars

\* Every entry is written with an expiry time, so an entry that stays is dropped.
\* No client is assumed to make progress.
FairSpec == Spec /\ \A k \in Keys : WF_vars(Expire(k))

(***************************************************************************)
(* Disciplined use, as in main(): the calls about one PID do not overlap   *)
(* (calls about different PIDs may), the program asks only for PIDs a row  *)
(* can have, and it updates only rows that exist.                          *)
(***************************************************************************)

Exclusive(p) == \A c \in Clients : Busy(c) => call[c].key # p

DisciplinedCall(c) ==
  \/ \E p \in Pids :
       /\ Exclusive(p)
       /\ \/ CallGet(c, p)
          \/ CallDelete(c, p)
          \/ db[p] # None /\ \E d \in Contents : CallUpsert(c, p, d)
  \/ \E d \in Contents : CallUpsert(c, 0, d)

DisciplinedNext ==
  \/ \E c \in Clients : DisciplinedCall(c) \/ Request(c) \/ Crash(c)
  \/ \E k \in Keys : Expire(k)

DisciplinedSpec == Init /\ [][DisciplinedNext]_vars

(***************************************************************************)
(* Properties                                                              *)
(***************************************************************************)

\* Every variable holds a value of its type; a client that is not idle is at a
\* request its kind of call makes, under the key of its PID.
TypeOK ==
  /\ db \in [Pids -> Contents \cup {None}]
  /\ nextPid \in 1 .. MaxPid + 1
  /\ cache \in [Keys -> Process]
  /\ call \in [Clients ->
       [at : {"idle", "get", "query", "del", "write", "fill"},
        op : {"none", "get", "insert", "update", "delete"},
        key : Keys, proc : Process]]
  /\ reply \in [Clients -> [status : {"none", "ok", "err"}, proc : Process]]
  /\ executed \in [Pids -> SUBSET Contents]

\* However calls overlap, fail or crash, the entry under "process:k" of a real
\* PID k is a Process with PID k: no query for k is answered with another row.
KeyedByPid == \A k \in Pids : cache[k] # Miss => cache[k].pid = k

\* Redis never runs ahead of MySQL: what is cached for a PID was executed by
\* MySQL for that PID first, whichever requests of that call or another failed.
ExecutedBeforeCached ==
  \A k \in Keys : cache[k] # Miss => cache[k].data \in executed[cache[k].pid]

\* What a call in progress relies on: an upsert still holds the Process it was
\* called with, a fill holds one that MySQL executed, under the key of its PID
\* unless that key is 0; and a row holds what was executed for it.
RequestsOK ==
  /\ \A c \in Clients :
       LET r == call[c] IN
       /\ r.op = "insert" => r.key = 0
       /\ r.op = "update" => r.key \in Pids
       /\ r.at \in {"del", "write"} /\ r.op \in {"insert", "update"} =>
            r.proc.pid = r.key /\ r.proc.data \in Contents
       /\ r.at = "fill" =>
            /\ r.proc.pid \in Pids
            /\ r.key \in Pids => r.proc.pid = r.key
            /\ r.proc.data \in executed[r.proc.pid]
  /\ \A p \in Pids : db[p] # None => db[p] \in executed[p]
  /\ \A k \in Keys : cache[k] # Miss => cache[k].pid \in Pids

\* The inductive invariant behind KeyedByPid and ExecutedBeforeCached.
CacheInv == TypeOK /\ RequestsOK /\ KeyedByPid /\ ExecutedBeforeCached

\* An entry that MySQL does not agree with.
Stale(k) == cache[k] # Miss /\ (k = 0 \/ cache[k] # Row(k))

Writes(c) == call[c].op \in {"insert", "update", "delete"}

\* Overlapping calls do leave entries behind that MySQL does not agree with, but
\* not for good: from some time after the last upsert or delete the cache shows
\* the rows as they are for ever, however many queries, old ones among them, go
\* on filling it.  A hit must not keep an entry alive for that.
AgreesOnceWritesEnd ==
  <>[](\A c \in Clients : ~Writes(c)) => <>[](\A k \in Keys : ~Stale(k))

\* Under disciplined use the cache is transparent in every state, also between
\* the requests of a call and after lost requests and crashes: an entry is the
\* row.  It is the delete before the write that makes this so.
CacheTransparent == \A k \in Pids : ~Stale(k)

\* Why it is: nobody else works on the PID of a busy client, the entry is gone
\* once its delete was acknowledged, the row an update is about is there, and
\* what a fill is about to write is the row.
DisciplinedCallOK(c) ==
  LET r == call[c] IN
  Busy(c) =>
    /\ r.op = "insert" \/ r.key \in Pids
    /\ \A d \in Clients : d # c /\ Busy(d) /\ r.key \in Pids => call[d].key # r.key
    /\ r.op = "update" /\ r.at \in {"del", "write"} => db[r.key] # None
    /\ r.at = "write" /\ r.key \in Pids => cache[r.key] = Miss
    /\ r.at = "fill" /\ r.key \in Pids => r.proc = Row(r.key)

\* The inductive invariant behind CacheTransparent.
DisciplinedInv ==
  /\ CacheInv
  /\ CacheTransparent
  /\ \A p \in Pids : p >= nextPid => db[p] = None
  /\ \A c \in Clients : DisciplinedCallOK(c)

\* What the store sees of a call: a query has no data until it is answered, and
\* a write that is about to fill the cache has been executed.
PendingCall(r) ==
  IF r.at = "idle" THEN [op |-> "none", pid |-> 0, data |-> None, done |-> FALSE]
  ELSE [op   |-> r.op,
        pid  |-> r.proc.pid,
        data |-> IF r.op = "get" THEN None ELSE r.proc.data,
        done |-> r.at = "fill" /\ r.op # "get"]

Pending == [c \in Clients |-> PendingCall(call[c])]

Store == INSTANCE ProcessStore WITH rows <- db, pending <- Pending

\* Under disciplined use the protocol implements the store of ProcessStore: a
\* query is answered with the row as it is, an acknowledged write was executed
\* exactly once.
ImplementsStore == Store!Spec

=============================================================================
