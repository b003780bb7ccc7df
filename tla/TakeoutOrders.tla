----------------------------- MODULE TakeoutOrders -----------------------------
(***************************************************************************)
(* The life of an order in Golang/takeout: the HTTP handlers that place,   *)
(* query, accept, publish, grab and complete orders, and the weekly        *)
(* clean-up, over MySQL (tables orders and groups) and Redis (the hashes   *)
(* order:<id> and group:<id>, the strings order_status_<id>).              *)
(*                                                                         *)
(* A worker is one handler goroutine of net/http.  Every request it sends  *)
(* to MySQL or Redis is one action.  The statements of a transaction take  *)
(* effect at its commit; a row it has updated stays locked until then, and *)
(* its SELECTs read the snapshot of the first one (InnoDB's REPEATABLE     *)
(* READ, the level Begin() asks for).                                      *)
(***************************************************************************)
EXTENDS Naturals, FiniteSets

CONSTANTS
  Workers,   \* handler goroutines
  Riders,    \* IDs in the table riders
  MaxOrder,  \* largest AUTO_INCREMENT value of orders
  MaxGroup,  \* largest AUTO_INCREMENT value of groups
  None       \* SQL NULL, a missing row or key, nobody

VARIABLES
  orders,       \* orders[o]: the committed row, or None
  nextOrder,    \* next AUTO_INCREMENT value of orders
  groups,       \* groups[g]: the committed row, or None
  nextGroup,    \* next AUTO_INCREMENT value of groups
  orderHash,    \* the orders with a hash order:<o>, which keeps what was inserted
  groupHash,    \* groupHash[g]: the hash group:<g>, or None
  statusCache,  \* statusCache[o]: the Order stored under order_status_<o>, or None
  lock,         \* lock[o]: the worker whose transaction has updated row o, or None
  req,          \* req[w]: the request worker w handles
  reply,        \* reply[w]: how the last request of w was answered
  contested     \* history: orders with two grab transactions open at one time

vars == <<orders, nextOrder, groups, nextGroup, orderHash, groupHash,
          statusCache, lock, req, reply, contested>>

dbVars    == <<orders, nextOrder, groups, nextGroup, lock>>
redisVars == <<orderHash, groupHash, statusCache>>

OrderIds == 1 .. MaxOrder
GroupIds == 1 .. MaxGroup

\* The columns of orders and groups that change or are asked for.  status is the
\* column UpdateOrderStatus writes, order_status the one the others use.
Row   == [rider : Riders \cup {None}, order_status : {"waiting", "grabbed"},
          status : {"none", "accepted", "published", "completed"}]
Group == [order : OrderIds, rider : Riders]

\* What a cached Order tells of its order.
Cached == [rider : Riders \cup {None}, order_status : {"waiting", "grabbed"}]
View(row) == [rider |-> row.rider, order_status |-> row.order_status]

ASSUME OrdersAssumption ==
  /\ MaxOrder \in Nat \ {0} /\ MaxGroup \in Nat \ {0}
  /\ None \notin Riders \cup Workers \cup Row \cup Group \cup Cached

Idle == [at |-> "idle", op |-> "none", order |-> 0, rider |-> None, group |-> 0, seen |-> None]
Busy(w) == req[w].at # "idle"

\* Executed and acknowledged, executed but answered with an error, not executed.
Outcomes    == {"ok", "unacked", "lost"}
Executed(o) == o \in {"ok", "unacked"}

Init ==
  /\ orders = [o \in OrderIds |-> None]
  /\ nextOrder = 1
  /\ groups = [g \in GroupIds |-> None]
  /\ nextGroup = 1
  /\ orderHash = {}
  /\ groupHash = [g \in GroupIds |-> None]
  /\ statusCache = [o \in OrderIds |-> None]
  /\ lock = [o \in OrderIds |-> None]
  /\ req = [w \in Workers |-> Idle]
  /\ reply = [w \in Workers |-> "none"]
  /\ contested = {}

Begin(w, at, op, o, r) ==
  /\ ~Busy(w)
  /\ req' = [req EXCEPT ![w] =
       [at |-> at, op |-> op, order |-> o, rider |-> r, group |-> 0, seen |-> None]]
  /\ reply' = [reply EXCEPT ![w] = "none"]
  /\ UNCHANGED <<dbVars, redisVars, contested>>

\* Request q, now at another step.
At(q, at) == [at |-> at, op |-> q.op, order |-> q.order, rider |-> q.rider,
              group |-> q.group, seen |-> q.seen]

Continue(w, q) ==
  /\ req' = [req EXCEPT ![w] = q]
  /\ UNCHANGED reply

Goto(w, at) == Continue(w, At(req[w], at))

Answer(w, a) ==
  /\ req' = [req EXCEPT ![w] = Idle]
  /\ reply' = [reply EXCEPT ![w] = a]

(***************************************************************************)
(* handleOrder.  The request may name a rider, which goes to the cache and *)
(* not to the row.                                                         *)
(***************************************************************************)

Order(w, r) == Begin(w, "insert", "order", 0, r)

InsertOrder(w) ==
  /\ req[w].at = "insert"
  /\ \/ /\ nextOrder \in OrderIds
        /\ orders' = [orders EXCEPT ![nextOrder] =
             [rider |-> None, order_status |-> "waiting", status |-> "none"]]
        /\ nextOrder' = nextOrder + 1
        /\ \/ Continue(w, [At(req[w], "orderHash") EXCEPT !.order = nextOrder])
           \/ Answer(w, "err")
     \/ /\ nextOrder' \in {nextOrder, nextOrder + 1} \cap (1 .. MaxOrder + 1)
        /\ Answer(w, "err")
        /\ UNCHANGED orders
  /\ UNCHANGED <<groups, nextGroup, lock, redisVars, contested>>

\* A Redis error is reported as a failed insert; the row stays.
SetOrderHash(w) ==
  /\ req[w].at = "orderHash"
  /\ \E out \in Outcomes :
       /\ orderHash' = IF Executed(out) THEN orderHash \cup {req[w].order} ELSE orderHash
       /\ IF out = "ok" THEN Goto(w, "orderCache") ELSE Answer(w, "err")
  /\ UNCHANGED <<dbVars, groupHash, statusCache, contested>>

\* The error of SetToCache is dropped, here and in handleOrderStatus.
CacheOrder(w) ==
  /\ req[w].at = "orderCache"
  /\ statusCache' \in {statusCache, [statusCache EXCEPT ![req[w].order] =
       [rider |-> req[w].rider, order_status |-> "waiting"]]}
  /\ Answer(w, "ok")
  /\ UNCHANGED <<dbVars, orderHash, groupHash, contested>>

(***************************************************************************)
(* handleOrderStatus                                                       *)
(***************************************************************************)

OrderStatus(w, o) == Begin(w, "getStatus", "status", o, None)

\* Mutant of GetStatus: a hit is written back, for another hour.
GetStatusRenewing(w) ==
  LET entry == statusCache[req[w].order] IN
  /\ req[w].at = "getStatus"
  /\ \/ /\ entry # None
        /\ Continue(w, [At(req[w], "fillStatus") EXCEPT !.seen = entry])
     \/ Goto(w, "queryStatus")
  /\ UNCHANGED <<dbVars, redisVars, contested>>

GetStatus(w) ==
  /\ req[w].at = "getStatus"
  /\ \/ statusCache[req[w].order] # None /\ Answer(w, "ok")
     \/ Goto(w, "queryStatus")
  /\ UNCHANGED <<dbVars, redisVars, contested>>

\* QueryOrderStatus scans rider_id into an int, which fails for NULL: an order
\* without a rider is answered like one that does not exist.
QueryStatus(w) ==
  LET row == orders[req[w].order] IN
  /\ req[w].at = "queryStatus"
  /\ \/ /\ row # None /\ row.rider # None
        /\ Continue(w, [At(req[w], "fillStatus") EXCEPT !.seen = View(row)])
     \/ Answer(w, "err")
  /\ UNCHANGED <<dbVars, redisVars, contested>>

FillStatus(w) ==
  /\ req[w].at = "fillStatus"
  /\ statusCache' \in {statusCache, [statusCache EXCEPT ![req[w].order] = req[w].seen]}
  /\ Answer(w, "ok")
  /\ UNCHANGED <<dbVars, orderHash, groupHash, contested>>

\* Redis drops an entry whose hour is over.
ExpireStatus(o) ==
  /\ statusCache[o] # None
  /\ statusCache' = [statusCache EXCEPT ![o] = None]
  /\ UNCHANGED <<dbVars, orderHash, groupHash, req, reply, contested>>

(***************************************************************************)
(* handleAcceptOrder, handlePublishDeliveryOrder, handleCompleteOrder      *)
(***************************************************************************)

NewStatus == [accept |-> "accepted", publish |-> "published", complete |-> "completed"]

\* The row of an order whose column status is s.
Marked(row, s) == [rider |-> row.rider, order_status |-> row.order_status, status |-> s]

ChangeStatus(w, op, o) == Begin(w, "update", op, o, None)

\* UpdateOrderStatus waits for the row lock.  An error of its statement is
\* returned (with the table of db.txt, which has no column status, there always
\* is one); an error of the deferred Commit is not.
UpdateOrderStatus(w) ==
  LET o == req[w].order IN
  /\ req[w].at = "update"
  /\ \/ Answer(w, "err") /\ UNCHANGED orders
     \/ /\ lock[o] = None
        /\ \/ UNCHANGED orders        \* no such row, or the commit failed
           \/ /\ orders[o] # None
              /\ orders' = [orders EXCEPT ![o] = Marked(@, NewStatus[req[w].op])]
        /\ IF req[w].op = "accept" THEN Goto(w, "requery") ELSE Answer(w, "ok")
  /\ UNCHANGED <<nextOrder, groups, nextGroup, lock, redisVars, contested>>

\* handleAcceptOrder goes on with QueryOrderStatus, which fails for an order
\* without a rider, and CreateGroup, which panics because the IDs it is handed
\* are ints and not float64s: the handler never gets to its last line.
Requery(w) ==
  /\ req[w].at = "requery"
  /\ \/ Answer(w, "err")
     \/ /\ orders[req[w].order] # None
        /\ orders[req[w].order].rider # None
        /\ Answer(w, "panic")
  /\ UNCHANGED <<dbVars, redisVars, contested>>

(***************************************************************************)
(* handleRiderGrabOrder: one transaction                                   *)
(***************************************************************************)

\* The order whose grab transaction w has open, once it has read it.
InGrab(w, o) == req[w].order = o /\ req[w].at \in {"claim", "insertGroup", "groupHash", "commit"}

\* Rolling back (or ending) w's transaction frees the row.
Unlock(w) == lock' = [o \in OrderIds |-> IF lock[o] = w THEN None ELSE lock[o]]

Grab(w, o, r) == Begin(w, "snapshot", "grab", o, r)

\* Mutant of ReadOrder: an order that has a rider is not turned away.
ReadOrderUnchecked(w) ==
  LET o == req[w].order IN
  /\ req[w].at = "snapshot"
  /\ orders[o] # None
  /\ Goto(w, "claim")
  /\ contested' = IF \E v \in Workers : InGrab(v, o) THEN contested \cup {o} ELSE contested
  /\ UNCHANGED <<dbVars, redisVars>>

\* Both SELECTs read one snapshot: an order that is missing or taken is refused.
ReadOrder(w) ==
  LET o == req[w].order IN
  /\ req[w].at = "snapshot"
  /\ \/ /\ orders[o] # None /\ orders[o].rider = None
        /\ Goto(w, "claim")
        /\ contested' = IF \E v \in Workers : InGrab(v, o) THEN contested \cup {o} ELSE contested
     \/ Answer(w, "err") /\ UNCHANGED contested
  /\ UNCHANGED <<dbVars, redisVars>>

\* Mutant of ClaimOrder: the UPDATE does not wait for the row.
ClaimOrderUnlocked(w) ==
  LET o == req[w].order IN
  /\ req[w].at = "claim"
  /\ Goto(w, "insertGroup")
  /\ lock' = IF orders[o] = None THEN lock ELSE [lock EXCEPT ![o] = w]
  /\ UNCHANGED <<orders, nextOrder, groups, nextGroup, redisVars, contested>>

\* UPDATE orders SET rider_id = ? waits for the row lock and then changes the
\* newest version of the row, not that of the snapshot; it has nothing to change,
\* nor to lock, when the clean-up has deleted the row.
ClaimOrder(w) ==
  LET o == req[w].order IN
  /\ req[w].at = "claim"
  /\ \/ /\ lock[o] = None
        /\ lock' = IF orders[o] = None THEN lock ELSE [lock EXCEPT ![o] = w]
        /\ Goto(w, "insertGroup")
     \/ Answer(w, "err") /\ UNCHANGED lock     \* also: lock wait timeout
  /\ UNCHANGED <<orders, nextOrder, groups, nextGroup, redisVars, contested>>

\* insertGroup, first part: the INSERT fails if the order is gone (FOREIGN KEY).
\* The AUTO_INCREMENT value it takes is not given back by a rollback.
InsertGroup(w) ==
  /\ req[w].at = "insertGroup"
  /\ \/ /\ orders[req[w].order] # None
        /\ nextGroup \in GroupIds
        /\ nextGroup' = nextGroup + 1
        /\ Continue(w, [At(req[w], "groupHash") EXCEPT !.group = nextGroup])
        /\ UNCHANGED lock
     \/ /\ nextGroup' \in {nextGroup, nextGroup + 1} \cap (1 .. MaxGroup + 1)
        /\ Answer(w, "err")
        /\ Unlock(w)
  /\ UNCHANGED <<orders, nextOrder, groups, redisVars, contested>>

\* Mutant of SetGroupHash: the err of HMSet is not looked at.
SetGroupHashIgnoringErr(w) ==
  LET hash == [order |-> req[w].order, rider |-> req[w].rider] IN
  /\ req[w].at = "groupHash"
  /\ groupHash' \in {groupHash, [groupHash EXCEPT ![req[w].group] = hash]}
  /\ Goto(w, "commit")
  /\ UNCHANGED <<dbVars, orderHash, statusCache, contested>>

\* insertGroup, second part: the hash is written while the transaction is open.
SetGroupHash(w) ==
  LET hash == [order |-> req[w].order, rider |-> req[w].rider] IN
  /\ req[w].at = "groupHash"
  /\ \E out \in Outcomes :
       /\ groupHash' = IF Executed(out) THEN [groupHash EXCEPT ![req[w].group] = hash]
                       ELSE groupHash
       /\ IF out = "ok" THEN Goto(w, "commit") /\ UNCHANGED lock
          ELSE Answer(w, "err") /\ Unlock(w)
  /\ UNCHANGED <<orders, nextOrder, groups, nextGroup, orderHash, statusCache, contested>>

\* The row of an order whose rider is r.
Taken(row, r) == [rider |-> r, order_status |-> "grabbed", status |-> row.status]

\* Mutant of CommitGrab: the group is inserted outside the transaction, which
\* then updates the order alone.
CommitGrabWithoutGroup(w) ==
  LET o == req[w].order IN
  /\ req[w].at = "commit"
  /\ orders' = [orders EXCEPT ![o] = Taken(@, req[w].rider)]
  /\ Answer(w, "ok")
  /\ Unlock(w)
  /\ UNCHANGED <<nextOrder, groups, nextGroup, redisVars, contested>>

CommitGrab(w) ==
  LET o == req[w].order
      r == req[w].rider
  IN
  /\ req[w].at = "commit"
  /\ \E out \in Outcomes :
       /\ IF Executed(out)
          THEN /\ orders' = [orders EXCEPT ![o] = Taken(@, r)]
               /\ groups' = [groups EXCEPT ![req[w].group] = [order |-> o, rider |-> r]]
          ELSE UNCHANGED <<orders, groups>>
       /\ Answer(w, IF out = "ok" THEN "ok" ELSE "err")
  /\ Unlock(w)
  /\ UNCHANGED <<nextOrder, nextGroup, redisVars, contested>>

(***************************************************************************)
(* CleanUpOldRecords: the DELETE takes every order of one week; it waits   *)
(* for their locks, and fails as a whole when a group refers to one of     *)
(* them (FOREIGN KEY).                                                     *)
(***************************************************************************)

Referenced(o) == \E g \in GroupIds : groups[g] # None /\ groups[g].order = o

\* Mutant of CleanUpOldRecords: the table groups has no FOREIGN KEY.
CleanUpUnreferencedToo(week) ==
  /\ week # {}
  /\ \A o \in week : orders[o] # None /\ lock[o] = None
  /\ orders' = [o \in OrderIds |-> IF o \in week THEN None ELSE orders[o]]
  /\ UNCHANGED <<nextOrder, groups, nextGroup, lock, redisVars, req, reply, contested>>

CleanUpOldRecords(week) ==
  /\ week # {}
  /\ \A o \in week : orders[o] # None /\ lock[o] = None /\ ~Referenced(o)
  /\ orders' = [o \in OrderIds |-> IF o \in week THEN None ELSE orders[o]]
  /\ UNCHANGED <<nextOrder, groups, nextGroup, lock, redisVars, req, reply, contested>>

\* The server dies: open transactions are rolled back, nobody gets an answer.
Crash ==
  /\ \E w \in Workers : Busy(w)
  /\ req' = [w \in Workers |-> Idle]
  /\ reply' = [w \in Workers |-> IF Busy(w) THEN "err" ELSE reply[w]]
  /\ lock' = [o \in OrderIds |-> None]
  /\ UNCHANGED <<orders, nextOrder, groups, nextGroup, redisVars, contested>>

Request(w) ==
  \/ \E r \in Riders \cup {None} : Order(w, r)
  \/ \E o \in OrderIds :
       \/ OrderStatus(w, o)
       \/ \E op \in DOMAIN NewStatus : ChangeStatus(w, op, o)
       \/ \E r \in Riders : Grab(w, o, r)

Step(w) ==
  \/ InsertOrder(w) \/ SetOrderHash(w) \/ CacheOrder(w)
  \/ GetStatus(w) \/ QueryStatus(w) \/ FillStatus(w)
  \/ UpdateOrderStatus(w) \/ Requery(w)
  \/ ReadOrder(w) \/ ClaimOrder(w) \/ InsertGroup(w) \/ SetGroupHash(w) \/ CommitGrab(w)

Next ==
  \/ \E w \in Workers : Request(w) \/ Step(w)
  \/ \E o \in OrderIds : ExpireStatus(o)
  \/ \E week \in SUBSET OrderIds : CleanUpOldRecords(week)
  \/ Crash

Spec == Init /\ [][Next]_vars

\* Redis drops every status entry one hour after it was written.
FairSpec == Spec /\ \A o \in OrderIds : WF_vars(ExpireStatus(o))

(***************************************************************************)
(* Properties                                                              *)
(***************************************************************************)

Steps == {"idle", "insert", "orderHash", "orderCache", "getStatus", "queryStatus",
          "fillStatus", "update", "requery", "snapshot", "claim", "insertGroup",
          "groupHash", "commit"}
Ops   == {"none", "order", "status", "accept", "publish", "complete", "grab"}

Requests == [at : Steps, op : Ops, order : 0 .. MaxOrder, rider : Riders \cup {None},
             group : 0 .. MaxGroup, seen : Cached \cup {None}]

\* Every variable holds a value of its type.
TypeOK ==
  /\ orders \in [OrderIds -> Row \cup {None}]
  /\ nextOrder \in 1 .. MaxOrder + 1
  /\ groups \in [GroupIds -> Group \cup {None}]
  /\ nextGroup \in 1 .. MaxGroup + 1
  /\ orderHash \subseteq OrderIds
  /\ groupHash \in [GroupIds -> Group \cup {None}]
  /\ statusCache \in [OrderIds -> Cached \cup {None}]
  /\ lock \in [OrderIds -> Workers \cup {None}]
  /\ req \in [Workers -> Requests]
  /\ reply \in [Workers -> {"none", "ok", "err", "panic"}]
  /\ contested \subseteq OrderIds

\* Between its UPDATE and its commit a grab works alone on its order: nobody else
\* holds the row, and the row is neither changed nor deleted under it.
Claimed(w, o) == req[w].order = o /\ req[w].at \in {"groupHash", "commit"}
ClaimIsExclusive ==
  \A w \in Workers, o \in OrderIds :
    Claimed(w, o) => orders[o] # None /\ lock[o] = w
                     /\ \A v \in Workers : Claimed(v, o) => v = w

\* An order and the chat of its rider come together: the transaction leaves no
\* rider without a group for that order, whatever failed or crashed in between.
RiderHasGroup ==
  \A o \in OrderIds :
    orders[o] # None /\ orders[o].rider # None =>
      \E g \in GroupIds : groups[g] = [order |-> o, rider |-> orders[o].rider]

\* No group outlives its order, and every committed group can be read in Redis:
\* the hash is written before the commit and a failed write rolls back.
GroupsAreWhole ==
  \A g \in GroupIds :
    groups[g] # None => orders[groups[g].order] # None /\ groupHash[g] = groups[g]

\* One order has several groups only if two grab transactions were open on it at
\* one time: a grab that begins after another's commit never gets through.
OneGroupUnlessContested ==
  \A g, h \in GroupIds :
    groups[g] # None /\ groups[h] # None /\ groups[g].order = groups[h].order /\ g # h =>
      groups[g].order \in contested

\* An order that a rider has taken never goes back to having none, nor does the
\* weekly clean-up delete it.
TakenStaysTaken ==
  [][\A o \in OrderIds :
       orders[o] # None /\ orders[o].rider # None
         => orders'[o] # None /\ orders'[o].rider # None]_vars

\* What a request in progress relies on: its arguments, and in a grab that has a
\* group ID, that the order is there and its row locked, the group row is not, and
\* at the end that the hash is.
InTransaction == {"insertGroup", "groupHash", "commit"}
HasGroupId(w) == req[w].at \in {"groupHash", "commit"}

RequestOK(w) ==
  LET q == req[w] IN
  /\ q.at \notin {"idle", "insert"} => q.order \in OrderIds
  /\ q.at = "fillStatus" => q.seen \in Cached
  /\ q.at = "update" => q.op \in DOMAIN NewStatus
  /\ q.at \in {"snapshot", "claim"} \cup InTransaction => q.rider \in Riders
  /\ q.at \in {"claim"} \cup InTransaction => q.order < nextOrder
  /\ q.at \in InTransaction => orders[q.order] = None \/ lock[q.order] = w
  /\ HasGroupId(w) => q.group \in GroupIds /\ q.group < nextGroup
                      /\ groups[q.group] = None /\ orders[q.order] # None
  /\ q.at = "commit" => groupHash[q.group] = [order |-> q.order, rider |-> q.rider]

\* A lock belongs to a transaction that has updated the row; two transactions
\* never hold the same group ID.
LocksOK ==
  /\ \A o \in OrderIds : lock[o] # None =>
       orders[o] # None /\ req[lock[o]].order = o /\ req[lock[o]].at \in InTransaction
  /\ \A v, w \in Workers : HasGroupId(v) /\ HasGroupId(w) /\ v # w => req[v].group # req[w].group

\* AUTO_INCREMENT values that were not handed out name no row.
CountersOK ==
  /\ \A o \in OrderIds : o >= nextOrder => orders[o] = None
  /\ \A g \in GroupIds : g >= nextGroup => groups[g] = None

\* A group's order has a rider; an order is contested once two transactions are
\* open on it, or one is when another has already given it a rider.
ContestedOK ==
  /\ \A g \in GroupIds : groups[g] # None => orders[groups[g].order].rider # None
  /\ \A o \in OrderIds, w \in Workers : InGrab(w, o) =>
       /\ \A v \in Workers : InGrab(v, o) /\ v # w => o \in contested
       /\ orders[o] # None /\ orders[o].rider # None => o \in contested

\* The inductive invariant behind the safety properties.
OrdersInv ==
  /\ TypeOK
  /\ \A w \in Workers : RequestOK(w)
  /\ LocksOK
  /\ CountersOK
  /\ RiderHasGroup
  /\ GroupsAreWhole
  /\ ContestedOK
  /\ OneGroupUnlessContested

\* What the cache says about an order that MySQL does not.
StaleStatus(o) ==
  statusCache[o] # None /\ (orders[o] = None \/ statusCache[o] # View(orders[o]))

\* No handler refreshes order_status_<id> when it changes the order, the handler
\* that places one stores a rider the row has not, and a slow query fills the
\* cache with a row that has changed since.  Still, once the orders no longer
\* change, the cache comes to tell nothing that MySQL does not, for good.
StatusSettles ==
  <>[][UNCHANGED orders]_vars => <>[](\A o \in OrderIds : ~StaleStatus(o))

\* im.go:19, "the group ID should be bound to the order ID".
OneGroupPerOrder ==
  \A g, h \in GroupIds :
    groups[g] # None /\ groups[h] # None /\ groups[g].order = groups[h].order => g = h

=============================================================================
