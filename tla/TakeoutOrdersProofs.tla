-------------------------- MODULE TakeoutOrdersProofs --------------------------
(***************************************************************************)
(* Proofs about TakeoutOrders for any handlers, riders, orders and groups. *)
(***************************************************************************)
EXTENDS TakeoutOrders, TLAPS

(***************************************************************************)
(* Types                                                                   *)
(***************************************************************************)

LEMMA ContinueType ==
  ASSUME TypeOK, NEW w \in Workers, NEW q \in Requests, Continue(w, q)
  PROVE  req' \in [Workers -> Requests] /\ reply' \in [Workers -> {"none", "ok", "err", "panic"}]
BY DEF TypeOK, Continue

LEMMA AnswerType ==
  ASSUME TypeOK, NEW w \in Workers, NEW a \in {"none", "ok", "err", "panic"}, Answer(w, a)
  PROVE  req' \in [Workers -> Requests] /\ reply' \in [Workers -> {"none", "ok", "err", "panic"}]
<1>1. Idle \in Requests
  BY OrdersAssumption DEF Idle, Requests, Steps, Ops
<1> QED BY <1>1 DEF TypeOK, Answer

LEMMA AtType ==
  ASSUME NEW q \in Requests, NEW at \in Steps
  PROVE  At(q, at) \in Requests
BY DEF At, Requests

LEMMA GotoType ==
  ASSUME TypeOK, NEW w \in Workers, NEW at \in Steps, Goto(w, at)
  PROVE  req' \in [Workers -> Requests] /\ reply' \in [Workers -> {"none", "ok", "err", "panic"}]
<1>1. req[w] \in Requests
  BY DEF TypeOK
<1> QED BY <1>1, AtType, ContinueType DEF Goto

\* What a worker's next request is.
LEMMA ContinueReq ==
  ASSUME TypeOK, NEW w \in Workers, NEW q, Continue(w, q)
  PROVE  req'[w] = q /\ \A v \in Workers \ {w} : req'[v] = req[v]
BY DEF TypeOK, Continue

LEMMA GotoReq ==
  ASSUME TypeOK, NEW w \in Workers, NEW at \in Steps, Goto(w, at)
  PROVE  /\ req'[w].at = at /\ req'[w].op = req[w].op /\ req'[w].order = req[w].order
         /\ req'[w].rider = req[w].rider /\ req'[w].group = req[w].group
         /\ \A v \in Workers \ {w} : req'[v] = req[v]
BY ContinueReq DEF Goto, At

LEMMA AnswerReq ==
  ASSUME TypeOK, NEW w \in Workers, NEW a \in {"none", "ok", "err", "panic"}, Answer(w, a)
  PROVE  req'[w].at = "idle" /\ \A v \in Workers \ {w} : req'[v] = req[v]
BY DEF TypeOK, Answer, Idle

LEMMA BeginType ==
  ASSUME TypeOK, NEW w \in Workers, NEW at \in Steps, NEW op \in Ops, NEW o \in 0 .. MaxOrder,
         NEW r \in Riders \cup {None}, Begin(w, at, op, o, r)
  PROVE  TypeOK'
<1> DEFINE q == [at |-> at, op |-> op, order |-> o, rider |-> r, group |-> 0, seen |-> None]
<1>1. q \in Requests
  BY OrdersAssumption DEF Requests
<1>2. req' = [req EXCEPT ![w] = q]
  BY DEF Begin
<1> HIDE DEF q
<1> QED BY <1>1, <1>2 DEF TypeOK, Begin, dbVars, redisVars

LEMMA MarkedType ==
  ASSUME NEW row \in Row, NEW op \in DOMAIN NewStatus
  PROVE  Marked(row, NewStatus[op]) \in Row
<1>1. NewStatus[op] \in {"accepted", "published", "completed"}
  BY DEF NewStatus
<1> QED BY <1>1 DEF Row, Marked

LEMMA UnlockType ==
  ASSUME TypeOK, NEW w \in Workers, Unlock(w)
  PROVE  lock' \in [OrderIds -> Workers \cup {None}]
BY DEF TypeOK, Unlock

LEMMA TypeInit == Init => TypeOK
<1>1. Idle \in Requests
  BY OrdersAssumption DEF Idle, Requests, Steps, Ops
<1> QED BY <1>1, OrdersAssumption DEF Init, TypeOK

LEMMA TypeStep == OrdersInv /\ [Next]_vars => TypeOK'
<1> SUFFICES ASSUME OrdersInv, [Next]_vars PROVE TypeOK'
  OBVIOUS
<1>t. TypeOK /\ \A w \in Workers : RequestOK(w) /\ req[w] \in Requests
  BY DEF OrdersInv, TypeOK
<1> USE OrdersAssumption DEF dbVars, redisVars
<1>1. ASSUME NEW w \in Workers, Request(w) PROVE TypeOK'
  <2>1. CASE \E r \in Riders \cup {None} : Order(w, r)
    BY <2>1, <1>t, BeginType DEF Order, Steps, Ops
  <2>2. ASSUME NEW o \in OrderIds, OrderStatus(w, o) PROVE TypeOK'
    BY <2>2, <1>t, BeginType DEF OrderStatus, Steps, Ops, OrderIds
  <2>3. ASSUME NEW o \in OrderIds, NEW op \in DOMAIN NewStatus, ChangeStatus(w, op, o) PROVE TypeOK'
    <3>1. op \in Ops /\ "update" \in Steps /\ o \in 0 .. MaxOrder
      BY DEF NewStatus, Ops, Steps, OrderIds
    <3> QED BY <2>3, <3>1, <1>t, BeginType DEF ChangeStatus
  <2>4. ASSUME NEW o \in OrderIds, NEW r \in Riders, Grab(w, o, r) PROVE TypeOK'
    BY <2>4, <1>t, BeginType DEF Grab, Steps, Ops, OrderIds
  <2> QED BY <1>1, <2>1, <2>2, <2>3, <2>4 DEF Request
<1>2. ASSUME NEW w \in Workers, InsertOrder(w) PROVE TypeOK'
  <2> DEFINE row == [rider |-> None, order_status |-> "waiting", status |-> "none"]
  <2>1. row \in Row
    BY DEF Row
  <2>2. orders' \in [OrderIds -> Row \cup {None}]
    BY <1>2, <2>1, <1>t DEF InsertOrder, TypeOK
  <2>3. nextOrder' \in 1 .. MaxOrder + 1
    BY <1>2, <1>t DEF InsertOrder, TypeOK, OrderIds
  <2>4. req' \in [Workers -> Requests] /\ reply' \in [Workers -> {"none", "ok", "err", "panic"}]
    <3>1. CASE Answer(w, "err")
      BY <3>1, <1>t, AnswerType
    <3>2. CASE nextOrder \in OrderIds /\ Continue(w, [At(req[w], "orderHash") EXCEPT !.order = nextOrder])
      <4> DEFINE q == [At(req[w], "orderHash") EXCEPT !.order = nextOrder]
      <4>1. At(req[w], "orderHash") \in Requests
        BY <1>t, AtType DEF Steps
      <4>2. q \in Requests
        BY <3>2, <4>1 DEF Requests, OrderIds
      <4> HIDE DEF q
      <4>3. Continue(w, q)
        BY <3>2 DEF q
      <4> QED BY <4>2, <4>3, <1>t, ContinueType
    <3> QED BY <1>2, <3>1, <3>2 DEF InsertOrder
  <2> QED BY <1>2, <2>2, <2>3, <2>4, <1>t DEF InsertOrder, TypeOK
<1>3. ASSUME NEW w \in Workers, SetOrderHash(w) PROVE TypeOK'
  <2>1. req' \in [Workers -> Requests] /\ reply' \in [Workers -> {"none", "ok", "err", "panic"}]
    BY <1>3, <1>t, AnswerType, GotoType DEF SetOrderHash, Steps
  <2>2. req[w].order \in OrderIds
    BY <1>3, <1>t DEF SetOrderHash, RequestOK
  <2> QED BY <1>3, <2>1, <2>2, <1>t DEF SetOrderHash, TypeOK
<1>4. ASSUME NEW w \in Workers, CacheOrder(w) PROVE TypeOK'
  <2>1. req' \in [Workers -> Requests] /\ reply' \in [Workers -> {"none", "ok", "err", "panic"}]
    BY <1>4, <1>t, AnswerType DEF CacheOrder
  <2>2. [rider |-> req[w].rider, order_status |-> "waiting"] \in Cached
    BY <1>t DEF Cached, Requests
  <2> QED BY <1>4, <2>1, <2>2, <1>t DEF CacheOrder, TypeOK
<1>5. ASSUME NEW w \in Workers, GetStatus(w) PROVE TypeOK'
  <2>1. req' \in [Workers -> Requests] /\ reply' \in [Workers -> {"none", "ok", "err", "panic"}]
    BY <1>5, <1>t, AnswerType, GotoType DEF GetStatus, Steps
  <2> QED BY <1>5, <2>1, <1>t DEF GetStatus, TypeOK
<1>6. ASSUME NEW w \in Workers, QueryStatus(w) PROVE TypeOK'
  <2>1. req' \in [Workers -> Requests] /\ reply' \in [Workers -> {"none", "ok", "err", "panic"}]
    <3>1. CASE Answer(w, "err")
      BY <3>1, <1>t, AnswerType
    <3>2. CASE /\ orders[req[w].order] # None
               /\ Continue(w, [At(req[w], "fillStatus") EXCEPT !.seen = View(orders[req[w].order])])
      <4> DEFINE q == [At(req[w], "fillStatus") EXCEPT !.seen = View(orders[req[w].order])]
      <4>1. At(req[w], "fillStatus") \in Requests
        BY <1>t, AtType DEF Steps
      <4>2. req[w].order \in OrderIds
        BY <1>6, <1>t DEF QueryStatus, RequestOK
      <4>3. View(orders[req[w].order]) \in Cached
        BY <3>2, <4>2, <1>t DEF TypeOK, Row, View, Cached
      <4>4. q \in Requests
        BY <4>1, <4>3 DEF Requests
      <4> HIDE DEF q
      <4>5. Continue(w, q)
        BY <3>2 DEF q
      <4> QED BY <4>4, <4>5, <1>t, ContinueType
    <3> QED BY <1>6, <3>1, <3>2 DEF QueryStatus
  <2> QED BY <1>6, <2>1, <1>t DEF QueryStatus, TypeOK
<1>7. ASSUME NEW w \in Workers, FillStatus(w) PROVE TypeOK'
  <2>1. req' \in [Workers -> Requests] /\ reply' \in [Workers -> {"none", "ok", "err", "panic"}]
    BY <1>7, <1>t, AnswerType DEF FillStatus
  <2>2. req[w].seen \in Cached
    BY <1>7, <1>t DEF FillStatus, RequestOK
  <2> QED BY <1>7, <2>1, <2>2, <1>t DEF FillStatus, TypeOK
<1>8. ASSUME NEW w \in Workers, UpdateOrderStatus(w) PROVE TypeOK'
  <2>1. req' \in [Workers -> Requests] /\ reply' \in [Workers -> {"none", "ok", "err", "panic"}]
    BY <1>8, <1>t, AnswerType, GotoType DEF UpdateOrderStatus, Steps
  <2>2. orders' \in [OrderIds -> Row \cup {None}]
    <3>1. \/ UNCHANGED orders
          \/ /\ orders[req[w].order] # None
             /\ orders' = [orders EXCEPT ![req[w].order] = Marked(@, NewStatus[req[w].op])]
      BY <1>8, Zenon DEF UpdateOrderStatus
    <3>2. req[w].order \in OrderIds /\ req[w].op \in DOMAIN NewStatus
      BY <1>8, <1>t DEF UpdateOrderStatus, RequestOK
    <3>3. orders[req[w].order] # None => Marked(orders[req[w].order], NewStatus[req[w].op]) \in Row
      BY <3>2, <1>t, MarkedType DEF TypeOK
    <3>4. CASE UNCHANGED orders
      BY <3>4, <1>t DEF TypeOK
    <3>5. CASE /\ orders[req[w].order] # None
               /\ orders' = [orders EXCEPT ![req[w].order] = Marked(@, NewStatus[req[w].op])]
      <4> DEFINE row == Marked(orders[req[w].order], NewStatus[req[w].op])
      <4>1. row \in Row /\ orders' = [orders EXCEPT ![req[w].order] = row]
        BY <3>3, <3>5
      <4> HIDE DEF row
      <4> QED BY <4>1, <1>t DEF TypeOK
    <3> QED BY <3>1, <3>4, <3>5
  <2> QED BY <1>8, <2>1, <2>2, <1>t DEF UpdateOrderStatus, TypeOK
<1>9. ASSUME NEW w \in Workers, Requery(w) PROVE TypeOK'
  <2>1. req' \in [Workers -> Requests] /\ reply' \in [Workers -> {"none", "ok", "err", "panic"}]
    BY <1>9, <1>t, AnswerType DEF Requery
  <2> QED BY <1>9, <2>1, <1>t DEF Requery, TypeOK
<1>10. ASSUME NEW w \in Workers, ReadOrder(w) PROVE TypeOK'
  <2>1. req' \in [Workers -> Requests] /\ reply' \in [Workers -> {"none", "ok", "err", "panic"}]
    BY <1>10, <1>t, AnswerType, GotoType DEF ReadOrder, Steps
  <2>2. req[w].order \in OrderIds
    BY <1>10, <1>t DEF ReadOrder, RequestOK
  <2>3. contested' \subseteq OrderIds
    BY <1>10, <2>2, <1>t DEF ReadOrder, TypeOK
  <2> QED BY <1>10, <2>1, <2>3, <1>t DEF ReadOrder, TypeOK
<1>11. ASSUME NEW w \in Workers, ClaimOrder(w) PROVE TypeOK'
  <2>1. req' \in [Workers -> Requests] /\ reply' \in [Workers -> {"none", "ok", "err", "panic"}]
    BY <1>11, <1>t, AnswerType, GotoType DEF ClaimOrder, Steps
  <2> QED BY <1>11, <2>1, <1>t DEF ClaimOrder, TypeOK
<1>12. ASSUME NEW w \in Workers, InsertGroup(w) PROVE TypeOK'
  <2>1. nextGroup' \in 1 .. MaxGroup + 1
    BY <1>12, <1>t DEF InsertGroup, TypeOK, GroupIds
  <2>2. req' \in [Workers -> Requests] /\ reply' \in [Workers -> {"none", "ok", "err", "panic"}]
    <3>1. CASE Answer(w, "err")
      BY <3>1, <1>t, AnswerType
    <3>2. CASE nextGroup \in GroupIds /\ Continue(w, [At(req[w], "groupHash") EXCEPT !.group = nextGroup])
      <4> DEFINE q == [At(req[w], "groupHash") EXCEPT !.group = nextGroup]
      <4>1. At(req[w], "groupHash") \in Requests
        BY <1>t, AtType DEF Steps
      <4>2. q \in Requests
        BY <3>2, <4>1 DEF Requests, GroupIds
      <4> HIDE DEF q
      <4>3. Continue(w, q)
        BY <3>2 DEF q
      <4> QED BY <4>2, <4>3, <1>t, ContinueType
    <3> QED BY <1>12, <3>1, <3>2 DEF InsertGroup
  <2>3. lock' \in [OrderIds -> Workers \cup {None}]
    BY <1>12, <1>t, UnlockType DEF InsertGroup, TypeOK
  <2> QED BY <1>12, <2>1, <2>2, <2>3, <1>t DEF InsertGroup, TypeOK
<1>13. ASSUME NEW w \in Workers, SetGroupHash(w) PROVE TypeOK'
  <2>1. req' \in [Workers -> Requests] /\ reply' \in [Workers -> {"none", "ok", "err", "panic"}]
    BY <1>13, <1>t, AnswerType, GotoType DEF SetGroupHash, Steps
  <2>2. lock' \in [OrderIds -> Workers \cup {None}]
    BY <1>13, <1>t, UnlockType DEF SetGroupHash, TypeOK
  <2>3. [order |-> req[w].order, rider |-> req[w].rider] \in Group
    BY <1>13, <1>t DEF SetGroupHash, RequestOK, InTransaction, Group
  <2> QED BY <1>13, <2>1, <2>2, <2>3, <1>t DEF SetGroupHash, TypeOK
<1>14. ASSUME NEW w \in Workers, CommitGrab(w) PROVE TypeOK'
  <2>1. req' \in [Workers -> Requests] /\ reply' \in [Workers -> {"none", "ok", "err", "panic"}]
    BY <1>14, <1>t, AnswerType DEF CommitGrab
  <2>2. lock' \in [OrderIds -> Workers \cup {None}]
    BY <1>14, <1>t, UnlockType DEF CommitGrab
  <2>3. req[w].order \in OrderIds /\ req[w].rider \in Riders /\ orders[req[w].order] # None
    BY <1>14, <1>t DEF CommitGrab, RequestOK, InTransaction, HasGroupId
  <2>4. [order |-> req[w].order, rider |-> req[w].rider] \in Group
    BY <2>3 DEF Group
  <2>5. Taken(orders[req[w].order], req[w].rider) \in Row
    BY <2>3, <1>t DEF TypeOK, Row, Taken
  <2> QED BY <1>14, <2>1, <2>2, <2>4, <2>5, <1>t DEF CommitGrab, TypeOK
<1>15. ASSUME NEW o \in OrderIds, ExpireStatus(o) PROVE TypeOK'
  BY <1>15, <1>t DEF ExpireStatus, TypeOK
<1>16. ASSUME NEW week \in SUBSET OrderIds, CleanUpOldRecords(week) PROVE TypeOK'
  BY <1>16, <1>t DEF CleanUpOldRecords, TypeOK
<1>17. CASE Crash
  <2>1. Idle \in Requests
    BY DEF Idle, Requests, Steps, Ops
  <2> QED BY <1>17, <2>1, <1>t DEF Crash, TypeOK
<1>18. CASE UNCHANGED vars
  BY <1>18, <1>t DEF vars, TypeOK
<1> QED BY <1>1, <1>2, <1>3, <1>4, <1>5, <1>6, <1>7, <1>8, <1>9, <1>10, <1>11, <1>12, <1>13,
           <1>14, <1>15, <1>16, <1>17, <1>18 DEF Next, Step

(***************************************************************************)
(* The inductive invariant holds initially and is preserved by the steps   *)
(* outside a transaction.                                                  *)
(***************************************************************************)

LEMMA InvInit == Init => OrdersInv
<1> SUFFICES ASSUME Init PROVE OrdersInv
  OBVIOUS
<1>1. TypeOK
  BY TypeInit
<1>2. \A w \in Workers : req[w].at = "idle"
  BY DEF Init, Idle
<1>3. \A w \in Workers : RequestOK(w) /\ ~HasGroupId(w) /\ \A o \in OrderIds : ~InGrab(w, o)
  BY <1>2 DEF RequestOK, InTransaction, HasGroupId, InGrab
<1> QED BY <1>1, <1>3 DEF Init, OrdersInv, LocksOK, CountersOK, RiderHasGroup, GroupsAreWhole,
             ContestedOK, OneGroupUnlessContested

\* What holds of w's request when it is at none of the steps of a transaction.
LEMMA QuietRequest ==
  ASSUME NEW w \in Workers, req[w].at \notin InTransaction \cup {"claim"},
         req[w].at \notin {"idle", "insert"} => req[w].order \in OrderIds,
         req[w].at = "fillStatus" => req[w].seen \in Cached,
         req[w].at = "update" => req[w].op \in DOMAIN NewStatus,
         req[w].at = "snapshot" => req[w].rider \in Riders
  PROVE  RequestOK(w)
BY DEF RequestOK, InTransaction, HasGroupId

LEMMA QuietStep ==
  ASSUME OrdersInv, TypeOK', NEW w \in Workers,
         UNCHANGED <<dbVars, groupHash, contested>>,
         \A v \in Workers \ {w} : req'[v] = req[v],
         req[w].at \notin InTransaction, req'[w].at \notin InTransaction \cup {"claim"},
         RequestOK(w)'
  PROVE  OrdersInv'
<1> USE DEF dbVars
<1>1. \A v \in Workers : RequestOK(v)'
  <2> SUFFICES ASSUME NEW v \in Workers PROVE RequestOK(v)'
    OBVIOUS
  <2>1. CASE v = w
    BY <2>1
  <2>2. CASE v # w
    BY <2>2 DEF OrdersInv, RequestOK, HasGroupId
  <2> QED BY <2>1, <2>2
<1>2. LocksOK'
  BY DEF OrdersInv, TypeOK, LocksOK, HasGroupId, InTransaction
<1>3. CountersOK' /\ RiderHasGroup' /\ GroupsAreWhole' /\ OneGroupUnlessContested'
  BY DEF OrdersInv, CountersOK, RiderHasGroup, GroupsAreWhole, OneGroupUnlessContested
<1>4. ContestedOK'
  BY DEF OrdersInv, ContestedOK, InGrab, InTransaction
<1> QED BY <1>1, <1>2, <1>3, <1>4 DEF OrdersInv

\* The transaction of w is rolled back.
LEMMA AbortStep ==
  ASSUME OrdersInv, TypeOK', NEW w \in Workers,
         UNCHANGED <<orders, nextOrder, groups, contested>>,
         nextGroup' \in {nextGroup, nextGroup + 1},
         \A g \in GroupIds : groupHash'[g] = groupHash[g] \/ (req[w].at = "groupHash" /\ g = req[w].group),
         Unlock(w), req' = [req EXCEPT ![w] = Idle]
  PROVE  OrdersInv'
<1>1. \A v \in Workers \ {w} : req'[v] = req[v]
  BY DEF OrdersInv, TypeOK
<1>2. req'[w].at = "idle"
  BY DEF OrdersInv, TypeOK, Idle
<1>3. \A o \in OrderIds : lock'[o] = IF lock[o] = w THEN None ELSE lock[o]
  BY DEF Unlock
<1>4. \A v \in Workers : RequestOK(v)'
  <2> SUFFICES ASSUME NEW v \in Workers PROVE RequestOK(v)'
    OBVIOUS
  <2>1. CASE v = w
    BY <2>1, <1>2 DEF RequestOK, InTransaction, HasGroupId
  <2>2. CASE v # w
    <3>1. RequestOK(v) /\ req'[v] = req[v] /\ req[v] \in Requests
      BY <2>2, <1>1 DEF OrdersInv, TypeOK
    <3>2. HasGroupId(v) /\ req[w].at = "groupHash" => req[v].group # req[w].group
      BY <2>2 DEF OrdersInv, LocksOK, HasGroupId
    <3>3. req[v].at \in InTransaction => orders'[req[v].order] = None \/ lock'[req[v].order] = v
      BY <2>2, <3>1, <1>3 DEF RequestOK, InTransaction
    <3>4. HasGroupId(v) => req[v].group < nextGroup'
      BY <3>1 DEF RequestOK, OrdersInv, TypeOK, GroupIds
    <3>5. req[v].at = "commit" =>
            groupHash'[req[v].group] = [order |-> req[v].order, rider |-> req[v].rider]
      BY <3>1, <3>2 DEF RequestOK, HasGroupId
    <3> QED BY <3>1, <3>3, <3>4, <3>5 DEF RequestOK, HasGroupId
  <2> QED BY <2>1, <2>2
<1>5. LocksOK'
  <2>1. ASSUME NEW o \in OrderIds, lock'[o] # None
        PROVE  orders'[o] # None /\ req'[lock'[o]].order = o /\ req'[lock'[o]].at \in InTransaction
    <3>1. lock'[o] = lock[o] /\ lock[o] # w /\ lock[o] \in Workers
      BY <2>1, <1>3 DEF OrdersInv, TypeOK
    <3> QED BY <2>1, <3>1, <1>1 DEF OrdersInv, LocksOK
  <2>2. ASSUME NEW u \in Workers, NEW v \in Workers, HasGroupId(u)', HasGroupId(v)', u # v
        PROVE  req'[u].group # req'[v].group
    <3>1. u # w /\ v # w
      BY <2>2, <1>2 DEF HasGroupId
    <3> QED BY <3>1, <2>2, <1>1 DEF OrdersInv, LocksOK, HasGroupId
  <2> QED BY <2>1, <2>2 DEF LocksOK
<1>6. CountersOK'
  BY DEF OrdersInv, CountersOK, TypeOK, GroupIds
<1>7. RiderHasGroup' /\ OneGroupUnlessContested'
  BY DEF OrdersInv, RiderHasGroup, OneGroupUnlessContested
<1>8. GroupsAreWhole'
  <2>1. req[w].at = "groupHash" => groups[req[w].group] = None
    BY DEF OrdersInv, RequestOK, HasGroupId
  <2> QED BY <2>1 DEF OrdersInv, GroupsAreWhole
<1>9. ContestedOK'
  BY <1>1, <1>2 DEF OrdersInv, ContestedOK, InGrab
<1> QED BY <1>4, <1>5, <1>6, <1>7, <1>8, <1>9 DEF OrdersInv

(***************************************************************************)
(* The steps that change a row, a lock, a group or the history.            *)
(***************************************************************************)

LEMMA InsertOrderStep ==
  ASSUME OrdersInv, TypeOK', NEW w \in Workers, InsertOrder(w)
  PROVE  OrdersInv'
<1>t. TypeOK
  BY DEF OrdersInv
<1>0. /\ \A v \in Workers \ {w} : req'[v] = req[v]
      /\ req'[w].at = "idle" \/ (req'[w].at = "orderHash" /\ req'[w].order \in OrderIds)
  <2>1. CASE Answer(w, "err")
    <3>1. req'[w].at = "idle" /\ \A v \in Workers \ {w} : req'[v] = req[v]
      BY <2>1, <1>t, AnswerReq
    <3> QED BY <3>1
  <2>2. CASE nextOrder \in OrderIds /\ Continue(w, [At(req[w], "orderHash") EXCEPT !.order = nextOrder])
    <3> DEFINE q == [At(req[w], "orderHash") EXCEPT !.order = nextOrder]
    <3>1. q.at = "orderHash" /\ q.order = nextOrder
      BY DEF At
    <3> HIDE DEF q
    <3>2. Continue(w, q)
      BY <2>2 DEF q
    <3> QED BY <2>2, <3>1, <3>2, <1>t, ContinueReq
  <2> QED BY <2>1, <2>2 DEF InsertOrder
<1>1. \A v \in Workers \ {w} : req'[v] = req[v]
  BY <1>0
<1>2. req'[w].at = "idle" \/ (req'[w].at = "orderHash" /\ req'[w].order \in OrderIds)
  BY <1>0
<1>3. RequestOK(w)'
  BY <1>2 DEF RequestOK, InTransaction, HasGroupId
<1>4. /\ nextOrder' \in {nextOrder, nextOrder + 1}
      /\ \A o \in OrderIds : orders'[o] = orders[o]
           \/ /\ o = nextOrder /\ nextOrder' = nextOrder + 1
              /\ orders[o] = None /\ orders'[o].rider = None
              /\ orders'[o] # None
  <2>1. CASE UNCHANGED orders
    BY <2>1 DEF OrdersInv, TypeOK, InsertOrder
  <2>2. CASE /\ nextOrder \in OrderIds /\ nextOrder' = nextOrder + 1
             /\ orders' = [orders EXCEPT ![nextOrder] =
                  [rider |-> None, order_status |-> "waiting", status |-> "none"]]
    <3>1. orders[nextOrder] = None
      BY <2>2 DEF OrdersInv, CountersOK, OrderIds
    <3>2. orders'[nextOrder].rider = None
      BY <2>2 DEF OrdersInv, TypeOK
    <3>3. orders'[nextOrder] \in Row
      BY <2>2 DEF OrdersInv, TypeOK, Row
    <3>4. orders'[nextOrder] # None
      BY <3>3, OrdersAssumption
    <3> QED BY <2>2, <3>1, <3>2, <3>4 DEF OrdersInv, TypeOK
  <2> QED BY <2>1, <2>2 DEF InsertOrder
<1>5. UNCHANGED <<groups, nextGroup, lock, groupHash, contested>>
  BY DEF InsertOrder, redisVars
<1>6. \A v \in Workers : RequestOK(v)'
  <2> SUFFICES ASSUME NEW v \in Workers, v # w PROVE RequestOK(v)'
    BY <1>3
  <2>1. RequestOK(v) /\ req'[v] = req[v] /\ nextOrder \in Nat /\ req[v].order \in Nat
    BY <1>1 DEF OrdersInv, TypeOK, Requests
  <2>2. req[v].at \in {"claim"} \cup InTransaction =>
          req[v].order < nextOrder' /\ req[v].order \in OrderIds
          /\ orders'[req[v].order] = orders[req[v].order]
    BY <2>1, <1>4 DEF RequestOK, InTransaction
  <2> QED BY <2>1, <2>2, <1>5 DEF RequestOK, HasGroupId, InTransaction
<1>7. LocksOK'
  <2>1. \A o \in OrderIds : lock[o] # None => orders'[o] # None /\ lock[o] # w
    BY <1>4 DEF OrdersInv, LocksOK, InsertOrder, InTransaction
  <2>2. ~HasGroupId(w)'
    BY <1>2 DEF HasGroupId
  <2> QED BY <2>1, <2>2, <1>1, <1>5 DEF OrdersInv, TypeOK, LocksOK, HasGroupId
<1>8. CountersOK'
  BY <1>4, <1>5 DEF OrdersInv, CountersOK, TypeOK, OrderIds
<1>9. RiderHasGroup' /\ GroupsAreWhole' /\ OneGroupUnlessContested'
  BY <1>4, <1>5 DEF OrdersInv, RiderHasGroup, GroupsAreWhole, OneGroupUnlessContested, TypeOK, Group
<1>10. ContestedOK'
  <2>1. \A o \in OrderIds : ~InGrab(w, o)'
    BY <1>2 DEF InGrab
  <2>2. \A g \in GroupIds : groups[g] # None =>
          groups[g].order \in OrderIds /\ orders'[groups[g].order] = orders[groups[g].order]
    BY <1>4 DEF OrdersInv, GroupsAreWhole, TypeOK, Group
  <2> QED BY <2>1, <2>2, <1>1, <1>4, <1>5 DEF OrdersInv, ContestedOK, InGrab
<1> QED BY <1>6, <1>7, <1>8, <1>9, <1>10 DEF OrdersInv

LEMMA UpdateOrderStatusStep ==
  ASSUME OrdersInv, TypeOK', NEW w \in Workers, UpdateOrderStatus(w)
  PROVE  OrdersInv'
<1>t. TypeOK
  BY DEF OrdersInv
<1>2. req[w].order \in OrderIds
  BY DEF OrdersInv, RequestOK, UpdateOrderStatus
<1>0. /\ \A v \in Workers \ {w} : req'[v] = req[v]
      /\ req'[w].at = "idle" \/ (req'[w].at = "requery" /\ req'[w].order \in OrderIds)
  BY <1>t, <1>2, AnswerReq, GotoReq DEF UpdateOrderStatus, Steps
<1>1. \A v \in Workers \ {w} : req'[v] = req[v]
  BY <1>0
<1>3. req'[w].at = "idle" \/ (req'[w].at = "requery" /\ req'[w].order \in OrderIds)
  BY <1>0
<1>4. RequestOK(w)'
  BY <1>3 DEF RequestOK, InTransaction, HasGroupId
<1>5. \A o \in OrderIds :
        /\ orders[o] = None => orders'[o] = None
        /\ orders[o] # None => orders'[o] # None /\ orders'[o].rider = orders[o].rider
  <2>1. CASE UNCHANGED orders
    BY <2>1
  <2>2. CASE /\ orders[req[w].order] # None
             /\ orders' = [orders EXCEPT ![req[w].order] = Marked(@, NewStatus[req[w].op])]
    <3> DEFINE row == Marked(orders[req[w].order], NewStatus[req[w].op])
    <3>1. row \in Row
      <4>1. orders[req[w].order] \in Row
        BY <2>2, <1>2, <1>t DEF TypeOK
      <4>2. req[w].op \in DOMAIN NewStatus
        <5>1. RequestOK(w) /\ req[w].at = "update"
          BY DEF OrdersInv, UpdateOrderStatus
        <5> QED BY <5>1 DEF RequestOK
      <4> QED BY <4>1, <4>2, MarkedType
    <3>2. row.rider = orders[req[w].order].rider
      BY DEF Marked
    <3>3. orders' = [orders EXCEPT ![req[w].order] = row]
      BY <2>2
    <3> HIDE DEF row
    <3> QED BY <2>2, <3>1, <3>2, <3>3, <1>t, OrdersAssumption DEF TypeOK
  <2> QED BY <2>1, <2>2, Zenon DEF UpdateOrderStatus
<1>6. UNCHANGED <<nextOrder, groups, nextGroup, lock, groupHash, contested>>
  BY DEF UpdateOrderStatus, redisVars
<1>7. \A v \in Workers : RequestOK(v)'
  <2> SUFFICES ASSUME NEW v \in Workers, v # w PROVE RequestOK(v)'
    BY <1>4
  <2>1. RequestOK(v) /\ req'[v] = req[v]
    BY <1>1 DEF OrdersInv
  <2> QED BY <2>1, <1>5, <1>6 DEF RequestOK, HasGroupId, InTransaction
<1>8. LocksOK'
  <2>1. \A o \in OrderIds : lock[o] # w
    BY OrdersAssumption DEF OrdersInv, LocksOK, UpdateOrderStatus, InTransaction
  <2>2. ~HasGroupId(w)'
    BY <1>3 DEF HasGroupId
  <2> QED BY <2>1, <2>2, <1>1, <1>5, <1>6 DEF OrdersInv, TypeOK, LocksOK, HasGroupId
<1>9. CountersOK' /\ RiderHasGroup' /\ OneGroupUnlessContested'
  BY <1>5, <1>6 DEF OrdersInv, CountersOK, RiderHasGroup, OneGroupUnlessContested
<1>10. \A g \in GroupIds : groups[g] # None => groups[g].order \in OrderIds
  BY DEF OrdersInv, TypeOK, Group
<1>11. GroupsAreWhole'
  BY <1>5, <1>6, <1>10 DEF OrdersInv, GroupsAreWhole
<1>12. ContestedOK'
  <2>1. \A o \in OrderIds : ~InGrab(w, o)'
    BY <1>3 DEF InGrab
  <2> QED BY <2>1, <1>1, <1>5, <1>6, <1>10 DEF OrdersInv, ContestedOK, GroupsAreWhole, InGrab
<1> QED BY <1>7, <1>8, <1>9, <1>11, <1>12 DEF OrdersInv

LEMMA ReadOrderStep ==
  ASSUME OrdersInv, TypeOK', NEW w \in Workers, ReadOrder(w), Goto(w, "claim"),
         orders[req[w].order] # None, orders[req[w].order].rider = None,
         contested' = IF \E v \in Workers : InGrab(v, req[w].order)
                      THEN contested \cup {req[w].order} ELSE contested
  PROVE  OrdersInv'
<1>t. TypeOK
  BY DEF OrdersInv
<1>0. req[w].at = "snapshot" /\ req[w].order \in OrderIds /\ req[w].rider \in Riders
  BY DEF ReadOrder, OrdersInv, RequestOK
<1>1. /\ \A v \in Workers \ {w} : req'[v] = req[v]
      /\ req'[w].at = "claim" /\ req'[w].order = req[w].order /\ req'[w].rider = req[w].rider
  BY <1>t, GotoReq DEF Steps
<1>2. UNCHANGED <<orders, nextOrder, groups, nextGroup, lock, groupHash>>
  BY DEF ReadOrder, dbVars, redisVars
<1>3. RequestOK(w)'
  <2>1. req[w].order < nextOrder
    BY <1>0, <1>t DEF OrdersInv, CountersOK, TypeOK, OrderIds
  <2> QED BY <2>1, <1>0, <1>1, <1>2 DEF RequestOK, InTransaction, HasGroupId
<1>4. \A v \in Workers : RequestOK(v)'
  <2> SUFFICES ASSUME NEW v \in Workers, v # w PROVE RequestOK(v)'
    BY <1>3
  <2>1. RequestOK(v) /\ req'[v] = req[v]
    BY <1>1 DEF OrdersInv
  <2> QED BY <2>1, <1>2 DEF RequestOK, HasGroupId
<1>5. LocksOK'
  <2>1. \A o \in OrderIds : lock[o] # w
    BY <1>0, OrdersAssumption DEF OrdersInv, LocksOK, InTransaction
  <2>2. ~HasGroupId(w)'
    BY <1>1 DEF HasGroupId
  <2> QED BY <2>1, <2>2, <1>1, <1>2 DEF OrdersInv, TypeOK, LocksOK, HasGroupId
<1>6. contested \subseteq contested'
  OBVIOUS
<1>7. CountersOK' /\ RiderHasGroup' /\ GroupsAreWhole' /\ OneGroupUnlessContested'
  BY <1>2, <1>6 DEF OrdersInv, CountersOK, RiderHasGroup, GroupsAreWhole, OneGroupUnlessContested
<1>8. ContestedOK'
  <2>1. ASSUME NEW o \in OrderIds, NEW u \in Workers, NEW v \in Workers,
               InGrab(u, o)', InGrab(v, o)', u # v
        PROVE  o \in contested'
    <3>1. CASE u = w \/ v = w
      <4>1. \E x \in Workers : InGrab(x, o)
        BY <2>1, <3>1, <1>1 DEF InGrab
      <4>2. o = req[w].order
        BY <2>1, <3>1, <1>1 DEF InGrab
      <4> QED BY <4>1, <4>2
    <3>2. CASE u # w /\ v # w
      BY <2>1, <3>2, <1>1, <1>6 DEF OrdersInv, ContestedOK, InGrab
    <3> QED BY <3>1, <3>2
  <2>2. ASSUME NEW o \in OrderIds, NEW u \in Workers, InGrab(u, o)', orders'[o] # None,
               orders'[o].rider # None
        PROVE  o \in contested'
    <3>1. u # w
      BY <2>2, <1>1, <1>2 DEF InGrab
    <3> QED BY <3>1, <2>2, <1>1, <1>2, <1>6 DEF OrdersInv, ContestedOK, InGrab
  <2> QED BY <2>1, <2>2, <1>2 DEF OrdersInv, ContestedOK
<1> QED BY <1>4, <1>5, <1>7, <1>8 DEF OrdersInv

LEMMA ClaimOrderStep ==
  ASSUME OrdersInv, TypeOK', NEW w \in Workers, ClaimOrder(w), Goto(w, "insertGroup"),
         lock[req[w].order] = None,
         lock' = IF orders[req[w].order] = None THEN lock ELSE [lock EXCEPT ![req[w].order] = w]
  PROVE  OrdersInv'
<1>t. TypeOK
  BY DEF OrdersInv
<1>0. /\ req[w].at = "claim" /\ req[w].order \in OrderIds /\ req[w].rider \in Riders
      /\ req[w].order < nextOrder
  BY DEF ClaimOrder, OrdersInv, RequestOK
<1>1. /\ \A v \in Workers \ {w} : req'[v] = req[v]
      /\ req'[w].at = "insertGroup" /\ req'[w].order = req[w].order /\ req'[w].rider = req[w].rider
  BY <1>t, GotoReq DEF Steps
<1>2. UNCHANGED <<orders, nextOrder, groups, nextGroup, groupHash, contested>>
  BY DEF ClaimOrder, redisVars
<1>3. \A o \in OrderIds : \/ lock'[o] = lock[o]
                         \/ (o = req[w].order /\ lock'[o] = w /\ lock[o] = None /\ orders[o] # None)
  BY <1>0, <1>t DEF TypeOK
<1>4. \A v \in Workers : RequestOK(v)'
  <2> SUFFICES ASSUME NEW v \in Workers PROVE RequestOK(v)'
    OBVIOUS
  <2>1. CASE v = w
    <3>1. orders[req[w].order] = None \/ lock'[req[w].order] = w
      BY <1>0, <1>t DEF TypeOK
    <3> QED BY <2>1, <3>1, <1>0, <1>1, <1>2 DEF RequestOK, InTransaction, HasGroupId
  <2>2. CASE v # w
    <3>1. RequestOK(v) /\ req'[v] = req[v]
      BY <1>1, <2>2 DEF OrdersInv
    <3>2. req[v].at \in InTransaction => orders[req[v].order] = None \/ lock'[req[v].order] = v
      <4>1. req[v].at \in InTransaction =>
              req[v].order \in OrderIds /\ (orders[req[v].order] = None \/ lock[req[v].order] = v)
        BY <3>1 DEF RequestOK, InTransaction
      <4>2. v # None
        BY OrdersAssumption
      <4> QED BY <4>1, <4>2, <1>3
    <3> QED BY <3>1, <3>2, <1>2 DEF RequestOK, HasGroupId
  <2> QED BY <2>1, <2>2
<1>5. LocksOK'
  <2>1. ASSUME NEW o \in OrderIds, lock'[o] # None
        PROVE  orders'[o] # None /\ req'[lock'[o]].order = o /\ req'[lock'[o]].at \in InTransaction
    <3>1. CASE lock'[o] = lock[o]
      <4>1. lock[o] \in Workers \ {w}
        BY <2>1, <3>1, <1>0, <1>t DEF OrdersInv, TypeOK, LocksOK, InTransaction
      <4> QED BY <2>1, <3>1, <4>1, <1>1, <1>2 DEF OrdersInv, LocksOK
    <3>2. CASE o = req[w].order /\ lock'[o] = w /\ orders[o] # None
      BY <3>2, <1>1, <1>2 DEF InTransaction
    <3> QED BY <3>1, <3>2, <1>3
  <2>2. ~HasGroupId(w)'
    BY <1>1 DEF HasGroupId
  <2> QED BY <2>1, <2>2, <1>1 DEF OrdersInv, LocksOK, HasGroupId
<1>6. CountersOK' /\ RiderHasGroup' /\ GroupsAreWhole' /\ OneGroupUnlessContested'
  BY <1>2 DEF OrdersInv, CountersOK, RiderHasGroup, GroupsAreWhole, OneGroupUnlessContested
<1>7. ContestedOK'
  <2>1. \A v \in Workers, o \in OrderIds : InGrab(v, o)' <=> InGrab(v, o)
    BY <1>0, <1>1 DEF InGrab
  <2> QED BY <2>1, <1>2 DEF OrdersInv, ContestedOK
<1> QED BY <1>4, <1>5, <1>6, <1>7 DEF OrdersInv

LEMMA InsertGroupStep ==
  ASSUME OrdersInv, TypeOK', NEW w \in Workers, InsertGroup(w), orders[req[w].order] # None,
         nextGroup \in GroupIds, nextGroup' = nextGroup + 1, UNCHANGED lock,
         Continue(w, [At(req[w], "groupHash") EXCEPT !.group = nextGroup])
  PROVE  OrdersInv'
<1>t. TypeOK
  BY DEF OrdersInv
<1>0. /\ req[w].at = "insertGroup" /\ req[w].order \in OrderIds /\ req[w].rider \in Riders
      /\ req[w].order < nextOrder /\ lock[req[w].order] = w
  <2>1. RequestOK(w) /\ req[w].at = "insertGroup"
    BY DEF InsertGroup, OrdersInv
  <2> QED BY <2>1 DEF RequestOK, InTransaction
<1>1. /\ \A v \in Workers \ {w} : req'[v] = req[v]
      /\ req'[w].at = "groupHash" /\ req'[w].order = req[w].order
      /\ req'[w].rider = req[w].rider /\ req'[w].group = nextGroup
  <2> DEFINE q == [At(req[w], "groupHash") EXCEPT !.group = nextGroup]
  <2>1. q.at = "groupHash" /\ q.order = req[w].order /\ q.rider = req[w].rider /\ q.group = nextGroup
    BY DEF At
  <2>2. Continue(w, q)
    OBVIOUS
  <2> HIDE DEF q
  <2> QED BY <2>1, <2>2, <1>t, ContinueReq
<1>2. UNCHANGED <<orders, nextOrder, groups, groupHash, contested>>
  BY DEF InsertGroup, redisVars
<1>3. nextGroup \in Nat /\ groups[nextGroup] = None
  BY DEF OrdersInv, CountersOK, GroupIds
<1>4. \A v \in Workers : RequestOK(v)'
  <2> SUFFICES ASSUME NEW v \in Workers PROVE RequestOK(v)'
    OBVIOUS
  <2>1. CASE v = w
    BY <2>1, <1>0, <1>1, <1>2, <1>3 DEF RequestOK, InTransaction, HasGroupId
  <2>2. CASE v # w
    <3>1. RequestOK(v) /\ req'[v] = req[v]
      BY <1>1, <2>2 DEF OrdersInv
    <3>2. HasGroupId(v) => req[v].group < nextGroup'
      BY <3>1, <1>3 DEF RequestOK, GroupIds
    <3> QED BY <3>1, <3>2, <1>2 DEF RequestOK, HasGroupId
  <2> QED BY <2>1, <2>2
<1>5. LocksOK'
  <2>1. ASSUME NEW o \in OrderIds, lock'[o] # None
        PROVE  orders'[o] # None /\ req'[lock'[o]].order = o /\ req'[lock'[o]].at \in InTransaction
    <3>1. /\ lock[o] \in Workers /\ orders[o] # None
          /\ req[lock[o]].order = o /\ req[lock[o]].at \in InTransaction
      BY <2>1, <1>t DEF OrdersInv, TypeOK, LocksOK
    <3>2. CASE lock[o] = w
      BY <3>1, <3>2, <1>1, <1>2 DEF InTransaction
    <3>3. CASE lock[o] # w
      BY <3>1, <3>3, <1>1, <1>2
    <3> QED BY <3>2, <3>3
  <2>2. ASSUME NEW v \in Workers, v # w, HasGroupId(v)
        PROVE  req'[v].group # req'[w].group
    <3>1. req[v].group \in GroupIds /\ req[v].group < nextGroup
      BY <2>2 DEF OrdersInv, RequestOK
    <3> QED BY <3>1, <2>2, <1>1, <1>3 DEF GroupIds
  <2> QED BY <2>1, <2>2, <1>1 DEF OrdersInv, LocksOK, HasGroupId
<1>6. CountersOK'
  BY <1>2, <1>3 DEF OrdersInv, CountersOK, GroupIds
<1>7. RiderHasGroup' /\ GroupsAreWhole' /\ OneGroupUnlessContested'
  BY <1>2 DEF OrdersInv, RiderHasGroup, GroupsAreWhole, OneGroupUnlessContested
<1>8. ContestedOK'
  <2>1. \A v \in Workers, o \in OrderIds : InGrab(v, o)' <=> InGrab(v, o)
    BY <1>0, <1>1 DEF InGrab
  <2> QED BY <2>1, <1>2 DEF OrdersInv, ContestedOK
<1> QED BY <1>4, <1>5, <1>6, <1>7, <1>8 DEF OrdersInv

LEMMA SetGroupHashStep ==
  ASSUME OrdersInv, TypeOK', NEW w \in Workers, SetGroupHash(w), Goto(w, "commit"), UNCHANGED lock,
         groupHash' = [groupHash EXCEPT ![req[w].group] = [order |-> req[w].order, rider |-> req[w].rider]]
  PROVE  OrdersInv'
<1>t. TypeOK
  BY DEF OrdersInv
<1>0. RequestOK(w) /\ req[w].at = "groupHash" /\ HasGroupId(w)
  BY DEF SetGroupHash, OrdersInv, HasGroupId
<1>1. /\ \A v \in Workers \ {w} : req'[v] = req[v]
      /\ req'[w].at = "commit" /\ req'[w].order = req[w].order
      /\ req'[w].rider = req[w].rider /\ req'[w].group = req[w].group
  BY <1>t, GotoReq DEF Steps
<1>2. UNCHANGED <<orders, nextOrder, groups, nextGroup, contested>>
  BY DEF SetGroupHash
<1>3. req[w].group \in GroupIds /\ groups[req[w].group] = None
  BY <1>0 DEF RequestOK
<1>4. /\ groupHash'[req[w].group] = [order |-> req[w].order, rider |-> req[w].rider]
      /\ \A g \in GroupIds \ {req[w].group} : groupHash'[g] = groupHash[g]
  BY <1>3, <1>t DEF TypeOK
<1>5. \A v \in Workers : RequestOK(v)'
  <2> SUFFICES ASSUME NEW v \in Workers PROVE RequestOK(v)'
    OBVIOUS
  <2>1. CASE v = w
    BY <2>1, <1>0, <1>1, <1>2, <1>4 DEF RequestOK, InTransaction, HasGroupId
  <2>2. CASE v # w
    <3>1. RequestOK(v) /\ req'[v] = req[v]
      BY <1>1, <2>2 DEF OrdersInv
    <3>2. HasGroupId(v) => req[v].group \in GroupIds \ {req[w].group}
      BY <1>0, <2>2 DEF OrdersInv, RequestOK, LocksOK
    <3> QED BY <3>1, <3>2, <1>2, <1>4 DEF RequestOK, HasGroupId
  <2> QED BY <2>1, <2>2
<1>6. LocksOK'
  <2>1. \A v \in Workers : req'[v].order = req[v].order /\ req'[v].group = req[v].group
    BY <1>1
  <2>2. \A v \in Workers : req[v].at \in InTransaction => req'[v].at \in InTransaction
    BY <1>1 DEF InTransaction
  <2>3. \A v \in Workers : HasGroupId(v)' => HasGroupId(v)
    BY <1>0, <1>1 DEF HasGroupId
  <2>4. \A o \in OrderIds : lock[o] # None => lock[o] \in Workers
    BY <1>t DEF TypeOK
  <2> QED BY <2>1, <2>2, <2>3, <2>4, <1>2 DEF OrdersInv, LocksOK
<1>7. CountersOK' /\ RiderHasGroup' /\ OneGroupUnlessContested'
  BY <1>2 DEF OrdersInv, CountersOK, RiderHasGroup, OneGroupUnlessContested
<1>8. GroupsAreWhole'
  BY <1>2, <1>3, <1>4 DEF OrdersInv, GroupsAreWhole
<1>9. ContestedOK'
  <2>1. \A v \in Workers, o \in OrderIds : InGrab(v, o)' <=> InGrab(v, o)
    BY <1>0, <1>1 DEF InGrab
  <2> QED BY <2>1, <1>2 DEF OrdersInv, ContestedOK
<1> QED BY <1>5, <1>6, <1>7, <1>8, <1>9 DEF OrdersInv

LEMMA CommitGrabStep ==
  ASSUME OrdersInv, TypeOK', NEW w \in Workers, req[w].at = "commit",
         UNCHANGED <<nextOrder, nextGroup, groupHash, contested>>,
         orders' = [orders EXCEPT ![req[w].order] = Taken(@, req[w].rider)],
         groups' = [groups EXCEPT ![req[w].group] = [order |-> req[w].order, rider |-> req[w].rider]],
         req'[w].at = "idle", \A v \in Workers \ {w} : req'[v] = req[v], Unlock(w)
  PROVE  OrdersInv'
<1> DEFINE o == req[w].order
           r == req[w].rider
           g == req[w].group
           row == Taken(orders[o], r)
           group == [order |-> o, rider |-> r]
<1>t. TypeOK
  BY DEF OrdersInv
<1>0. /\ o \in OrderIds /\ r \in Riders /\ o < nextOrder /\ orders[o] # None /\ lock[o] = w
      /\ g \in GroupIds /\ g < nextGroup /\ groups[g] = None /\ groupHash[g] = group
  <2>1. RequestOK(w)
    BY DEF OrdersInv
  <2> QED BY <2>1 DEF RequestOK, InTransaction, HasGroupId
<1>1. row \in Row /\ row # None /\ row.rider = r
  <2>1. orders[o] \in Row
    BY <1>0, <1>t DEF TypeOK
  <2> QED BY <2>1, <1>0, OrdersAssumption DEF Taken, Row
<1>2. group \in Group /\ group # None /\ group.order = o /\ group.rider = r
  BY <1>0, OrdersAssumption DEF Group
<1>3. orders'[o] = row /\ \A p \in OrderIds \ {o} : orders'[p] = orders[p]
  BY <1>0, <1>t DEF TypeOK
<1>4. groups'[g] = group /\ \A h \in GroupIds \ {g} : groups'[h] = groups[h]
  BY <1>0, <1>t DEF TypeOK
<1>5. \A p \in OrderIds : lock'[p] = IF lock[p] = w THEN None ELSE lock[p]
  BY DEF Unlock
<1>6. \A v \in Workers \ {w} : HasGroupId(v) => req[v].group # g
  BY DEF OrdersInv, LocksOK, HasGroupId
<1>7. \A v \in Workers \ {w} : req[v].at \in InTransaction => req[v].order \in OrderIds \ {o}
  <2> SUFFICES ASSUME NEW v \in Workers \ {w}, req[v].at \in InTransaction
               PROVE  req[v].order \in OrderIds \ {o}
    OBVIOUS
  <2>1. req[v].order \in OrderIds /\ (orders[req[v].order] = None \/ lock[req[v].order] = v)
    BY DEF OrdersInv, RequestOK, InTransaction
  <2> QED BY <2>1, <1>0
<1> HIDE DEF o, r, g, row, group
<1>8. \A v \in Workers : RequestOK(v)'
  <2> SUFFICES ASSUME NEW v \in Workers PROVE RequestOK(v)'
    OBVIOUS
  <2>1. CASE v = w
    BY <2>1 DEF RequestOK, InTransaction, HasGroupId
  <2>2. CASE v # w
    <3>1. RequestOK(v) /\ req'[v] = req[v]
      BY <2>2 DEF OrdersInv
    <3>2. req[v].at \in InTransaction =>
            /\ orders'[req[v].order] = orders[req[v].order]
            /\ orders'[req[v].order] = None \/ lock'[req[v].order] = v
      <4> SUFFICES ASSUME req[v].at \in InTransaction
                   PROVE  /\ orders'[req[v].order] = orders[req[v].order]
                          /\ orders'[req[v].order] = None \/ lock'[req[v].order] = v
        OBVIOUS
      <4>1. req[v].order \in OrderIds \ {o}
        BY <1>7, <2>2
      <4>2. orders[req[v].order] = None \/ lock[req[v].order] = v
        BY <3>1 DEF RequestOK
      <4> QED BY <4>1, <4>2, <1>3, <1>5, <2>2
    <3>3. HasGroupId(v) => groups'[req[v].group] = groups[req[v].group]
      BY <3>1, <1>4, <1>6, <2>2 DEF RequestOK
    <3> QED BY <3>1, <3>2, <3>3 DEF RequestOK, HasGroupId, InTransaction
  <2> QED BY <2>1, <2>2
<1>9. LocksOK'
  <2>1. ASSUME NEW p \in OrderIds, lock'[p] # None
        PROVE  orders'[p] # None /\ req'[lock'[p]].order = p /\ req'[lock'[p]].at \in InTransaction
    <3>1. lock'[p] = lock[p] /\ lock[p] \in Workers \ {w}
      BY <2>1, <1>5, <1>t DEF TypeOK
    <3>2. orders'[p] # None
      BY <2>1, <3>1, <1>1, <1>3 DEF OrdersInv, LocksOK
    <3> QED BY <2>1, <3>1, <3>2 DEF OrdersInv, LocksOK
  <2>2. ~HasGroupId(w)'
    BY DEF HasGroupId
  <2> QED BY <2>1, <2>2 DEF OrdersInv, LocksOK, HasGroupId
<1>10. CountersOK'
  <2>1. o \in Nat /\ nextOrder \in Nat /\ g \in Nat /\ nextGroup \in Nat
    BY <1>0, <1>t DEF TypeOK, OrderIds, GroupIds
  <2> QED BY <2>1, <1>0, <1>3, <1>4 DEF OrdersInv, CountersOK, OrderIds, GroupIds
<1>11. RiderHasGroup'
  <2> SUFFICES ASSUME NEW p \in OrderIds, orders'[p] # None, orders'[p].rider # None
               PROVE  \E h \in GroupIds : groups'[h] = [order |-> p, rider |-> orders'[p].rider]
    BY DEF RiderHasGroup
  <2>1. CASE p = o
    BY <2>1, <1>0, <1>1, <1>3, <1>4 DEF group
  <2>2. CASE p # o
    <3>1. orders'[p] = orders[p]
      BY <2>2, <1>3
    <3>2. PICK h \in GroupIds : groups[h] = [order |-> p, rider |-> orders[p].rider]
      BY <3>1 DEF OrdersInv, RiderHasGroup
    <3>3. h # g
      <4>1. [order |-> p, rider |-> orders[p].rider] \in Group
        BY <3>1, <1>t DEF TypeOK, Group, Row
      <4> QED BY <4>1, <3>2, <1>0, OrdersAssumption
    <3> QED BY <3>1, <3>2, <3>3, <1>4
  <2> QED BY <2>1, <2>2
<1>12. \A h \in GroupIds : groups'[h] # None =>
         groups'[h].order \in OrderIds /\ orders'[groups'[h].order] # None
         /\ orders'[groups'[h].order].rider # None
  <2> SUFFICES ASSUME NEW h \in GroupIds, groups'[h] # None
               PROVE  groups'[h].order \in OrderIds /\ orders'[groups'[h].order] # None
                      /\ orders'[groups'[h].order].rider # None
    OBVIOUS
  <2>1. r # None
    BY <1>0, OrdersAssumption
  <2>2. CASE h = g
    BY <2>1, <2>2, <1>0, <1>1, <1>2, <1>3, <1>4
  <2>3. CASE h # g
    <3>1. groups'[h] = groups[h] /\ groups[h] \in Group
      BY <2>3, <1>4, <1>t DEF TypeOK
    <3>2. /\ groups[h].order \in OrderIds /\ orders[groups[h].order] # None
          /\ orders[groups[h].order].rider # None
      BY <3>1 DEF Group, OrdersInv, GroupsAreWhole, ContestedOK
    <3> QED BY <3>1, <3>2, <2>1, <1>1, <1>3
  <2> QED BY <2>2, <2>3
<1>13. GroupsAreWhole'
  BY <1>0, <1>4, <1>12 DEF OrdersInv, GroupsAreWhole
<1>14. ContestedOK'
  <2>1. \A p \in OrderIds : ~InGrab(w, p)'
    BY DEF InGrab
  <2>2. \A v \in Workers \ {w}, p \in OrderIds : InGrab(v, p)' <=> InGrab(v, p)
    BY DEF InGrab
  <2>3. ASSUME NEW v \in Workers \ {w}, InGrab(v, o) PROVE o \in contested
    <3>1. InGrab(w, o)
      BY DEF InGrab, o
    <3> QED BY <2>3, <3>1, <1>0 DEF OrdersInv, ContestedOK
  <2>4. ASSUME NEW v \in Workers, NEW p \in OrderIds, InGrab(v, p)', orders'[p] # None,
               orders'[p].rider # None
        PROVE  p \in contested
    <3>1. v # w /\ InGrab(v, p)
      BY <2>1, <2>2, <2>4
    <3>2. CASE p = o
      BY <3>1, <3>2, <2>3
    <3>3. CASE p # o
      BY <3>1, <3>3, <2>4, <1>3 DEF OrdersInv, ContestedOK
    <3> QED BY <3>2, <3>3
  <2>5. ASSUME NEW u \in Workers, NEW v \in Workers, NEW p \in OrderIds, InGrab(u, p)', InGrab(v, p)', u # v
        PROVE  p \in contested
    BY <2>1, <2>2, <2>5 DEF OrdersInv, ContestedOK
  <2> QED BY <1>12, <2>4, <2>5 DEF ContestedOK
<1>15. OneGroupUnlessContested'
  <2>1. ASSUME NEW h \in GroupIds \ {g}, groups[h] # None, groups[h].order = o
        PROVE  o \in contested
    <3>1. orders[o].rider # None
      BY <2>1 DEF OrdersInv, ContestedOK
    <3>2. InGrab(w, o)
      BY DEF InGrab, o
    <3> QED BY <3>1, <3>2, <1>0 DEF OrdersInv, ContestedOK
  <2> QED BY <2>1, <1>2, <1>4 DEF OrdersInv, OneGroupUnlessContested
<1> QED BY <1>8, <1>9, <1>10, <1>11, <1>13, <1>14, <1>15 DEF OrdersInv

LEMMA CleanUpStep ==
  ASSUME OrdersInv, TypeOK', NEW week \in SUBSET OrderIds, CleanUpOldRecords(week)
  PROVE  OrdersInv'
<1>1. UNCHANGED <<nextOrder, groups, nextGroup, lock, groupHash, req, contested>>
  BY DEF CleanUpOldRecords, redisVars
<1>2. \A o \in OrderIds : orders'[o] = orders[o]
                         \/ (orders'[o] = None /\ lock[o] = None /\ ~Referenced(o))
  BY DEF CleanUpOldRecords
<1>3. \A g \in GroupIds : groups[g] # None =>
        groups[g].order \in OrderIds /\ orders'[groups[g].order] = orders[groups[g].order]
  BY <1>2 DEF OrdersInv, TypeOK, Group, Referenced
<1>4. \A w \in Workers : RequestOK(w)'
  <2> SUFFICES ASSUME NEW w \in Workers PROVE RequestOK(w)'
    OBVIOUS
  <2>1. RequestOK(w)
    BY DEF OrdersInv
  <2>2. req[w].at \in InTransaction => orders'[req[w].order] = None \/ lock[req[w].order] = w
    BY <2>1, <1>2 DEF RequestOK, InTransaction
  <2>3. HasGroupId(w) => orders'[req[w].order] = orders[req[w].order]
    <3> SUFFICES ASSUME HasGroupId(w) PROVE orders'[req[w].order] = orders[req[w].order]
      OBVIOUS
    <3>1. req[w].order \in OrderIds /\ lock[req[w].order] = w
      BY <2>1 DEF RequestOK, HasGroupId, InTransaction
    <3> QED BY <3>1, <1>2, OrdersAssumption
  <2> QED BY <2>1, <2>2, <2>3, <1>1 DEF RequestOK, HasGroupId
<1>5. LocksOK'
  BY <1>1, <1>2 DEF OrdersInv, LocksOK, HasGroupId
<1>6. CountersOK'
  BY <1>1, <1>2 DEF OrdersInv, CountersOK
<1>7. RiderHasGroup'
  <2> SUFFICES ASSUME NEW o \in OrderIds, orders'[o] # None, orders'[o].rider # None
               PROVE  \E g \in GroupIds : groups'[g] = [order |-> o, rider |-> orders'[o].rider]
    BY DEF RiderHasGroup
  <2>1. orders'[o] = orders[o]
    BY <1>2
  <2> QED BY <2>1, <1>1 DEF OrdersInv, RiderHasGroup
<1>8. GroupsAreWhole' /\ OneGroupUnlessContested'
  BY <1>1, <1>3 DEF OrdersInv, GroupsAreWhole, OneGroupUnlessContested
<1>9. ContestedOK'
  <2>1. \A w \in Workers, o \in OrderIds : InGrab(w, o)' <=> InGrab(w, o)
    BY <1>1 DEF InGrab
  <2> QED BY <2>1, <1>1, <1>2, <1>3 DEF OrdersInv, ContestedOK
<1> QED BY <1>4, <1>5, <1>6, <1>7, <1>8, <1>9 DEF OrdersInv

LEMMA CrashStep == ASSUME OrdersInv, TypeOK', Crash PROVE OrdersInv'
<1>1. UNCHANGED <<orders, nextOrder, groups, nextGroup, groupHash, contested>>
  BY DEF Crash, redisVars
<1>2. \A w \in Workers : req'[w].at = "idle"
  BY DEF Crash, Idle
<1>3. \A w \in Workers : RequestOK(w)' /\ ~HasGroupId(w)' /\ \A o \in OrderIds : ~InGrab(w, o)'
  BY <1>2 DEF RequestOK, InTransaction, HasGroupId, InGrab
<1>4. LocksOK'
  BY <1>3 DEF Crash, LocksOK
<1>5. CountersOK' /\ RiderHasGroup' /\ GroupsAreWhole' /\ OneGroupUnlessContested'
  BY <1>1 DEF OrdersInv, CountersOK, RiderHasGroup, GroupsAreWhole, OneGroupUnlessContested
<1>6. ContestedOK'
  BY <1>1, <1>3 DEF OrdersInv, ContestedOK
<1> QED BY <1>3, <1>4, <1>5, <1>6 DEF OrdersInv

(***************************************************************************)
(* Every step preserves the invariant.                                     *)
(***************************************************************************)

\* A request that begins is at the first step of a handler.
LEMMA BeginStep ==
  ASSUME OrdersInv, TypeOK', NEW w \in Workers,
         NEW at \in {"insert", "getStatus", "update", "snapshot"},
         NEW op \in Ops, NEW o \in 0 .. MaxOrder, NEW r \in Riders \cup {None},
         Begin(w, at, op, o, r),
         at # "insert" => o \in OrderIds,
         at = "update" => op \in DOMAIN NewStatus,
         at = "snapshot" => r \in Riders
  PROVE  OrdersInv'
<1> DEFINE q == [at |-> at, op |-> op, order |-> o, rider |-> r, group |-> 0, seen |-> None]
<1>1. q.at = at /\ q.op = op /\ q.order = o /\ q.rider = r
  OBVIOUS
<1>2. req' = [req EXCEPT ![w] = q] /\ req[w].at = "idle"
  BY DEF Begin, Busy
<1> HIDE DEF q
<1>3. req'[w] = q /\ \A v \in Workers \ {w} : req'[v] = req[v]
  BY <1>2 DEF OrdersInv, TypeOK
<1>4. RequestOK(w)'
  BY <1>1, <1>3 DEF RequestOK, InTransaction, HasGroupId
<1>5. UNCHANGED <<dbVars, groupHash, contested>>
  BY DEF Begin, redisVars
<1>6. req[w].at \notin InTransaction /\ req'[w].at \notin InTransaction \cup {"claim"}
  BY <1>1, <1>2, <1>3 DEF InTransaction
<1> QED BY <1>3, <1>4, <1>5, <1>6, QuietStep

\* A request outside a transaction is answered or goes on outside a transaction.
LEMMA PlainStep ==
  ASSUME OrdersInv, TypeOK', NEW w \in Workers,
         UNCHANGED <<dbVars, groupHash, contested>>,
         req[w].at \notin InTransaction,
         \/ \E a \in {"none", "ok", "err", "panic"} : Answer(w, a)
         \/ /\ req[w].at \notin {"idle", "insert"}
            /\ \E at \in {"orderCache", "queryStatus", "requery"} : Goto(w, at)
  PROVE  OrdersInv'
<1>t. TypeOK
  BY DEF OrdersInv
<1>1. CASE \E a \in {"none", "ok", "err", "panic"} : Answer(w, a)
  <2>1. req'[w].at = "idle" /\ \A v \in Workers \ {w} : req'[v] = req[v]
    BY <1>1, <1>t, AnswerReq
  <2>2. RequestOK(w)' /\ req'[w].at \notin InTransaction \cup {"claim"}
    BY <2>1 DEF RequestOK, InTransaction, HasGroupId
  <2> QED BY <2>1, <2>2, QuietStep
<1>2. ASSUME req[w].at \notin {"idle", "insert"},
             NEW at \in {"orderCache", "queryStatus", "requery"}, Goto(w, at)
      PROVE  OrdersInv'
  <2>1. /\ req'[w].at = at /\ req'[w].order = req[w].order
        /\ \A v \in Workers \ {w} : req'[v] = req[v]
    BY <1>2, <1>t, GotoReq DEF Steps
  <2>2. req[w].order \in OrderIds
    BY <1>2 DEF OrdersInv, RequestOK
  <2>3. RequestOK(w)' /\ req'[w].at \notin InTransaction \cup {"claim"}
    BY <2>1, <2>2 DEF RequestOK, InTransaction, HasGroupId
  <2> QED BY <2>1, <2>3, QuietStep
<1> QED BY <1>1, <1>2

LEMMA RequestStep ==
  ASSUME OrdersInv, TypeOK', NEW w \in Workers, Request(w)
  PROVE  OrdersInv'
<1>1. ASSUME NEW r \in Riders \cup {None}, Order(w, r) PROVE OrdersInv'
  BY <1>1, OrdersAssumption, BeginStep DEF Order, Ops
<1>2. ASSUME NEW o \in OrderIds, OrderStatus(w, o) PROVE OrdersInv'
  BY <1>2, BeginStep DEF OrderStatus, Ops, OrderIds
<1>3. ASSUME NEW o \in OrderIds, NEW op \in DOMAIN NewStatus, ChangeStatus(w, op, o) PROVE OrdersInv'
  <2>1. op \in Ops /\ o \in 0 .. MaxOrder
    BY DEF NewStatus, Ops, OrderIds
  <2> QED BY <1>3, <2>1, BeginStep DEF ChangeStatus
<1>4. ASSUME NEW o \in OrderIds, NEW r \in Riders, Grab(w, o, r) PROVE OrdersInv'
  BY <1>4, BeginStep DEF Grab, Ops, OrderIds
<1> QED BY <1>1, <1>2, <1>3, <1>4 DEF Request

LEMMA OrderStep ==
  ASSUME OrdersInv, TypeOK', NEW w \in Workers,
         \/ SetOrderHash(w) \/ CacheOrder(w) \/ GetStatus(w) \/ QueryStatus(w)
         \/ FillStatus(w) \/ Requery(w)
  PROVE  OrdersInv'
<1>1. CASE SetOrderHash(w)
  BY <1>1, PlainStep DEF SetOrderHash, InTransaction
<1>2. CASE CacheOrder(w)
  BY <1>2, PlainStep DEF CacheOrder, InTransaction
<1>3. CASE GetStatus(w)
  BY <1>3, PlainStep DEF GetStatus, InTransaction, redisVars
<1>4. CASE QueryStatus(w)
  <2>1. CASE Answer(w, "err")
    BY <1>4, <2>1, PlainStep DEF QueryStatus, InTransaction, redisVars
  <2>2. CASE Continue(w, [At(req[w], "fillStatus") EXCEPT !.seen = View(orders[req[w].order])])
             /\ orders[req[w].order] # None
    <3> DEFINE q == [At(req[w], "fillStatus") EXCEPT !.seen = View(orders[req[w].order])]
    <3>1. q.at = "fillStatus" /\ q.order = req[w].order /\ q.seen = View(orders[req[w].order])
      BY DEF At
    <3>2. Continue(w, q)
      BY <2>2
    <3> HIDE DEF q
    <3>3. req'[w] = q /\ \A v \in Workers \ {w} : req'[v] = req[v]
      BY <3>2, ContinueReq DEF OrdersInv
    <3>4. req[w].at = "queryStatus" /\ req[w].order \in OrderIds
      BY <1>4 DEF QueryStatus, OrdersInv, RequestOK
    <3>5. View(orders[req[w].order]) \in Cached
      BY <2>2, <3>4 DEF OrdersInv, TypeOK, Row, View, Cached
    <3>6. RequestOK(w)' /\ req'[w].at \notin InTransaction \cup {"claim"}
      BY <3>1, <3>3, <3>4, <3>5 DEF RequestOK, InTransaction, HasGroupId
    <3>7. UNCHANGED <<dbVars, groupHash, contested>> /\ req[w].at \notin InTransaction
      BY <1>4, <3>4 DEF QueryStatus, redisVars, InTransaction
    <3> QED BY <3>3, <3>6, <3>7, QuietStep
  <2> QED BY <1>4, <2>1, <2>2 DEF QueryStatus
<1>5. CASE FillStatus(w)
  BY <1>5, PlainStep DEF FillStatus, InTransaction
<1>6. CASE Requery(w)
  BY <1>6, PlainStep DEF Requery, InTransaction, redisVars
<1> QED BY <1>1, <1>2, <1>3, <1>4, <1>5, <1>6

LEMMA GrabStep ==
  ASSUME OrdersInv, TypeOK', NEW w \in Workers,
         ReadOrder(w) \/ ClaimOrder(w) \/ InsertGroup(w) \/ SetGroupHash(w) \/ CommitGrab(w)
  PROVE  OrdersInv'
<1>1. CASE ReadOrder(w)
  <2>1. CASE Answer(w, "err") /\ UNCHANGED contested
    BY <1>1, <2>1, PlainStep DEF ReadOrder, InTransaction, redisVars
  <2>2. CASE ~(Answer(w, "err") /\ UNCHANGED contested)
    BY <1>1, <2>2, ReadOrderStep DEF ReadOrder
  <2> QED BY <2>1, <2>2
<1>2. CASE ClaimOrder(w)
  <2>1. CASE Answer(w, "err") /\ UNCHANGED lock
    BY <1>2, <2>1, PlainStep DEF ClaimOrder, InTransaction, redisVars, dbVars
  <2>2. CASE ~(Answer(w, "err") /\ UNCHANGED lock)
    BY <1>2, <2>2, ClaimOrderStep DEF ClaimOrder
  <2> QED BY <2>1, <2>2
<1>3. CASE InsertGroup(w)
  <2>1. CASE Answer(w, "err") /\ Unlock(w) /\ nextGroup' \in {nextGroup, nextGroup + 1}
    BY <1>3, <2>1, AbortStep DEF InsertGroup, Answer, redisVars
  <2>2. CASE ~(Answer(w, "err") /\ Unlock(w) /\ nextGroup' \in {nextGroup, nextGroup + 1})
    BY <1>3, <2>2, InsertGroupStep DEF InsertGroup
  <2> QED BY <2>1, <2>2
<1>4. CASE SetGroupHash(w)
  <2>1. PICK out \in Outcomes :
          /\ groupHash' = IF Executed(out)
               THEN [groupHash EXCEPT ![req[w].group] = [order |-> req[w].order, rider |-> req[w].rider]]
               ELSE groupHash
          /\ IF out = "ok" THEN Goto(w, "commit") /\ UNCHANGED lock
             ELSE Answer(w, "err") /\ Unlock(w)
    BY <1>4 DEF SetGroupHash
  <2>2. CASE out = "ok"
    BY <1>4, <2>1, <2>2, SetGroupHashStep DEF Executed
  <2>3. CASE out # "ok"
    <3>1. Unlock(w) /\ req' = [req EXCEPT ![w] = Idle]
      BY <2>1, <2>3 DEF Answer
    <3>2. UNCHANGED <<orders, nextOrder, groups, nextGroup, contested>> /\ req[w].at = "groupHash"
      BY <1>4 DEF SetGroupHash
    <3>3. \A g \in GroupIds : groupHash'[g] = groupHash[g] \/ (req[w].at = "groupHash" /\ g = req[w].group)
      BY <2>1, <3>2 DEF OrdersInv, TypeOK
    <3> QED BY <3>1, <3>2, <3>3, AbortStep
  <2> QED BY <2>2, <2>3
<1>5. CASE CommitGrab(w)
  <2>1. /\ req[w].at = "commit" /\ Unlock(w)
        /\ UNCHANGED <<nextOrder, nextGroup, groupHash, contested>>
    BY <1>5 DEF CommitGrab, redisVars
  <2>2. PICK out \in Outcomes :
          /\ IF Executed(out)
             THEN /\ orders' = [orders EXCEPT ![req[w].order] = Taken(@, req[w].rider)]
                  /\ groups' = [groups EXCEPT ![req[w].group] =
                                  [order |-> req[w].order, rider |-> req[w].rider]]
             ELSE UNCHANGED <<orders, groups>>
          /\ Answer(w, IF out = "ok" THEN "ok" ELSE "err")
    BY <1>5 DEF CommitGrab
  <2>3. CASE Executed(out)
    <3>1. req'[w].at = "idle" /\ \A v \in Workers \ {w} : req'[v] = req[v]
      BY <2>2, AnswerReq DEF OrdersInv
    <3> QED BY <2>1, <2>2, <2>3, <3>1, CommitGrabStep
  <2>4. CASE ~Executed(out)
    BY <2>1, <2>2, <2>4, AbortStep DEF Answer
  <2> QED BY <2>3, <2>4
<1> QED BY <1>1, <1>2, <1>3, <1>4, <1>5

LEMMA StatusEntryStep ==
  ASSUME OrdersInv, TypeOK', UNCHANGED <<dbVars, groupHash, req, contested>>
  PROVE  OrdersInv'
<1> USE DEF dbVars
<1>1. \A w \in Workers : RequestOK(w)'
  BY DEF OrdersInv, RequestOK, HasGroupId
<1>2. LocksOK' /\ CountersOK' /\ RiderHasGroup' /\ GroupsAreWhole' /\ OneGroupUnlessContested'
  BY DEF OrdersInv, LocksOK, HasGroupId, CountersOK, RiderHasGroup, GroupsAreWhole,
         OneGroupUnlessContested
<1>3. ContestedOK'
  BY DEF OrdersInv, ContestedOK, InGrab
<1> QED BY <1>1, <1>2, <1>3 DEF OrdersInv

\* Every step of the handlers, of Redis, of the clean-up and of a crash preserves
\* the inductive invariant.
LEMMA InvStep == OrdersInv /\ [Next]_vars => OrdersInv'
<1> SUFFICES ASSUME OrdersInv, [Next]_vars PROVE OrdersInv'
  OBVIOUS
<1>t. TypeOK'
  BY TypeStep
<1>1. ASSUME NEW w \in Workers, Request(w) PROVE OrdersInv'
  BY <1>1, <1>t, RequestStep
<1>2. ASSUME NEW w \in Workers, Step(w) PROVE OrdersInv'
  BY <1>2, <1>t, InsertOrderStep, OrderStep, UpdateOrderStatusStep, GrabStep DEF Step
<1>3. ASSUME NEW o \in OrderIds, ExpireStatus(o) PROVE OrdersInv'
  BY <1>3, <1>t, StatusEntryStep DEF ExpireStatus
<1>4. ASSUME NEW week \in SUBSET OrderIds, CleanUpOldRecords(week) PROVE OrdersInv'
  BY <1>4, <1>t, CleanUpStep
<1>5. CASE Crash
  BY <1>5, <1>t, CrashStep
<1>6. CASE UNCHANGED vars
  BY <1>6, <1>t, StatusEntryStep DEF vars, dbVars
<1> QED BY <1>1, <1>2, <1>3, <1>4, <1>5, <1>6 DEF Next

(***************************************************************************)
(* Theorems                                                                *)
(***************************************************************************)

\* The inductive invariant holds in every reachable state of the order service.
THEOREM InvCorrect == Spec => []OrdersInv
<1> QED BY InvInit, InvStep, PTL DEF Spec

\* Between its UPDATE and its commit a grab works alone on its order, whatever the
\* other handlers, the clean-up and a crash do.
THEOREM ClaimExclusive == Spec => []ClaimIsExclusive
<1>1. OrdersInv => ClaimIsExclusive
  <2> SUFFICES ASSUME OrdersInv, NEW w \in Workers, NEW o \in OrderIds, Claimed(w, o)
               PROVE  orders[o] # None /\ lock[o] = w /\ \A v \in Workers : Claimed(v, o) => v = w
    BY DEF ClaimIsExclusive
  <2>1. \A v \in Workers : Claimed(v, o) => orders[o] # None /\ lock[o] = v
    BY DEF Claimed, OrdersInv, RequestOK, HasGroupId, InTransaction
  <2> QED BY <2>1
<1> QED BY <1>1, InvCorrect, PTL

\* Every order that has a rider has a group with that rider, after any failure,
\* rollback or crash of a grab.
THEOREM RiderAndGroupTogether == Spec => []RiderHasGroup
<1>1. OrdersInv => RiderHasGroup
  BY DEF OrdersInv
<1> QED BY <1>1, InvCorrect, PTL

\* Every committed group has its order and its hash in Redis, whatever part of a grab
\* failed and whenever the clean-up ran.
THEOREM GroupsStayWhole == Spec => []GroupsAreWhole
<1>1. OrdersInv => GroupsAreWhole
  BY DEF OrdersInv
<1> QED BY <1>1, InvCorrect, PTL

\* Two groups of one order come only from grabs that were open at one time.
THEOREM OneGroup == Spec => []OneGroupUnlessContested
<1>1. OrdersInv => OneGroupUnlessContested
  BY DEF OrdersInv
<1> QED BY <1>1, InvCorrect, PTL

\* No handler takes an order back from its rider, and the weekly clean-up, which
\* runs at any moment, does not delete it.
THEOREM TakenForGood == Spec => TakenStaysTaken
<1> DEFINE Kept == \A o \in OrderIds :
             orders[o] # None /\ orders[o].rider # None
               => orders'[o] # None /\ orders'[o].rider # None
<1>1. OrdersInv /\ TypeOK' /\ [Next]_vars => Kept
  <2> SUFFICES ASSUME OrdersInv, TypeOK', [Next]_vars, NEW o \in OrderIds,
                      orders[o] # None, orders[o].rider # None
               PROVE  orders'[o] # None /\ orders'[o].rider # None
    OBVIOUS
  <2>t. TypeOK
    BY DEF OrdersInv
  <2>1. CASE UNCHANGED orders
    BY <2>1
  <2>2. ASSUME NEW w \in Workers, InsertOrder(w) PROVE orders'[o] # None /\ orders'[o].rider # None
    <3>1. o # nextOrder
      BY DEF OrdersInv, CountersOK, OrderIds
    <3> QED BY <2>2, <3>1, <2>t DEF InsertOrder, TypeOK
  <2>3. ASSUME NEW w \in Workers, UpdateOrderStatus(w), ~UNCHANGED orders
        PROVE  orders'[o] # None /\ orders'[o].rider # None
    <3> DEFINE row == Marked(orders[req[w].order], NewStatus[req[w].op])
    <3>1. orders' = [orders EXCEPT ![req[w].order] = row] /\ orders[req[w].order] # None
      BY <2>3, Zenon DEF UpdateOrderStatus
    <3>2. req[w].order \in OrderIds /\ req[w].op \in DOMAIN NewStatus
      <4>1. RequestOK(w) /\ req[w].at = "update"
        BY <2>3 DEF OrdersInv, UpdateOrderStatus
      <4> QED BY <4>1 DEF RequestOK
    <3>3. row \in Row
      BY <3>1, <3>2, <2>t, MarkedType DEF TypeOK
    <3>4. row.rider = orders[req[w].order].rider
      BY DEF Marked
    <3> HIDE DEF row
    <3> QED BY <3>1, <3>2, <3>3, <3>4, <2>t, OrdersAssumption DEF TypeOK
  <2>4. ASSUME NEW w \in Workers, CommitGrab(w), ~UNCHANGED orders
        PROVE  orders'[o] # None /\ orders'[o].rider # None
    <3> DEFINE row == Taken(orders[req[w].order], req[w].rider)
    <3>1. orders' = [orders EXCEPT ![req[w].order] = row]
      BY <2>4 DEF CommitGrab
    <3>2. RequestOK(w) /\ req[w].at = "commit"
      BY <2>4 DEF OrdersInv, CommitGrab
    <3>3. req[w].order \in OrderIds /\ req[w].rider \in Riders /\ orders[req[w].order] # None
      BY <3>2 DEF RequestOK, InTransaction, HasGroupId
    <3>4. row \in Row /\ row.rider \in Riders
      <4>1. orders[req[w].order] \in Row
        BY <3>3, <2>t DEF TypeOK
      <4> QED BY <3>3, <4>1 DEF Taken, Row
    <3> HIDE DEF row
    <3> QED BY <3>1, <3>3, <3>4, <2>t, OrdersAssumption DEF TypeOK
  <2>5. ASSUME NEW week \in SUBSET OrderIds, CleanUpOldRecords(week)
        PROVE  orders'[o] # None /\ orders'[o].rider # None
    <3>1. PICK g \in GroupIds : groups[g] = [order |-> o, rider |-> orders[o].rider]
      BY DEF OrdersInv, RiderHasGroup
    <3>2. groups[g] # None
      <4>1. [order |-> o, rider |-> orders[o].rider] \in Group
        BY <2>t DEF TypeOK, Row, Group
      <4> QED BY <3>1, <4>1, OrdersAssumption
    <3>3. Referenced(o)
      BY <3>1, <3>2 DEF Referenced
    <3> QED BY <2>5, <3>3 DEF CleanUpOldRecords
  <2>6. UNCHANGED orders
        \/ (\E w \in Workers : InsertOrder(w) \/ UpdateOrderStatus(w) \/ CommitGrab(w))
        \/ (\E week \in SUBSET OrderIds : CleanUpOldRecords(week))
    BY DEF Next, Request, Step, vars, dbVars, Order, OrderStatus, ChangeStatus, Grab, Begin,
           SetOrderHash, CacheOrder, GetStatus, QueryStatus, FillStatus, Requery, ReadOrder,
           ClaimOrder, InsertGroup, SetGroupHash, ExpireStatus, Crash
  <2> QED BY <2>1, <2>2, <2>3, <2>4, <2>5, <2>6
<1>2. OrdersInv => TypeOK
  BY DEF OrdersInv
<1> QED BY <1>1, <1>2, InvCorrect, PTL DEF Spec, TakenStaysTaken

=============================================================================
