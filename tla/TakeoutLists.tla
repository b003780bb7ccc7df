----------------------------- MODULE TakeoutLists -----------------------------
(***************************************************************************)
(* The two lists of Golang/takeout that are read through a cache nobody    *)
(* refreshes: the messages of a group (im.go; cached for seven days under  *)
(* the group's ID) and the products of a shop (order.go, shop.go; for an   *)
(* hour under shop_products_<id>).  One group and one shop are modelled:   *)
(* the keys of two never meet.                                             *)
(*                                                                         *)
(* A worker is a handler goroutine; every request it makes to MySQL or     *)
(* Redis is one action.  An entry is the number of the request that sends  *)
(* it.  The tables of db.txt lack columns these statements name: with them *)
(* only the failing outcomes of SaveMessage and of the query of products   *)
(* can happen, with tables that have them all.                             *)
(***************************************************************************)
EXTENDS Naturals

CONSTANTS
  Workers,     \* handler goroutines
  MaxEntries,  \* bound: requests that send an entry
  None         \* no entry in the cache

VARIABLES
  requests,   \* number of requests that sent an entry
  table,      \* table[l]: the rows of list l
  cache,      \* cache[l]: the list stored in Redis, or None
  announced,  \* entries published to the group, or stored as product:<id>
  deleted,    \* history: messages deleted by the weekly clean-up
  req         \* req[w]: the request w handles and the step it is at

vars == <<requests, table, cache, announced, deleted, req>>

Lists   == {"messages", "products"}
Entries == 1 .. MaxEntries
Idle    == [at |-> "idle", list |-> "messages", entry |-> 0, seen |-> {}]

ListsAssumption == MaxEntries \in Nat /\ \A rows \in SUBSET Entries : rows # None

Init ==
  /\ requests = 0
  /\ table = [l \in Lists |-> {}]
  /\ cache = [l \in Lists |-> None]
  /\ announced = {} /\ deleted = {}
  /\ req = [w \in Workers |-> Idle]

Goto(w, step) == req' = [req EXCEPT ![w].at = step]
Done(w)       == req' = [req EXCEPT ![w] = Idle]

(* handleSendMessage, handleAddProductForShop *)

Send(w, l) ==
  /\ req[w] = Idle /\ requests < MaxEntries
  /\ requests' = requests + 1
  /\ req' = [req EXCEPT ![w] = [at |-> "save", list |-> l, entry |-> requests + 1, seen |-> {}]]
  /\ UNCHANGED <<table, cache, announced, deleted>>

\* Mutant of Save: a failed INSERT is logged and the message published all the same.
SaveIgnoringErr(w) ==
  LET l == req[w].list IN
  /\ req[w].at = "save"
  /\ table' \in {table, [table EXCEPT ![l] = @ \cup {req[w].entry}]}
  /\ Goto(w, "announce")
  /\ UNCHANGED <<requests, cache, announced, deleted>>

\* The INSERT fails, or is executed; its answer may be lost, and then the sender is
\* told that it failed.
Save(w) ==
  LET l == req[w].list
      saved == [table EXCEPT ![l] = @ \cup {req[w].entry}]
  IN
  /\ req[w].at = "save"
  /\ \/ table' = saved /\ Goto(w, "announce")
     \/ table' \in {table, saved} /\ Done(w)
  /\ UNCHANGED <<requests, cache, announced, deleted>>

\* PublishMessage, or HSet of product:<id>; the answer does not matter to the state.
Announce(w) ==
  /\ req[w].at = "announce"
  /\ announced' \in {announced, announced \cup {req[w].entry}}
  /\ Done(w)
  /\ UNCHANGED <<requests, table, cache, deleted>>

(* handleGetMessages, handleShopProducts *)

Get(w, l) ==
  /\ req[w] = Idle
  /\ req' = [req EXCEPT ![w] = [Idle EXCEPT !.at = "cache", !.list = l]]
  /\ UNCHANGED <<requests, table, cache, announced, deleted>>

\* A hit is answered.  When Redis fails, the messages are refused and the products
\* are read from the database.
ReadCache(w) ==
  /\ req[w].at = "cache"
  /\ \/ cache[req[w].list] # None /\ Done(w)
     \/ cache[req[w].list] = None /\ Goto(w, "query")
     \/ req[w].list = "messages" /\ Done(w)
     \/ req[w].list = "products" /\ Goto(w, "query")
  /\ UNCHANGED <<requests, table, cache, announced, deleted>>

\* The query fails, or its rows are read up to the last or until the connection
\* breaks: nobody asks for rows.Err, and what was read passes for the whole list.
QueryRows(w) ==
  /\ req[w].at = "query"
  /\ \/ \E seen \in SUBSET table[req[w].list] :
          req' = [req EXCEPT ![w].at = "fill", ![w].seen = seen]
     \/ Done(w)
  /\ UNCHANGED <<requests, table, cache, announced, deleted>>

\* The error of Set is dropped.
FillCache(w) ==
  /\ req[w].at = "fill"
  /\ cache' \in {cache, [cache EXCEPT ![req[w].list] = req[w].seen]}
  /\ Done(w)
  /\ UNCHANGED <<requests, table, announced, deleted>>

\* Redis drops a list seven days, or an hour, after it was stored.
Expire(l) ==
  /\ cache[l] # None
  /\ cache' = [cache EXCEPT ![l] = None]
  /\ UNCHANGED <<requests, table, announced, deleted, req>>

\* The second statement of CleanUpOldRecords deletes the messages of one week, if the
\* first one, on the orders, did not fail.
CleanUpMessages ==
  /\ \E old \in SUBSET table["messages"] \ {{}} :
       /\ table' = [table EXCEPT !["messages"] = @ \ old]
       /\ deleted' = deleted \cup old
  /\ UNCHANGED <<requests, cache, announced, req>>

\* The server dies with all its handlers.
Crash ==
  /\ \E w \in Workers : req[w] # Idle
  /\ req' = [w \in Workers |-> Idle]
  /\ UNCHANGED <<requests, table, cache, announced, deleted>>

Next ==
  \/ \E w \in Workers, l \in Lists : Send(w, l) \/ Get(w, l)
  \/ \E w \in Workers :
       Save(w) \/ Announce(w) \/ ReadCache(w) \/ QueryRows(w) \/ FillCache(w)
  \/ \E l \in Lists : Expire(l)
  \/ CleanUpMessages \/ Crash

\* Redis drops what is over its time; no handler has to make progress.
Fairness == \A l \in Lists : WF_vars(Expire(l))

Spec == Init /\ [][Next]_vars /\ Fairness

(***************************************************************************)
(* Properties                                                              *)
(***************************************************************************)

\* A list that is read now holds e: it comes from the rows, or the cached list has it.
Listed(e) ==
  \E l \in Lists : e \in table[l] /\ (cache[l] = None \/ e \in cache[l])

\* What the group heard, or got a hash as a product, can be read sooner or later,
\* unless it has been cleaned up: nothing is announced that was not saved, and no
\* old list, not even one that a slow reader writes back late or that lacks the rows
\* behind a broken connection, hides it for good.
AnnouncedGetListed == \A e \in Entries : e \in announced ~> (Listed(e) \/ e \in deleted)

=============================================================================
