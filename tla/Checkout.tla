------------------------------ MODULE Checkout ------------------------------
(***************************************************************************)
(* CreateOrder of ticket-service: one buyer orders single tickets of one   *)
(* type of one event, from several tabs and with retries.                  *)
(*                                                                         *)
(* A process of Procs is the goroutine of one POST /orders; its steps are  *)
(* the statements and Redis commands of CreateOrder that change something. *)
(* ReserveTicketStock and ReleaseTicketStock are one step each, as         *)
(* TicketStock has them in detail.  CancelOrder is two, since CreateOrder  *)
(* may make the order's item between them; OrderQueue has what it does to  *)
(* the waiting room.  Every call carries the context of the HTTP request,  *)
(* so each may fail once the client has gone, done or not.                 *)
(***************************************************************************)
EXTENDS Naturals, FiniteSets

CONSTANTS
    Procs,          \* requests in progress
    Orders,         \* ids of orders
    IdemKeys,       \* values of the Idempotency-Key header
    Stock,          \* units on sale
    MaxCancels,     \* bound: calls of CancelOrder
    NoKey,          \* the request has no idempotency key
    NoOrder,        \* no order
    Processing      \* the marker "PROCESSING"

ASSUME CheckoutAssumption ==
    /\ Stock \in Nat /\ MaxCancels \in Nat
    /\ IsFiniteSet(Orders) /\ IsFiniteSet(Procs)
    /\ NoKey \notin IdemKeys
    /\ NoOrder \notin Orders /\ Processing \notin Orders /\ Processing # NoOrder

VARIABLES
    order,          \* orders.status; "none": no row
    keyOf,          \* the idempotency key each order was made with
    due,            \* pending orders whose expires_at has passed
    item,           \* orders that have their row in order_items
    queued,         \* orders handed to EnqueueOrder
    marker,         \* order:idempotency:<key> in Redis; NoOrder: nothing
    free,           \* units that can be reserved
    req,            \* the requests in progress, with what each still needs to know
    lost,           \* units nobody holds and nobody will give back
    loose,          \* keys whose marker was not set, or went before the order did
    blind,          \* pending orders whose request could not see another one
    cancelling,     \* calls of CancelOrder that have written the order's status
    cancels,        \* calls of CancelOrder so far
    returned,       \* orders with an item whose unit was given back
    extra,          \* units given back by orders of `returned`, once more
    stranded        \* orders cancelled before their item was made, or half way only

orderVars == <<order, keyOf, due, item, queued>>
ends == <<cancelling, cancels, returned, extra, stranded>>
vars == <<orderVars, marker, free, req, lost, loose, blind, ends>>

Statuses == {"none", "PENDING", "PAID", "CANCELLED"}
PC == {"idle", "mark", "reserve", "insert", "item", "cancel", "release", "unmark",
       "remember", "enqueue"}

Idle == [pc |-> "idle", key |-> NoKey, order |-> NoOrder, blind |-> FALSE]

TypeOK ==
    /\ order \in [Orders -> Statuses]
    /\ keyOf \in [Orders -> IdemKeys \cup {NoKey}]
    /\ item \subseteq Orders /\ queued \subseteq item
    /\ due \subseteq {o \in Orders : order[o] = "PENDING"}
    /\ \A o \in item : order[o] # "none"
    /\ marker \in [IdemKeys -> Orders \cup {Processing, NoOrder}]
    /\ free \in 0 .. Stock + extra /\ lost \in 0 .. Stock + extra
    /\ req \in [Procs -> [pc : PC, key : IdemKeys \cup {NoKey},
                          order : Orders \cup {NoOrder}, blind : BOOLEAN]]
    /\ loose \subseteq IdemKeys
    /\ blind \subseteq Orders
    /\ cancelling \in [Orders -> 0 .. MaxCancels] /\ cancels \in 0 .. MaxCancels
    /\ returned \subseteq item /\ extra \in Nat /\ stranded \subseteq item

Init ==
    /\ order = [o \in Orders |-> "none"]
    /\ keyOf = [o \in Orders |-> NoKey]
    /\ due = {} /\ item = {} /\ queued = {}
    /\ marker = [k \in IdemKeys |-> NoOrder]
    /\ free = Stock
    /\ req = [p \in Procs |-> Idle]
    /\ lost = 0
    /\ loose = {} /\ blind = {}
    /\ cancelling = [o \in Orders |-> 0] /\ cancels = 0
    /\ returned = {} /\ extra = 0 /\ stranded = {}

-----------------------------------------------------------------------------
At(p, where) == req[p].pc = where
Goto(p, where) == req' = [req EXCEPT ![p].pc = where]
Return(p) == req' = [req EXCEPT ![p] = Idle]

\* GetActivePendingOrderByUserAndEvent returns a row: PENDING and expires_at > NOW().
Active(o) == order[o] = "PENDING" /\ o \notin due

\* Past the guard, and its order not yet in the table.
Entering(p) == req[p].pc \in {"mark", "reserve", "insert"}

\* The request has taken a unit that is not yet an order's.
Holds(p) == req[p].pc \in {"insert", "item", "cancel", "release"}

-----------------------------------------------------------------------------
\* Mutant: no guard, every request goes on.
CreateOrderUnguarded(p, k, failing) ==
    /\ At(p, "idle")
    /\ req' = [req EXCEPT ![p] =
                 [pc |-> IF k = NoKey THEN "reserve" ELSE "mark", key |-> k, order |-> NoOrder,
                  blind |-> failing \/ \E q \in Procs : Entering(q)]]
    /\ UNCHANGED <<orderVars, marker, free, lost, loose, blind, ends>>

\* The guard against a second pending order.  An error of the query passes for none.
CreateOrder(p, k, failing) ==
    /\ At(p, "idle")
    /\ failing \/ \A o \in Orders : ~ Active(o)
    /\ req' = [req EXCEPT ![p] =
                 [pc |-> IF k = NoKey THEN "reserve" ELSE "mark", key |-> k, order |-> NoOrder,
                  blind |-> failing \/ \E q \in Procs : Entering(q)]]
    /\ UNCHANGED <<orderVars, marker, free, lost, loose, blind, ends>>

\* Mutant: SET instead of SETNX.
SetMarkerAnyway(p) ==
    /\ At(p, "mark")
    /\ marker' = [marker EXCEPT ![req[p].key] = Processing]
    /\ Goto(p, "reserve")
    /\ UNCHANGED <<orderVars, free, lost, loose, blind, ends>>

\* SETNX for five minutes.
SetMarker(p) ==
    /\ At(p, "mark")
    /\ marker[req[p].key] = NoOrder
    /\ marker' = [marker EXCEPT ![req[p].key] = Processing]
    /\ Goto(p, "reserve")
    /\ UNCHANGED <<orderVars, free, lost, loose, blind, ends>>

\* The key is known: the order it names is answered, or 429.
Duplicate(p) ==
    /\ At(p, "mark")
    /\ marker[req[p].key] # NoOrder
    /\ Return(p)
    /\ UNCHANGED <<orderVars, marker, free, lost, loose, blind, ends>>

\* Redis answers neither GET nor SETNX, and the request goes on without a marker.
MarkerFails(p) ==
    /\ At(p, "mark")
    /\ loose' = loose \cup {req[p].key}
    /\ Goto(p, "reserve")
    /\ UNCHANGED <<orderVars, marker, free, lost, blind, ends>>

Reserve(p) ==
    /\ At(p, "reserve")
    /\ free > 0
    /\ free' = free - 1
    /\ Goto(p, "insert")
    /\ UNCHANGED <<orderVars, marker, lost, loose, blind, ends>>

\* Sold out, inactive, before or after the sale, unpublished, or no answer.
Refuse(p) ==
    /\ At(p, "reserve")
    /\ Goto(p, "unmark")
    /\ UNCHANGED <<orderVars, marker, free, lost, loose, blind, ends>>

InsertOrder(p) ==
    /\ At(p, "insert")
    /\ \E o \in Orders :
        /\ order[o] = "none"
        /\ order' = [order EXCEPT ![o] = "PENDING"]
        /\ keyOf' = [keyOf EXCEPT ![o] = req[p].key]
        /\ blind' = IF req[p].blind THEN blind \cup {o} ELSE blind
        /\ req' = [req EXCEPT ![p].pc = "item", ![p].order = o, ![p].blind = FALSE]
    /\ UNCHANGED <<due, item, queued, marker, free, lost, loose, ends>>

\* Mutant: an error of the INSERT that only drops the marker.
InsertOrderFailsHolding(p) ==
    /\ At(p, "insert")
    /\ Goto(p, "unmark")
    /\ UNCHANGED <<orderVars, marker, free, lost, loose, blind, ends>>

\* Nothing was inserted, or a row whose id the request will never know.
InsertOrderFails(p) ==
    /\ At(p, "insert")
    /\ \/ UNCHANGED <<order, keyOf, blind>>
       \/ \E o \in Orders :
            /\ order[o] = "none"
            /\ order' = [order EXCEPT ![o] = "PENDING"]
            /\ keyOf' = [keyOf EXCEPT ![o] = req[p].key]
            /\ blind' = IF req[p].blind THEN blind \cup {o} ELSE blind
    /\ Goto(p, "release")
    /\ UNCHANGED <<due, item, queued, marker, free, lost, loose, ends>>

\* Nothing stops the buyer from cancelling the order before it has its item.
CreateOrderItem(p) ==
    /\ At(p, "item")
    /\ item' = item \cup {req[p].order}
    /\ stranded' = IF order[req[p].order] = "CANCELLED" THEN stranded \cup {req[p].order}
                   ELSE stranded
    /\ Goto(p, "remember")
    /\ UNCHANGED <<order, keyOf, due, queued, marker, free, lost, loose, blind, cancelling,
                   cancels, returned, extra>>

\* There is no item, or one whose unit the request takes back all the same, and whose
\* order it may fail to cancel.
CreateOrderItemFails(p) ==
    /\ At(p, "item")
    /\ \/ UNCHANGED <<item, returned, loose>>
       \/ /\ item' = item \cup {req[p].order}
          /\ returned' = returned \cup {req[p].order}
          /\ loose' = loose \cup ({req[p].key} \ {NoKey})
    /\ Goto(p, "cancel")
    /\ UNCHANGED <<order, keyOf, due, queued, marker, free, lost, blind, cancelling, cancels,
                   extra, stranded>>

\* The order without an item is set to CANCELLED; if that fails too it stays PENDING.
CancelUnfinished(p) ==
    /\ At(p, "cancel")
    /\ order' = [order EXCEPT ![req[p].order] = "CANCELLED"]
    /\ due' = due \ {req[p].order}
    /\ req' = [req EXCEPT ![p].pc = "release", ![p].order = NoOrder]
    /\ blind' = blind \ {req[p].order}
    /\ UNCHANGED <<keyOf, item, queued, marker, free, lost, loose, ends>>

CancelUnfinishedFails(p) ==
    /\ At(p, "cancel")
    /\ req' = [req EXCEPT ![p].pc = "release", ![p].order = NoOrder]
    /\ UNCHANGED <<orderVars, marker, free, lost, loose, blind, ends>>

ReleaseUnit(p) ==
    /\ At(p, "release")
    /\ free' = free + 1
    /\ Goto(p, "unmark")
    /\ UNCHANGED <<orderVars, marker, lost, loose, blind, ends>>

ReleaseUnitFails(p) ==
    /\ At(p, "release")
    /\ lost' = lost + 1
    /\ Goto(p, "unmark")
    /\ UNCHANGED <<orderVars, marker, free, loose, blind, ends>>

\* DEL, whoever has set the marker since.
Unmark(p) ==
    /\ At(p, "unmark")
    /\ marker' = IF req[p].key = NoKey THEN marker ELSE [marker EXCEPT ![req[p].key] = NoOrder]
    /\ Return(p)
    /\ UNCHANGED <<orderVars, free, lost, loose, blind, ends>>

UnmarkFails(p) ==
    /\ At(p, "unmark")
    /\ Return(p)
    /\ UNCHANGED <<orderVars, marker, free, lost, loose, blind, ends>>

\* SET to the order's id for 24 hours.
Remember(p) ==
    /\ At(p, "remember")
    /\ marker' = IF req[p].key = NoKey THEN marker
                 ELSE [marker EXCEPT ![req[p].key] = req[p].order]
    /\ req' = [req EXCEPT ![p].pc = "enqueue", ![p].key = NoKey]
    /\ UNCHANGED <<orderVars, free, lost, loose, blind, ends>>

RememberFails(p) ==
    /\ At(p, "remember")
    /\ req' = [req EXCEPT ![p].pc = "enqueue", ![p].key = NoKey]
    /\ UNCHANGED <<orderVars, marker, free, lost, loose, blind, ends>>

\* order.created is published and EnqueueOrder gives the order its turn or its place,
\* and a new expires_at with it.
Enqueue(p) ==
    /\ At(p, "enqueue")
    /\ queued' = queued \cup {req[p].order}
    /\ due' = due \ {req[p].order}
    /\ blind' = IF req[p].order \in due THEN blind \cup {req[p].order} ELSE blind
    /\ Return(p)
    /\ UNCHANGED <<order, keyOf, item, marker, free, lost, loose, ends>>

\* The process stops, or EnqueueOrder fails.  What the request holds is not given back.
Stop(p) ==
    /\ ~ At(p, "idle")
    /\ lost' = IF Holds(p) THEN lost + 1 ELSE lost
    /\ Return(p)
    /\ UNCHANGED <<orderVars, marker, free, loose, blind, ends>>

-----------------------------------------------------------------------------
\* The marker's five minutes, or the 24 hours of the order's id, are over.
MarkerExpires(k) ==
    /\ marker[k] # NoOrder
    /\ marker' = [marker EXCEPT ![k] = NoOrder]
    /\ loose' = loose \cup {k}
    /\ UNCHANGED <<orderVars, free, req, lost, blind, ends>>

\* expires_at passes.
OrderLapses(o) ==
    /\ Active(o)
    /\ due' = due \cup {o}
    /\ UNCHANGED <<order, keyOf, item, queued, marker, free, req, lost, loose, blind, ends>>

\* The order's turn comes, with a new expires_at, which may have been too late.
Promote(o) ==
    /\ order[o] = "PENDING" /\ o \in queued /\ o \in due
    /\ due' = due \ {o}
    /\ blind' = blind \cup {o}
    /\ UNCHANGED <<order, keyOf, item, queued, marker, free, req, lost, loose, ends>>

\* The buyer, the expiry worker or a failed payment cancels the order, whatever its
\* status is: the status is written, before the items are listed ...
CancelOrder(o) ==
    /\ order[o] # "none"
    /\ cancels < MaxCancels
    /\ cancels' = cancels + 1
    /\ order' = [order EXCEPT ![o] = "CANCELLED"]
    /\ due' = due \ {o}
    /\ cancelling' = [cancelling EXCEPT ![o] = @ + 1]
    /\ blind' = blind \ {o}
    /\ UNCHANGED <<keyOf, item, queued, marker, free, req, lost, loose, returned, extra,
                   stranded>>

\* Mutant: the items are listed, and not released.
GiveBackNothing(o) ==
    /\ cancelling[o] > 0
    /\ cancelling' = [cancelling EXCEPT ![o] = @ - 1]
    /\ UNCHANGED <<orderVars, marker, free, req, lost, loose, blind, cancels, returned, extra,
                   stranded>>

\* ... and what they name is given back, once more if it was before.
GiveBack(o) ==
    /\ cancelling[o] > 0
    /\ cancelling' = [cancelling EXCEPT ![o] = @ - 1]
    /\ IF o \in item
       THEN /\ free' = free + 1
            /\ returned' = returned \cup {o}
            /\ extra' = IF o \in returned THEN extra + 1 ELSE extra
            /\ stranded' = stranded \ {o}
       ELSE UNCHANGED <<free, returned, extra, stranded>>
    /\ UNCHANGED <<orderVars, marker, req, lost, loose, blind, cancels>>

\* UpdateOrderStatus answers with an error all the same, ListOrderItems fails, the
\* release fails, or the process stops.
GiveBackFails(o) ==
    /\ cancelling[o] > 0
    /\ cancelling' = [cancelling EXCEPT ![o] = @ - 1]
    /\ stranded' = stranded \cup ({o} \cap item)
    /\ UNCHANGED <<orderVars, marker, free, req, lost, loose, blind, cancels, returned, extra>>

\* HandlePaymentSuccess ignores an order that is PAID, and no other: a transaction that
\* was opened while the order was pending may be paid after it was cancelled.
Pay(o) ==
    /\ order[o] \in {"PENDING", "CANCELLED"}
    /\ order' = [order EXCEPT ![o] = "PAID"]
    /\ due' = due \ {o}
    /\ blind' = blind \ {o}
    /\ UNCHANGED <<keyOf, item, queued, marker, free, req, lost, loose, ends>>

-----------------------------------------------------------------------------
Request(p) ==
    \/ \E k \in IdemKeys \cup {NoKey}, failing \in BOOLEAN : CreateOrder(p, k, failing)
    \/ SetMarker(p) \/ Duplicate(p) \/ MarkerFails(p)
    \/ Reserve(p) \/ Refuse(p)
    \/ InsertOrder(p) \/ InsertOrderFails(p)
    \/ CreateOrderItem(p) \/ CreateOrderItemFails(p)
    \/ CancelUnfinished(p) \/ CancelUnfinishedFails(p)
    \/ ReleaseUnit(p) \/ ReleaseUnitFails(p)
    \/ Unmark(p) \/ UnmarkFails(p)
    \/ Remember(p) \/ RememberFails(p)
    \/ Enqueue(p)
    \/ Stop(p)

OrderEnds(o) ==
    \/ OrderLapses(o) \/ Promote(o)
    \/ CancelOrder(o) \/ GiveBack(o) \/ GiveBackFails(o)
    \/ Pay(o)

Next ==
    \/ \E p \in Procs : Request(p)
    \/ \E k \in IdemKeys : MarkerExpires(k)
    \/ \E o \in Orders : OrderEnds(o)

Spec == Init /\ [][Next]_vars

-----------------------------------------------------------------------------
\* Requests with the same Idempotency-Key make one order with an item between them,
\* however they overlap and whichever of their steps fail (CreateOrder: SETNX, DEL,
\* SET), as long as the marker was set and outlived the requests, and no item was made
\* that its request took for failed.
OneOrderPerKey ==
    \A k \in IdemKeys \ loose : \A o1, o2 \in item :
        keyOf[o1] = k /\ keyOf[o2] = k => o1 = o2

\* Every unit on sale is free, with a request, with an order that has its item and has
\* not given it back, or lost where CreateOrder cannot help it: its process stopped or
\* its release failed.  There are more units than were on sale by exactly those that
\* cancelled orders gave back again.
UnitsAccounted ==
    Stock + extra = free + lost + Cardinality({p \in Procs : Holds(p)})
                    + Cardinality(item \ returned)

\* Whoever cancels an order while it is made, and however often: it does not keep its
\* unit, unless a cancellation is still to give it back, or the last one broke off or
\* came before the item.
CancelledGivesBack ==
    \A o \in item \ returned : order[o] = "CANCELLED" => cancelling[o] > 0 \/ o \in stranded

\* The buyer has one active order, unless the second request passed the guard before
\* the first had inserted its row or without an answer of the database, or the queue
\* revived an order after its time was up.
OnePending ==
    \A o1, o2 \in Orders : Active(o1) /\ Active(o2) => o1 = o2 \/ o1 \in blind \/ o2 \in blind
=============================================================================
