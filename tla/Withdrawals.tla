---------------------------- MODULE Withdrawals ----------------------------
(***************************************************************************)
(* What an organizer may withdraw, in ticket-service: the rows of the      *)
(* table withdrawals, computed against the paid orders of the events the   *)
(* organizer still has in event-service.                                   *)
(*                                                                         *)
(* A request opens a transaction (READ COMMITTED) on a connection of the   *)
(* pool, then computes the revenue OUTSIDE that transaction: an HTTP call  *)
(* to event-service for the event ids and a query on a second connection   *)
(* of the same pool.  The withdrawals already made are summed inside the   *)
(* transaction, which locks nothing.  A reader of the balance runs the     *)
(* same two queries without a transaction.                                 *)
(*                                                                         *)
(* Money is counted in tenths of a cent, because the balance is a float    *)
(* and an amount is rounded to cents when it is stored.                    *)
(***************************************************************************)
EXTENDS Integers, FiniteSets, FiniteSetsExt

CONSTANTS
    Organizers,
    Events,
    OwnerOf,        \* events.organizer_id
    Orders,         \* orders, each of one event and of the same amount
    EventOf,        \* orders.event_id
    Requests,       \* calls of RequestWithdrawal, and the rows they insert
    Readers,        \* calls of GetOrganizerBalance
    By,             \* the organizer of each call
    Price,          \* orders.total_amount
    Amounts,        \* amounts asked for
    MinAmount,      \* the least amount a request may ask for
    MaxConns,       \* connections in the pool of ticket-service
    MaxCauses       \* bound: how many kinds of trouble an organizer meets

ASSUME WithdrawalsAssumption ==
    /\ OwnerOf \in [Events -> Organizers]
    /\ EventOf \in [Orders -> Events]
    /\ Requests \cap Readers = {}
    /\ By \in [Requests \cup Readers -> Organizers]
    /\ IsFiniteSet(Orders) /\ IsFiniteSet(Requests) /\ IsFiniteSet(Readers)
    /\ Price \in Nat /\ Price % 20 = 0
    /\ Amounts \subseteq Nat
    /\ MinAmount \in Nat
    /\ MaxConns \in Nat \ {0}
    /\ MaxCauses \in Nat

Calls == Requests \cup Readers

\* What may take money away from an organizer after it was counted.
Causes == {"overlap", "revival", "refund", "deletion"}

VARIABLES
    listed,         \* events that exist in event-service
    orderStatus,    \* orders.status
    row,            \* withdrawals: status and amount, "none" before the commit
    pc,             \* where each call has got to
    wants,          \* req.Amount of each request
    events,         \* the event ids a call has been given
    revenue,        \* the gross revenue a call has computed
    shown,          \* the balance a reader answered with
    hurt            \* which causes have touched an organizer, since ever

calls == <<pc, wants, events, revenue, shown>>
vars == <<listed, orderStatus, row, calls, hurt>>

PC == {"idle", "asked", "fetched", "counted", "allowed", "inserted", "done", "failed"}
Statuses == {"PENDING", "APPROVED", "PAID", "REJECTED"}

TypeOK ==
    /\ listed \subseteq Events
    /\ orderStatus \in [Orders -> {"PENDING", "PAID", "CANCELLED"}]
    /\ row \in [Requests -> [status : Statuses \cup {"none"}, amount : Nat]]
    /\ \A r \in Requests : row[r].amount % 10 = 0     \* DECIMAL(15, 2): whole cents
    /\ pc \in [Calls -> PC]
    /\ wants \in [Requests -> Nat]
    /\ events \in [Calls -> SUBSET Events]
    /\ revenue \in [Calls -> Nat]
    /\ shown \in [Readers -> Nat]
    /\ hurt \in [Organizers -> SUBSET Causes]

Init ==
    /\ listed = Events
    /\ orderStatus = [o \in Orders |-> "PENDING"]
    /\ row = [r \in Requests |-> [status |-> "none", amount |-> 0]]
    /\ pc = [p \in Calls |-> "idle"]
    /\ wants = [r \in Requests |-> 0]
    /\ events = [p \in Calls |-> {}]
    /\ revenue = [p \in Calls |-> 0]
    /\ shown = [p \in Readers |-> 0]
    /\ hurt = [g \in Organizers |-> {}]

-----------------------------------------------------------------------------
(* The queries.                                                            *)

\* FetchOrganizerEventIDs: what event-service lists for an organizer.
EventIDs(g) == {e \in listed : OwnerOf[e] = g}

\* GetOrganizerStats: the paid orders of the events given.
OrganizerStats(es) ==
    MapThenSumSet(LAMBDA o : Price, {o \in Orders : EventOf[o] \in es /\ orderStatus[o] = "PAID"})

\* Mutant: a withdrawal counts only once an admin has looked at it.
DeductedOnceApproved(g) ==
    MapThenSumSet(LAMBDA r : row[r].amount,
                  {r \in Requests : By[r] = g /\ row[r].status \in {"APPROVED", "PAID"}})

\* GetWithdrawnSummaryByOrganizer, total_deducted.
Deducted(g) ==
    MapThenSumSet(LAMBDA r : row[r].amount,
                  {r \in Requests : By[r] = g /\ row[r].status \in {"PENDING", "APPROVED", "PAID"}})

\* Mutant: an amount is stored as it was asked for.
StoredAsAsked(amount) == amount

\* float64ToNumeric: formatting with two decimals rounds to the nearest cent.
Stored(amount) == ((amount + 5) \div 10) * 10

\* The fee the platform keeps is five percent.
NetOf(gross) == gross - (gross \div 20)

AtLeastZero(n) == IF n < 0 THEN 0 ELSE n

-----------------------------------------------------------------------------
(* The connections of the pool.  A request keeps the one of its            *)
(* transaction; every other query takes one for its own duration.          *)

\* Mutant: a reader of the balance opens a transaction as well.
InTransactionAll(p) == pc[p] \in {"asked", "fetched", "counted", "allowed", "inserted"}

InTransaction(p) == p \in Requests /\ pc[p] \in {"asked", "fetched", "counted", "allowed", "inserted"}

ConnectionFree == Cardinality({p \in Calls : InTransaction(p)}) < MaxConns

-----------------------------------------------------------------------------
(* Steps of a call.                                                        *)

Goto(p, to) == pc' = [pc EXCEPT ![p] = to]

\* The call returns, and what it had read goes with it.
Return(p, to) ==
    /\ Goto(p, to)
    /\ wants' = IF p \in Requests THEN [wants EXCEPT ![p] = 0] ELSE wants
    /\ events' = [events EXCEPT ![p] = {}]
    /\ revenue' = [revenue EXCEPT ![p] = 0]

\* Something that may take money away from g has happened, or not.
Hurt(g, cause, happened) ==
    hurt' = [hurt EXCEPT ![g] = @ \cup IF happened THEN {cause} ELSE {}]

\* The same from outside, so many times at most.
HurtWithin(g, cause, happened) ==
    /\ happened => Cardinality(hurt[g]) < MaxCauses
    /\ Hurt(g, cause, happened)

\* The request is bound and validated, and its transaction begins.
RequestWithdrawal(r, amount) ==
    /\ pc[r] = "idle"
    /\ amount >= MinAmount
    /\ ConnectionFree
    /\ Goto(r, "asked")
    /\ wants' = [wants EXCEPT ![r] = amount]
    /\ UNCHANGED <<listed, orderStatus, row, events, revenue, shown, hurt>>

GetOrganizerBalance(p) ==
    /\ pc[p] = "idle"
    /\ Goto(p, "asked")
    /\ UNCHANGED <<listed, orderStatus, row, wants, events, revenue, shown, hurt>>

\* The HTTP call, which needs no connection and gives up after five seconds.
FetchOrganizerEventIDs(p) ==
    /\ pc[p] = "asked"
    /\ Goto(p, "fetched")
    /\ events' = [events EXCEPT ![p] = EventIDs(By[p])]
    /\ UNCHANGED <<listed, orderStatus, row, wants, revenue, shown, hurt>>

\* The revenue is read on a connection of its own, which the caller waits for as long
\* as it takes, a request with the one of its transaction in hand.  No query without
\* events.
GetDashboardStats(p) ==
    /\ pc[p] = "fetched"
    /\ events[p] = {} \/ ConnectionFree
    /\ Goto(p, "counted")
    /\ revenue' = [revenue EXCEPT ![p] = IF events[p] = {} THEN 0 ELSE OrganizerStats(events[p])]
    /\ UNCHANGED <<listed, orderStatus, row, wants, events, shown, hurt>>

\* Mutant: the fee is not taken off.
AvailableGross(p) == AtLeastZero(revenue[p] - Deducted(By[p]))

\* What a call finds available when it sums the withdrawals.
Available(p) == AtLeastZero(AtLeastZero(NetOf(revenue[p])) - Deducted(By[p]))

\* The sum inside the transaction, and the decision.  A refusal rolls back.
Decide(r) ==
    /\ pc[r] = "counted"
    /\ IF wants[r] > Available(r)
          THEN Return(r, "done")
          ELSE Goto(r, "allowed") /\ UNCHANGED <<wants, events, revenue>>
    /\ UNCHANGED <<listed, orderStatus, row, shown, hurt>>

ShowBalance(p) ==
    /\ pc[p] = "counted"
    /\ ConnectionFree
    /\ Return(p, "done")
    /\ shown' = [shown EXCEPT ![p] = Available(p)]
    /\ UNCHANGED <<listed, orderStatus, row, hurt>>

\* The row is inserted, and visible to nobody else yet.
CreateWithdrawal(r) ==
    /\ pc[r] = "allowed"
    /\ Goto(r, "inserted")
    /\ UNCHANGED <<listed, orderStatus, row, wants, events, revenue, shown, hurt>>

\* Requests of the same organizer that have decided and not committed.
Overlapping(r) ==
    {q \in Requests \ {r} : By[q] = By[r] /\ pc[q] \in {"allowed", "inserted"}}

\* The row becomes visible, in status PENDING; the answer to the commit may get
\* lost on the way (then the client is told the request failed).
Commit(r) ==
    /\ pc[r] = "inserted"
    /\ row' = [row EXCEPT ![r] = [status |-> "PENDING", amount |-> Stored(wants[r])]]
    /\ \E to \in {"done", "failed"} : Return(r, to)
    /\ Hurt(By[r], "overlap", Overlapping(r) # {})
    /\ UNCHANGED <<listed, orderStatus, shown>>

\* An error of event-service or of the database, or the client has gone: the
\* context is cancelled and the deferred rollback ends the transaction.
Fail(p) ==
    /\ pc[p] \in {"asked", "fetched", "counted", "allowed", "inserted"}
    /\ Return(p, "failed")
    /\ UNCHANGED <<listed, orderStatus, row, shown, hurt>>

-----------------------------------------------------------------------------
(* What else changes the balance.                                          *)

\* AdminUpdateWithdrawalStatus: any status may follow any other.
UpdateWithdrawalStatus(r, s) ==
    /\ row[r].status # "none"
    /\ row' = [row EXCEPT ![r].status = s]
    /\ HurtWithin(By[r], "revival", row[r].status = "REJECTED" /\ s # "REJECTED")
    /\ UNCHANGED <<listed, orderStatus, calls>>

HandlePaymentSuccess(o) ==
    /\ orderStatus[o] # "PAID"
    /\ orderStatus' = [orderStatus EXCEPT ![o] = "PAID"]
    /\ UNCHANGED <<listed, row, calls, hurt>>

\* An order is cancelled without a look at its status, a paid one included.
CancelOrder(o) ==
    /\ orderStatus' = [orderStatus EXCEPT ![o] = "CANCELLED"]
    /\ HurtWithin(OwnerOf[EventOf[o]], "refund", orderStatus[o] = "PAID")
    /\ UNCHANGED <<listed, row, calls>>

\* DeleteEvent of event-service leaves the orders of the event alone, in the
\* database of ticket-service; they are no longer counted.
DeleteEvent(e) ==
    /\ e \in listed
    /\ listed' = listed \ {e}
    /\ HurtWithin(OwnerOf[e], "deletion", TRUE)
    /\ UNCHANGED <<orderStatus, row, calls>>

-----------------------------------------------------------------------------
Request(r) ==
    \/ FetchOrganizerEventIDs(r)
    \/ GetDashboardStats(r)
    \/ Decide(r)
    \/ CreateWithdrawal(r)
    \/ Commit(r)

Read(p) ==
    \/ FetchOrganizerEventIDs(p)
    \/ GetDashboardStats(p)
    \/ ShowBalance(p)

Next ==
    \/ \E r \in Requests : (\E a \in Amounts : RequestWithdrawal(r, a)) \/ Request(r)
    \/ \E p \in Readers : GetOrganizerBalance(p) \/ Read(p)
    \/ \E p \in Calls : Fail(p)
    \/ \E r \in Requests, s \in Statuses : UpdateWithdrawalStatus(r, s)
    \/ \E o \in Orders : HandlePaymentSuccess(o) \/ CancelOrder(o)
    \/ \E e \in Events : DeleteEvent(e)

\* A goroutine that can take its next step takes it: net/http gives each call
\* one, and every command it sends is answered or times out.  Nobody has to ask,
\* to pay, to decide or to fail.
Fairness ==
    /\ \A r \in Requests : WF_vars(Request(r))
    /\ \A p \in Readers : WF_vars(Read(p))

Spec == Init /\ [][Next]_vars /\ Fairness

-----------------------------------------------------------------------------
(* Properties.                                                             *)

\* What an organizer has earned: the paid orders of the events that exist.
Earned(g) ==
    NetOf(Price * Cardinality({o \in Orders : /\ orderStatus[o] = "PAID"
                                              /\ EventOf[o] \in listed
                                              /\ OwnerOf[EventOf[o]] = g}))

\* What the withdrawals of an organizer that were not rejected amount to.
Promised(g) ==
    MapThenSumSet(LAMBDA r : row[r].amount,
                  {r \in Requests : By[r] = g /\ row[r].status \notin {"none", "REJECTED"}})

\* An organizer never has more withdrawals pending, approved or paid than the
\* events have earned, but for the half cent RequestWithdrawal may add when it
\* rounds, unless one of four things happened: two requests that overlapped, a
\* rejected withdrawal an admin brought back, a paid order cancelled, or an event
\* deleted.
NoOverdraft ==
    \A g \in Organizers : hurt[g] = {} => Promised(g) <= Earned(g) + 5

\* GetOrganizerBalance sums revenue before withdrawals, so the balance it shows is
\* never more than what could be withdrawn at the moment it was computed, whatever
\* is paid, requested or decided in between, if no paid order is cancelled and no
\* event deleted.
ShownIsAvailable ==
    [][\A p \in Readers :
         LET g == By[p]
         IN  (pc[p] = "counted" /\ pc'[p] = "done" /\ hurt[g] \cap {"refund", "deletion"} = {})
                => shown'[p] <= AtLeastZero(Earned(g) - Promised(g))]_vars

UnderWay(p) == pc[p] \notin {"idle", "done", "failed"}

\* Every connection is held by a transaction whose request waits for another one.
Starved == Cardinality({r \in Requests : pc[r] = "fetched" /\ events[r] # {}}) = MaxConns

\* A call that is under way ends, unless requests starve each other: RequestWithdrawal
\* keeps the connection of its transaction while GetDashboardStats waits for a second
\* one of the same pool, and as many requests as there are connections wait forever.
\* Nothing else keeps a request or a reader of the balance waiting.
CallsEnd ==
    \A p \in Calls : UnderWay(p) ~> ~ UnderWay(p) \/ Starved

=============================================================================
