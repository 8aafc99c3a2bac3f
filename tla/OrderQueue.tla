----------------------------- MODULE OrderQueue -----------------------------
(***************************************************************************)
(* Orders of ONE event in ticket-service and the waiting room they pass:   *)
(* the rows of the table orders, and the Redis keys queue:event:<id>:      *)
(* active, :expires_at and :waiting.  Keys of different events are         *)
(* disjoint.                                                               *)
(*                                                                         *)
(* A process of Threads is a goroutine: an HTTP handler, a Kafka consumer  *)
(* or the expiry worker.  Handlers call each other (GetOrderQueueStatus    *)
(* calls CheckAndAdvanceExpiredActive, which calls CancelOrder, which      *)
(* calls AdvanceQueue), so a thread carries the list of what it has still  *)
(* to do: it executes the first entry and puts the calls that entry makes  *)
(* in front of the rest.  An entry is one command to Redis or PostgreSQL;  *)
(* nothing holds a lock or a transaction across two of them.               *)
(***************************************************************************)
EXTENDS Integers, Sequences, FiniteSets, SequencesExt

CONSTANTS
    Orders,         \* orders that may be placed, one unit each
    Threads,        \* goroutines
    Worker,         \* the one that runs the expiry worker
    Payers,         \* orders whose buyers ask for a payment token
    NoOrder,        \* no Redis key active
    Stock,          \* units for sale
    OneAtATime,     \* a handler starts only when no other runs
    LongLine,       \* the line may be longer than the two hours waiting in it lasts
    Failures        \* the statements of a cancellation, of a promotion and of a payment
                    \* may fail, and Midtrans may leave a question unanswered

ASSUME QueueAssumption ==
    /\ Worker \in Threads
    /\ NoOrder \notin Orders
    /\ IsFiniteSet(Orders)
    /\ Payers \subseteq Orders
    /\ Stock \in Nat
    /\ OneAtATime \in BOOLEAN
    /\ LongLine \in BOOLEAN
    /\ Failures \in BOOLEAN

VARIABLES
    status,     \* orders.status
    deadline,   \* orders.expires_at: which lease it is, or "past"
    active,     \* Redis :active
    lease,      \* Redis :expires_at, in the future or past
    waiting,    \* Redis :waiting
    free,       \* units in stock
    tickets,    \* tickets issued per order
    money,      \* Midtrans: where the transactions of each order have got to
    todo,       \* what each thread has still to do
    stranded,   \* history: orders whose cancellation broke off once they were CANCELLED
    unasked     \* history: orders paid on a message's word, Midtrans not answering

queueVars == <<active, lease, waiting>>
orderVars == <<status, deadline, free, tickets, stranded, unasked>>
vars == <<queueVars, orderVars, money, todo>>

Ops == {"enqueue", "enqueueBehind", "push", "dueLine", "claim", "lease", "dueTurn",
        "advance", "delete", "promote", "check", "checkWaiting", "checkLease",
        "cancel", "cancelInQueue", "release", "unqueue", "remove", "markPaid", "issue",
        "pollActive", "pollLease", "pollWaiting", "tokenTurn"}

\* Call `op` for order o; `seen` is the :active key the caller has read.
Call(op, o) == [op |-> op, order |-> o, seen |-> NoOrder]
CallSeen(op, o, a) == [op |-> op, order |-> o, seen |-> a]
Calls == [op : Ops, order : Orders \cup {NoOrder}, seen : Orders \cup {NoOrder}]

\* Bounds of this model: 2 tickets mean "more than one", Stock + 1 free units
\* "more than there ever were".
MaxTickets == 2
MaxFree == Stock + 1

TypeOK ==
    /\ status \in [Orders -> {"none", "PENDING", "PAID", "CANCELLED"}]
    /\ deadline \in [Orders -> {"unpaid", "turn", "line", "past"}]
    /\ active \in Orders \cup {NoOrder}
    /\ lease \in {"none", "live", "past"}
    /\ waiting \in Seq(Orders)
    /\ free \in 0..MaxFree
    /\ tickets \in [Orders -> 0..MaxTickets]
    /\ money \in [Orders -> SUBSET {"open", "settled", "expired"}]
    /\ todo \in [Threads -> Seq(Calls)]
    /\ stranded \subseteq Orders
    /\ unasked \subseteq Orders

Init ==
    /\ status = [o \in Orders |-> "none"]
    /\ deadline = [o \in Orders |-> "unpaid"]
    /\ active = NoOrder
    /\ lease = "none"
    /\ waiting = <<>>
    /\ free = Stock
    /\ tickets = [o \in Orders |-> 0]
    /\ money = [o \in Orders |-> {}]
    /\ todo = [p \in Threads |-> <<>>]
    /\ stranded = {}
    /\ unasked = {}

-----------------------------------------------------------------------------
Idle(p) == todo[p] = <<>>
Quiet == \A p \in Threads : Idle(p)
MayStart(p) == Idle(p) /\ (OneAtATime => Quiet)

At(p, op) == ~Idle(p) /\ Head(todo[p]).op = op
Mine(p) == Head(todo[p]).order
Seen(p) == Head(todo[p]).seen

\* The entry is done; the calls it makes come before what the thread had to do.
Then(p, calls) ==
    todo' = [todo EXCEPT ![p] = calls \o (IF Idle(p) THEN <<>> ELSE Tail(todo[p]))]

-----------------------------------------------------------------------------
(***************************************************************************)
(* EnqueueOrder                                                            *)
(***************************************************************************)
\* GET active: an empty slot is claimed, else the lease of its owner is read.
Enqueue(p) ==
    /\ At(p, "enqueue")
    /\ Then(p, IF active = NoOrder
               THEN <<Call("claim", Mine(p)), Call("lease", Mine(p))>>
               ELSE <<CallSeen("enqueueBehind", Mine(p), active)>>)
    /\ UNCHANGED <<queueVars, orderVars, money>>

\* GET expires_at: an owner that timed out is cancelled and the queue advanced
\* before the order is enqueued again.
EnqueueBehind(p) ==
    /\ At(p, "enqueueBehind")
    /\ Then(p, IF lease = "past"
               THEN <<Call("cancel", Seen(p)), Call("advance", NoOrder), Call("enqueue", Mine(p))>>
               ELSE <<Call("push", Mine(p))>>)
    /\ UNCHANGED <<queueVars, orderVars, money>>

\* RPUSH ...
Push(p) ==
    /\ At(p, "push")
    /\ waiting' = Append(waiting, Mine(p))
    /\ Then(p, <<Call("dueLine", Mine(p))>>)
    /\ UNCHANGED <<active, lease, orderVars, money>>

\* ... then UPDATE orders: two hours while waiting in line.
DueLine(p) ==
    /\ At(p, "dueLine")
    /\ deadline' = [deadline EXCEPT ![Mine(p)] = "line"]
    /\ Then(p, <<>>)
    /\ UNCHANGED <<queueVars, status, free, tickets, money, stranded, unasked>>

\* SET active ...
Claim(p) ==
    /\ At(p, "claim")
    /\ active' = Mine(p)
    /\ Then(p, <<>>)
    /\ UNCHANGED <<lease, waiting, orderVars, money>>

\* ... then SET expires_at, three minutes from now ...
Lease(p) ==
    /\ At(p, "lease")
    /\ lease' = "live"
    /\ Then(p, <<Call("dueTurn", Mine(p))>>)
    /\ UNCHANGED <<active, waiting, orderVars, money>>

\* ... then UPDATE orders with the same three minutes.
DueTurn(p) ==
    /\ At(p, "dueTurn")
    /\ deadline' = [deadline EXCEPT ![Mine(p)] = "turn"]
    /\ Then(p, <<>>)
    /\ UNCHANGED <<queueVars, status, free, tickets, money, stranded, unasked>>

-----------------------------------------------------------------------------
(***************************************************************************)
(* AdvanceQueue                                                            *)
(***************************************************************************)
\* LPOP: the next order in line, or the end of the line.
Advance(p) ==
    /\ At(p, "advance")
    /\ IF waiting = <<>>
       THEN Then(p, <<Call("delete", NoOrder)>>) /\ UNCHANGED waiting
       ELSE Then(p, <<Call("promote", Head(waiting))>>) /\ waiting' = Tail(waiting)
    /\ UNCHANGED <<active, lease, orderVars, money>>

\* Mutant: only the key expires_at is deleted.
DeleteLeaseOnly(p) ==
    /\ At(p, "delete")
    /\ lease' = "none"
    /\ Then(p, <<>>)
    /\ UNCHANGED <<active, waiting, orderVars, money>>

\* DEL active, expires_at, whoever is there by now.
Delete(p) ==
    /\ At(p, "delete")
    /\ active' = NoOrder
    /\ lease' = "none"
    /\ Then(p, <<>>)
    /\ UNCHANGED <<waiting, orderVars, money>>

\* GetOrder: a pending order is promoted; one that is not, or cannot be read, is
\* skipped.
Promote(p) ==
    /\ At(p, "promote")
    /\ \/ /\ status[Mine(p)] = "PENDING"
          /\ Then(p, <<Call("claim", Mine(p)), Call("lease", Mine(p))>>)
       \/ /\ status[Mine(p)] # "PENDING" \/ Failures
          /\ Then(p, <<Call("advance", NoOrder)>>)
    /\ UNCHANGED <<queueVars, orderVars, money>>

-----------------------------------------------------------------------------
(***************************************************************************)
(* CheckAndAdvanceExpiredActive                                            *)
(***************************************************************************)
Check(p) ==
    /\ At(p, "check")
    /\ Then(p, <<IF active = NoOrder THEN Call("checkWaiting", NoOrder)
                                     ELSE Call("checkLease", active)>>)
    /\ UNCHANGED <<queueVars, orderVars, money>>

\* LLEN: an empty slot with a line behind it is filled.
CheckWaiting(p) ==
    /\ At(p, "checkWaiting")
    /\ Then(p, IF waiting = <<>> THEN <<>> ELSE <<Call("advance", NoOrder)>>)
    /\ UNCHANGED <<queueVars, orderVars, money>>

\* GET expires_at: the owner read before is cancelled, and the queue advanced
\* once more although CancelOrder advances it as well.
CheckLease(p) ==
    /\ At(p, "checkLease")
    /\ Then(p, IF lease = "past"
               THEN <<Call("cancel", Mine(p)), Call("advance", NoOrder)>>
               ELSE <<>>)
    /\ UNCHANGED <<queueVars, orderVars, money>>

-----------------------------------------------------------------------------
(***************************************************************************)
(* CancelOrder                                                             *)
(***************************************************************************)
Live == {o \in Orders : status[o] \in {"PENDING", "PAID"}}

\* What the thread does after a cancellation that got through: CancelOrderInQueue
\* repeats what CancelOrder did to the queue.
AfterCancel(p) ==
    IF At(p, "cancelInQueue")
    THEN <<Call("release", Mine(p)), Call("unqueue", Mine(p)), Call("unqueue", Mine(p))>>
    ELSE <<Call("release", Mine(p)), Call("unqueue", Mine(p))>>

\* Mutant: a status that no reader of the table knows.
CancelAsExpired(p) ==
    /\ At(p, "cancel") \/ At(p, "cancelInQueue")
    /\ status' = [status EXCEPT ![Mine(p)] = "EXPIRED"]
    /\ stranded' = stranded \ {Mine(p)}
    /\ Then(p, AfterCancel(p))
    /\ UNCHANGED <<queueVars, deadline, free, tickets, money, unasked>>

\* UpdateOrderStatus CANCELLED, whatever the status is, and ListOrderItems.  (An
\* order's items never change once it can be cancelled.)
Cancel(p) ==
    /\ At(p, "cancel") \/ At(p, "cancelInQueue")
    /\ status' = [status EXCEPT ![Mine(p)] = "CANCELLED"]
    /\ stranded' = stranded \ {Mine(p)}
    /\ Then(p, AfterCancel(p))
    /\ UNCHANGED <<queueVars, deadline, free, tickets, money, unasked>>

\* GetOrder or UpdateOrderStatus fails and nothing has happened; or ListOrderItems
\* fails, or the UPDATE was made but its answer lost, and the order is CANCELLED
\* with its units taken.  All callers but CancelOrderInQueue go on regardless.
CancelFails(p) ==
    /\ Failures
    /\ At(p, "cancel") \/ At(p, "cancelInQueue")
    /\ \/ UNCHANGED <<status, stranded>>
       \/ /\ status' = [status EXCEPT ![Mine(p)] = "CANCELLED"]
          /\ stranded' = stranded \cup ({Mine(p)} \cap Live)
    /\ Then(p, <<>>)
    /\ UNCHANGED <<queueVars, deadline, free, tickets, money, unasked>>

\* Mutant: the units stay taken.
ReleaseNothing(p) ==
    /\ At(p, "release")
    /\ Then(p, <<>>)
    /\ UNCHANGED <<queueVars, orderVars, money>>

\* ReleaseTicketStock for every item; order.cancelled is published.
Release(p) ==
    /\ At(p, "release")
    /\ free' = IF free < MaxFree THEN free + 1 ELSE free
    /\ Then(p, <<>>)
    /\ UNCHANGED <<queueVars, status, deadline, tickets, money, stranded, unasked>>

\* GET active: the owner's turn is passed on, anybody else leaves the line.
Unqueue(p) ==
    /\ At(p, "unqueue")
    /\ Then(p, IF active = Mine(p) THEN <<Call("advance", NoOrder)>>
                                   ELSE <<Call("remove", Mine(p))>>)
    /\ UNCHANGED <<queueVars, orderVars, money>>

\* The line without any occurrence of an order.
Without(line, o) ==
    LET kept[n \in 0..Len(line)] ==
            IF n = 0 THEN <<>>
            ELSE IF line[n] = o THEN kept[n - 1] ELSE Append(kept[n - 1], line[n])
    IN  kept[Len(line)]

\* LREM 0: every occurrence.
LeaveLine(p) ==
    /\ At(p, "remove")
    /\ waiting' = Without(waiting, Mine(p))
    /\ Then(p, <<>>)
    /\ UNCHANGED <<active, lease, orderVars, money>>

-----------------------------------------------------------------------------
(***************************************************************************)
(* HandlePaymentSuccess, after GetOrder found the order not PAID           *)
(***************************************************************************)
\* UpdateOrderStatus PAID, whatever the status is by now, and ListOrderItems.
MarkPaid(p) ==
    /\ At(p, "markPaid")
    /\ status' = [status EXCEPT ![Mine(p)] = "PAID"]
    /\ stranded' = stranded \ {Mine(p)}
    /\ Then(p, <<Call("issue", Mine(p)), Call("advance", NoOrder)>>)
    /\ UNCHANGED <<queueVars, deadline, free, tickets, money, unasked>>

\* The UPDATE fails, made or not, or ListOrderItems does: no tickets, and the turn
\* is not passed on.
MarkPaidFails(p) ==
    /\ Failures
    /\ At(p, "markPaid")
    /\ \/ UNCHANGED <<status, stranded>>
       \/ /\ status' = [status EXCEPT ![Mine(p)] = "PAID"]
          /\ stranded' = stranded \ {Mine(p)}
    /\ Then(p, <<>>)
    /\ UNCHANGED <<queueVars, deadline, free, tickets, money, unasked>>

\* CreateTicket for every unit; ticket.created is published.
Issue(p) ==
    /\ At(p, "issue")
    /\ tickets' = [tickets EXCEPT ![Mine(p)] = IF @ < MaxTickets THEN @ + 1 ELSE @]
    /\ Then(p, <<>>)
    /\ UNCHANGED <<queueVars, status, deadline, free, money, stranded, unasked>>

-----------------------------------------------------------------------------
(***************************************************************************)
(* GetOrderQueueStatus, after CheckAndAdvanceExpiredActive returned        *)
(***************************************************************************)
\* GET active: is it this order's turn?
PollActive(p) ==
    /\ At(p, "pollActive")
    /\ Then(p, <<IF active = Mine(p) THEN Call("pollLease", Mine(p))
                                     ELSE CallSeen("pollWaiting", Mine(p), active)>>)
    /\ UNCHANGED <<queueVars, orderVars, money>>

\* GET expires_at: answered ACTIVE, or cancelled when no time remains.
PollLease(p) ==
    /\ At(p, "pollLease")
    /\ Then(p, IF lease = "live" THEN <<>>
               ELSE <<Call("cancel", Mine(p)), Call("advance", NoOrder)>>)
    /\ UNCHANGED <<queueVars, orderVars, money>>

\* Mutant: the line is not searched for the order.
PollWaitingBlind(p) ==
    /\ At(p, "pollWaiting")
    /\ Then(p, IF Seen(p) = NoOrder
               THEN <<Call("claim", Mine(p)), Call("lease", Mine(p))>>
               ELSE <<Call("push", Mine(p))>>)
    /\ UNCHANGED <<queueVars, orderVars, money>>

\* LRANGE: answered WAITING; an order the queue has lost takes the slot that
\* was empty a moment ago, or joins the end of the line.
PollWaiting(p) ==
    /\ At(p, "pollWaiting")
    /\ Then(p, IF Mine(p) \in ToSet(waiting) THEN <<>>
               ELSE IF Seen(p) = NoOrder
                    THEN <<Call("claim", Mine(p)), Call("lease", Mine(p))>>
                    ELSE <<Call("push", Mine(p))>>)
    /\ UNCHANGED <<queueVars, orderVars, money>>

\* CreatePaymentToken, GET active: only the owner of the turn, or anybody while
\* the slot is empty, gets a Midtrans transaction, a new one
\* every time.
TokenTurn(p) ==
    /\ At(p, "tokenTurn")
    /\ money' = IF active \in {NoOrder, Mine(p)}
                THEN [money EXCEPT ![Mine(p)] = @ \cup {"open"}] ELSE money
    /\ Then(p, <<>>)
    /\ UNCHANGED <<queueVars, orderVars>>

-----------------------------------------------------------------------------
(***************************************************************************)
(* Where goroutines begin.  The first statement is the handler's read of   *)
(* the order.                                                              *)
(***************************************************************************)
\* CreateOrder, once its unit is reserved and the row is in the table.
CreateOrder(p, o) ==
    /\ MayStart(p)
    /\ status[o] = "none"
    /\ free > 0
    /\ status' = [status EXCEPT ![o] = "PENDING"]
    /\ free' = free - 1
    /\ Then(p, <<Call("enqueue", o)>>)
    /\ UNCHANGED <<queueVars, deadline, tickets, money, stranded, unasked>>

\* GetOrderQueueStatus: a finished order is answered at once, an expired one is
\* cancelled and the queue advanced whether it had the turn or not.
PollStatus(p, o) ==
    /\ MayStart(p)
    /\ status[o] = "PENDING"
    /\ Then(p, IF deadline[o] = "past"
               THEN <<Call("cancel", o), Call("advance", NoOrder)>>
               ELSE <<Call("check", NoOrder), Call("pollActive", o)>>)
    /\ UNCHANGED <<queueVars, orderVars, money>>

\* CreatePaymentToken refuses an order that is not pending.
CreatePaymentToken(p, o) ==
    /\ MayStart(p)
    /\ o \in Payers
    /\ status[o] = "PENDING"
    /\ Then(p, <<Call("check", NoOrder), Call("tokenTurn", o)>>)
    /\ UNCHANGED <<queueVars, orderVars, money>>

\* CancelOrderInQueue refuses an order that is PAID.
CancelOrderInQueue(p, o) ==
    /\ MayStart(p)
    /\ status[o] \in {"PENDING", "CANCELLED"}
    /\ Then(p, <<Call("cancelInQueue", o)>>)
    /\ UNCHANGED <<queueVars, orderVars, money>>

\* Mutant: a notification is believed without asking Midtrans.
NotifyUnchecked(p, o) ==
    /\ MayStart(p)
    /\ money[o] # {}
    /\ Then(p, IF status[o] = "PAID" THEN <<>> ELSE <<Call("markPaid", o)>>)
    /\ UNCHANGED <<queueVars, orderVars, money>>

\* HandleMidtransNotification, delivered any number of times.  The status Midtrans
\* answers for the transaction decides, or the one in the message, which Midtrans
\* gave it at some time, when Midtrans does not answer; a message without a status
\* but with status_code 200 or 201, as the frontend sends it, then counts as a
\* settlement.  HandlePaymentSuccess ignores an order that is PAID;
\* HandlePaymentFailed cancels in any status.
Notify(p, o) ==
    /\ MayStart(p)
    /\ \/ /\ "settled" \in money[o] /\ status[o] # "PAID"
          /\ Then(p, <<Call("markPaid", o)>>)
          /\ UNCHANGED unasked
       \/ /\ "expired" \in money[o]
          /\ Then(p, <<Call("cancel", o)>>)
          /\ UNCHANGED unasked
       \/ /\ Failures /\ money[o] # {} /\ status[o] # "PAID"
          /\ unasked' = unasked \cup {o}
          /\ Then(p, <<Call("markPaid", o)>>)
    /\ UNCHANGED <<queueVars, status, deadline, free, tickets, stranded, money>>

\* Mutant: the order whose turn it is is left to the queue's own lease.
ExpiredInLine == {o \in Orders : status[o] = "PENDING" /\ deadline[o] = "past" /\ o # active}

\* GetExpiredPendingOrders.
Expired == {o \in Orders : status[o] = "PENDING" /\ deadline[o] = "past"}

\* processExpiredOrders: the orders the query found are cancelled one by one.
Sweep ==
    /\ MayStart(Worker)
    /\ Expired # {}
    /\ \E found \in SetToSeqs(Expired) :
          Then(Worker, [i \in 1..Len(found) |-> Call("cancel", found[i])])
    /\ UNCHANGED <<queueVars, orderVars, money>>

-----------------------------------------------------------------------------
(***************************************************************************)
(* Time and Midtrans                                                       *)
(***************************************************************************)
\* A deadline passes: 15 minutes, 3 minutes or 2 hours in the database (as long
\* as forty turns), 3 minutes in Redis.  The clocks of the two stores are read independently, the
\* one in seconds, so either may be found past first.
OrderLapses(o) ==
    /\ status[o] = "PENDING"
    /\ deadline[o] # "past"
    /\ deadline[o] = "line" => LongLine
    /\ deadline' = [deadline EXCEPT ![o] = "past"]
    /\ UNCHANGED <<queueVars, status, free, tickets, money, todo, stranded, unasked>>

LeaseLapses ==
    /\ lease = "live"
    /\ lease' = "past"
    /\ UNCHANGED <<active, waiting, orderVars, money, todo>>

\* The buyer pays an open transaction, or lets it expire.
Midtrans(o) ==
    /\ "open" \in money[o]
    /\ \E result \in {"settled", "expired"} :
          money' = [money EXCEPT ![o] = (@ \ {"open"}) \cup {result}]
    /\ UNCHANGED <<queueVars, orderVars, todo>>

-----------------------------------------------------------------------------
Run(p) ==
    \/ Enqueue(p) \/ EnqueueBehind(p) \/ Push(p) \/ DueLine(p)
    \/ Claim(p) \/ Lease(p) \/ DueTurn(p)
    \/ Advance(p) \/ Delete(p) \/ Promote(p)
    \/ Check(p) \/ CheckWaiting(p) \/ CheckLease(p)
    \/ Cancel(p) \/ CancelFails(p) \/ Release(p) \/ Unqueue(p) \/ LeaveLine(p)
    \/ MarkPaid(p) \/ MarkPaidFails(p) \/ Issue(p)
    \/ PollActive(p) \/ PollLease(p) \/ PollWaiting(p) \/ TokenTurn(p)

Start(p, o) ==
    \/ CreateOrder(p, o) \/ PollStatus(p, o) \/ CreatePaymentToken(p, o)
    \/ CancelOrderInQueue(p, o) \/ Notify(p, o)

Next ==
    \/ \E p \in Threads : Run(p)
    \/ \E p \in Threads \ {Worker}, o \in Orders : Start(p, o)
    \/ Sweep
    \/ \E o \in Orders : OrderLapses(o) \/ Midtrans(o)
    \/ LeaseLapses

\* A goroutine that began is run to its end; the worker's ticker fires again and
\* again, and when it tries again and again to cancel, one of the attempts gets
\* through.  Nothing obliges a buyer to poll, pay or cancel.
Fairness ==
    /\ \A p \in Threads : WF_vars(Run(p))
    /\ WF_vars(Sweep)
    /\ SF_vars(Cancel(Worker))

Spec == Init /\ [][Next]_vars /\ Fairness

-----------------------------------------------------------------------------
(***************************************************************************)
(* Properties                                                              *)
(***************************************************************************)
\* When nothing runs, the stock and the orders that are alive add up to what
\* there was to sell: every cancellation gives its unit back once.
UnitsConserved == Quiet => free + Cardinality(Live) = Stock

\* No unit is lost: when nothing runs, whatever was cancelled by several threads at
\* once and whatever failed, every order that is not alive has given its unit back,
\* except one whose last cancellation broke off between the two.
NoUnitLost == Quiet => free + Cardinality(Live \cup stranded) >= Stock

\* The turn always has a lease, or the thread that took it is about to set one:
\* without it the lease would never be found past and the slot never be freed.
SlotHasLease == active # NoOrder => lease # "none" \/ \E p \in Threads : At(p, "lease")

\* A buyer gets tickets only for an order Midtrans settled, or one that was paid on
\* a message's word while Midtrans did not answer.
TicketsArePaidFor ==
    \A o \in Orders : tickets[o] > 0 => "settled" \in money[o] \/ o \in unasked

\* With one handler at a time, whenever nothing runs: a turn has a lease and an
\* empty slot has neither lease nor line, and nobody waits twice or while it is
\* his turn.
WaitingRoomInOrder ==
    Quiet =>
        /\ active = NoOrder <=> lease = "none"
        /\ active = NoOrder => waiting = <<>>
        /\ IsInjective(waiting)
        /\ active \notin ToSet(waiting)

\* README 3.2, expiry sweeper: an order whose time is up does not stay pending
\* unless it is given a new deadline.
ExpiredIsSwept ==
    \A o \in Orders :
        (status[o] = "PENDING" /\ deadline[o] = "past")
            ~> (status[o] # "PENDING" \/ deadline[o] # "past")

=============================================================================
