----------------------------- MODULE Settlement -----------------------------
(***************************************************************************)
(* What the messages about orders do: ticket-service reads payment.success *)
(* and payment.failed, payment-service reads order.created and             *)
(* order.cancelled, both through the consumer of shared/kafka.             *)
(*                                                                         *)
(* A topic is one partition: messages of an order carry its id as key.  A  *)
(* consumer group has one goroutine per topic; Midtrans's notification is  *)
(* handled by a goroutine of the HTTP server, which calls what the         *)
(* consumer calls, and so do a buyer and the expiry worker that cancel.  A *)
(* step is one statement, or the end of one message.                       *)
(***************************************************************************)
EXTENDS Naturals, Sequences, FiniteSets

CONSTANTS
    Orders,         \* ids of orders, each of one unit
    NoOrder,        \* no order
    MaxMessages,    \* bound: messages of a group's topics
    MaxSessions     \* bound: sessions of a consumer group that end

Groups == {"ticket-service", "payment-service"}
TopicsOf == [g \in Groups |-> IF g = "ticket-service"
                              THEN {"payment.success", "payment.failed"}
                              ELSE {"order.created", "order.cancelled"}]
Topics == UNION {TopicsOf[g] : g \in Groups}

ASSUME SettlementAssumption ==
    /\ NoOrder \notin Orders
    /\ MaxMessages \in Nat /\ MaxSessions \in Nat

VARIABLES
    status,         \* orders.status; "none": no row
    unsent,         \* orders whose order.created is still to be published
    tickets,        \* rows of tickets of each order, up to TicketCap
    payments,       \* rows of payments of each order, by status
    log,            \* the messages of each topic, with what became of them
    pos,            \* messages of the topic the claim has got through
    marked,         \* MarkMessage: all before are marked
    committed,      \* the group's offset at the broker; 0: none yet
    up,             \* groups that have a session
    sessions,       \* sessions that have ended
    run,            \* what each goroutine does
    broken,         \* orders paid for whose ticket could not be issued
    again,          \* orders two handlers met, or cancelled after they were paid
    astray          \* orders whose payment met its messages out of turn

orderVars == <<status, unsent, tickets>>
offsetVars == <<pos, marked, committed>>
ghostVars == <<broken, again, astray>>
vars == <<orderVars, payments, log, offsetVars, up, sessions, run, ghostVars>>

GroupOf == [t \in Topics |-> CHOOSE g \in Groups : t \in TopicsOf[g]]

\* The goroutines: one per topic, one in which Midtrans reports a payment, and one that
\* cancels an order: Midtrans's, a buyer's request or the expiry worker.
Procs == Topics \cup {"notification", "cancellation"}

PC == {"idle", "read", "pay", "items", "cancel", "release", "intend", "expire"}
FirstStep == [t \in Topics |-> CASE t = "payment.success" -> "read"
                                 [] t = "payment.failed" -> "cancel"
                                 [] t = "order.created" -> "intend"
                                 [] t = "order.cancelled" -> "expire"]

Idle == [pc |-> "idle", order |-> NoOrder]

\* More tickets than two are not told apart.
TicketCap == 2

Outcomes == {"waiting", "done", "failed", "skipped"}

TypeOK ==
    /\ status \in [Orders -> {"none", "PENDING", "PAID", "CANCELLED"}]
    /\ unsent \subseteq {o \in Orders : status[o] # "none"}
    /\ tickets \in [Orders -> 0 .. TicketCap]
    /\ payments \in [Orders -> [pending : Nat, expired : Nat]]
    /\ \A t \in Topics :
        /\ log[t] \in Seq([order : Orders, outcome : Outcomes])
        /\ pos[t] \in 0 .. Len(log[t])
        /\ marked[t] \in 0 .. pos[t]
        /\ committed[t] \in 0 .. Len(log[t])
    /\ up \subseteq Groups /\ sessions \in 0 .. MaxSessions
    /\ run \in [Procs -> [pc : PC, order : Orders \cup {NoOrder}]]
    /\ broken \subseteq Orders /\ again \subseteq Orders /\ astray \subseteq Orders

Init ==
    /\ status = [o \in Orders |-> "none"]
    /\ unsent = {}
    /\ tickets = [o \in Orders |-> 0]
    /\ payments = [o \in Orders |-> [pending |-> 0, expired |-> 0]]
    /\ log = [t \in Topics |-> <<>>]
    /\ pos = [t \in Topics |-> 0]
    /\ marked = [t \in Topics |-> 0]
    /\ committed = [t \in Topics |-> 0]
    /\ up = Groups /\ sessions = 0
    /\ run = [p \in Procs |-> Idle]
    /\ broken = {} /\ again = {} /\ astray = {}

-----------------------------------------------------------------------------
At(p, where) == run[p].pc = where
Goto(p, where) == run' = [run EXCEPT ![p].pc = where]
Order(p) == run[p].order

Messages(g) == UNION {{t} \X DOMAIN log[t] : t \in TopicsOf[g]}
Room(t) == Cardinality(Messages(GroupOf[t])) < MaxMessages
Publish(t, o) == log' = [log EXCEPT ![t] = Append(@, [order |-> o, outcome |-> "waiting"])]

\* What an outcome turns into when the message is handled once more.
Became(old, new) == IF old = "done" THEN "done" ELSE new

-----------------------------------------------------------------------------
(* shared/kafka: ConsumeClaim.                                             *)

Ready(t) ==
    /\ GroupOf[t] \in up
    /\ At(t, "idle")
    /\ pos[t] < Len(log[t])

\* Mutant: the message is marked before its handler is called.
TakeMarking(t) ==
    /\ Ready(t)
    /\ run' = [run EXCEPT ![t] = [pc |-> FirstStep[t], order |-> log[t][pos[t] + 1].order]]
    /\ marked' = [marked EXCEPT ![t] = pos[t] + 1]
    /\ UNCHANGED <<orderVars, payments, log, pos, committed, up, sessions, ghostVars>>

Take(t) ==
    /\ Ready(t)
    /\ run' = [run EXCEPT ![t] = [pc |-> FirstStep[t], order |-> log[t][pos[t] + 1].order]]
    /\ UNCHANGED <<orderVars, payments, log, offsetVars, up, sessions, ghostVars>>

\* The handler has returned.  Without an error the message is marked; with one the
\* loop goes on, and marking a later message marks this one too.
Handled(t, result, l) ==
    /\ log' = [l EXCEPT ![t][pos[t] + 1].outcome = Became(@, result)]
    /\ pos' = [pos EXCEPT ![t] = @ + 1]
    /\ marked' = IF result = "done" THEN [marked EXCEPT ![t] = pos[t] + 1] ELSE marked
    /\ UNCHANGED committed

\* The end of a handler; the notification's result only goes into an HTTP answer.
EndWith(p, result, l) ==
    /\ run' = [run EXCEPT ![p] = Idle]
    /\ IF p \in Topics THEN Handled(p, result, l)
       ELSE log' = l /\ UNCHANGED offsetVars

End(p, result) == EndWith(p, result, log)

\* The offsets are committed every second, and when a group is closed in good order.
Commit(t) ==
    /\ GroupOf[t] \in up /\ committed[t] # marked[t]
    /\ committed' = [committed EXCEPT ![t] = marked[t]]
    /\ UNCHANGED <<orderVars, payments, log, pos, marked, up, sessions, run, ghostVars>>

\* The process stops, a rebalance takes the claims away, or Consume returns an error
\* and main only logs it: the handlers end where they are.
SessionEnds(g) ==
    /\ g \in up /\ sessions < MaxSessions
    /\ sessions' = sessions + 1
    /\ up' = up \ {g}
    /\ run' = [p \in Procs |-> IF p \in TopicsOf[g] THEN Idle ELSE run[p]]
    /\ broken' = broken \cup {Order(t) : t \in {t \in TopicsOf[g] : At(t, "items")}}
    /\ UNCHANGED <<orderVars, payments, log, offsetVars, again, astray>>

\* Where a session starts: at the committed offset, and without one, OffsetNewest,
\* after all there is.
Start(t) == IF committed[t] = 0 THEN Len(log[t]) ELSE committed[t]

Skip(t) ==
    [i \in DOMAIN log[t] |->
        IF i <= Start(t) /\ log[t][i].outcome = "waiting"
        THEN [log[t][i] EXCEPT !.outcome = "skipped"] ELSE log[t][i]]

SessionStarts(g) ==
    /\ g \notin up
    /\ up' = up \cup {g}
    /\ pos' = [t \in Topics |-> IF t \in TopicsOf[g] THEN Start(t) ELSE pos[t]]
    /\ marked' = [t \in Topics |-> IF t \in TopicsOf[g] THEN committed[t] ELSE marked[t]]
    /\ log' = [t \in Topics |-> IF t \in TopicsOf[g] THEN Skip(t) ELSE log[t]]
    /\ UNCHANGED <<orderVars, payments, committed, sessions, run, ghostVars>>

-----------------------------------------------------------------------------
(* HandlePaymentSuccess of ticket-service.                                 *)

\* Another handler of the order has read it and not yet written PAID.
Overlaps(p) == \E q \in Procs \ {p} : At(q, "pay") /\ Order(q) = Order(p)

GetOrder(p) ==
    /\ At(p, "read")
    /\ status[Order(p)] # "PAID"
    /\ Goto(p, "pay")
    /\ again' = IF Overlaps(p) THEN again \cup {Order(p)} ELSE again
    /\ UNCHANGED <<orderVars, payments, log, offsetVars, up, sessions, broken, astray>>

\* Mutant: the check for a second notification is missing.
AlreadyProcessedPays(p) ==
    /\ At(p, "read")
    /\ status[Order(p)] = "PAID"
    /\ Goto(p, "pay")
    /\ UNCHANGED <<orderVars, payments, log, offsetVars, up, sessions, ghostVars>>

AlreadyProcessed(p) ==
    /\ At(p, "read")
    /\ status[Order(p)] = "PAID"
    /\ End(p, "done")
    /\ UNCHANGED <<orderVars, payments, up, sessions, ghostVars>>

MarkPaid(p) ==
    /\ At(p, "pay")
    /\ status' = [status EXCEPT ![Order(p)] = "PAID"]
    /\ Goto(p, "items")
    /\ UNCHANGED <<unsent, tickets, payments, log, offsetVars, up, sessions, ghostVars>>

\* GetOrder or UpdateOrderStatus fails and the error is returned.  The row may be PAID
\* all the same, and the next notification finds it so.
PaymentFails(p) ==
    /\ run[p].pc \in {"read", "pay"}
    /\ \/ UNCHANGED <<status, broken>>
       \/ /\ At(p, "pay")
          /\ status' = [status EXCEPT ![Order(p)] = "PAID"]
          /\ broken' = broken \cup {Order(p)}
    /\ End(p, "failed")
    /\ UNCHANGED <<unsent, tickets, payments, up, sessions, again, astray>>

\* The order stays PAID, and the next notification finds it so.
ListOrderItemsFails(p) ==
    /\ At(p, "items")
    /\ broken' = broken \cup {Order(p)}
    /\ End(p, "failed")
    /\ UNCHANGED <<orderVars, payments, up, sessions, again, astray>>

Issue(o) == tickets' = [tickets EXCEPT ![o] = IF @ < TicketCap THEN @ + 1 ELSE @]

\* The items, which nothing changes any more, are listed and a row is inserted.
CreateTicket(p) ==
    /\ At(p, "items")
    /\ Issue(Order(p))
    /\ End(p, "done")
    /\ UNCHANGED <<status, unsent, payments, up, sessions, ghostVars>>

\* The error is logged, whether there is a row or not, and the handler returns none.
CreateTicketFails(p) ==
    /\ At(p, "items")
    /\ UNCHANGED tickets \/ Issue(Order(p))
    /\ broken' = broken \cup {Order(p)}
    /\ End(p, "done")
    /\ UNCHANGED <<status, unsent, payments, up, sessions, again, astray>>

-----------------------------------------------------------------------------
(* CancelOrder, for HandlePaymentFailed, the buyer and the expiry worker.  *)

\* GetOrder's row is read for its event only: whatever its status is, it is overwritten.
CancelOrder(p) ==
    /\ At(p, "cancel")
    /\ again' = IF status[Order(p)] = "PAID" THEN again \cup {Order(p)} ELSE again
    /\ status' = [status EXCEPT ![Order(p)] = "CANCELLED"]
    /\ Goto(p, "release")
    /\ UNCHANGED <<unsent, tickets, payments, log, offsetVars, up, sessions, broken, astray>>

\* The units are released and order.cancelled is published, or that fails unnoticed.
CancelAnnounced(p, sent) ==
    /\ At(p, "release")
    /\ sent => Room("order.cancelled")
    /\ EndWith(p, "done",
         IF sent THEN [log EXCEPT !["order.cancelled"] =
                         Append(@, [order |-> Order(p), outcome |-> "waiting"])]
         ELSE log)
    /\ UNCHANGED <<orderVars, payments, up, sessions, ghostVars>>

\* GetOrder, UpdateOrderStatus (CANCELLED or not) or ListOrderItems fails.
CancelFails(p) ==
    /\ run[p].pc \in {"cancel", "release"}
    /\ End(p, "failed")
    /\ UNCHANGED <<orderVars, payments, up, sessions, ghostVars>>

-----------------------------------------------------------------------------
(* payment-service: EventConsumer.HandleMessage returns no errors.         *)

\* A cancellation of the order was handled already, or it has a payment.
OutOfTurn(o) ==
    \/ payments[o].pending + payments[o].expired > 0
    \/ \E i \in DOMAIN log["order.cancelled"] :
          log["order.cancelled"][i] = [order |-> o, outcome |-> "done"]

CreatePaymentIntent(t) ==
    /\ t = "order.created" /\ At(t, "intend")
    /\ payments' = [payments EXCEPT ![Order(t)].pending = @ + 1]
    /\ astray' = IF OutOfTurn(Order(t)) THEN astray \cup {Order(t)} ELSE astray
    /\ End(t, "done")
    /\ UNCHANGED <<orderVars, up, sessions, broken, again>>

CreatePaymentIntentFails(t) ==
    /\ t = "order.created" /\ At(t, "intend")
    /\ End(t, "done")
    /\ UNCHANGED <<orderVars, payments, up, sessions, ghostVars>>

\* Mutant: only what is already EXPIRED is updated.
ExpiresNothing(t) ==
    /\ t = "order.cancelled" /\ At(t, "expire")
    /\ payments[Order(t)].pending > 0
    /\ End(t, "done")
    /\ UNCHANGED <<orderVars, payments, up, sessions, ghostVars>>

\* One row with the reference is read and, being PENDING, set to EXPIRED.
HandleReferenceCancelled(t) ==
    /\ t = "order.cancelled" /\ At(t, "expire")
    /\ payments[Order(t)].pending > 0
    /\ payments' = [payments EXCEPT ![Order(t)] =
                      [pending |-> @.pending - 1, expired |-> @.expired + 1]]
    /\ End(t, "done")
    /\ UNCHANGED <<orderVars, up, sessions, ghostVars>>

\* The row that was read is EXPIRED already.
CancelledBefore(t) ==
    /\ t = "order.cancelled" /\ At(t, "expire")
    /\ payments[Order(t)].expired > 0
    /\ End(t, "done")
    /\ UNCHANGED <<orderVars, payments, up, sessions, ghostVars>>

\* No row is there yet, or a statement fails; the error is dropped.
ReferenceMissing(t, failing) ==
    /\ t = "order.cancelled" /\ At(t, "expire")
    /\ failing \/ payments[Order(t)] = [pending |-> 0, expired |-> 0]
    /\ astray' = IF failing THEN astray \cup {Order(t)} ELSE astray
    /\ End(t, "done")
    /\ UNCHANGED <<orderVars, payments, up, sessions, broken, again>>

-----------------------------------------------------------------------------
(* Where the messages come from.                                           *)

CreateOrder(o) ==
    /\ status[o] = "none"
    /\ status' = [status EXCEPT ![o] = "PENDING"]
    /\ unsent' = unsent \cup {o}
    /\ UNCHANGED <<tickets, payments, log, offsetVars, up, sessions, run, ghostVars>>

AnnounceOrder(o, sent) ==
    /\ o \in unsent
    /\ unsent' = unsent \ {o}
    /\ IF sent THEN Room("order.created") /\ Publish("order.created", o) ELSE UNCHANGED log
    /\ UNCHANGED <<status, tickets, payments, offsetVars, up, sessions, run, ghostVars>>

\* No code in the repository publishes these: a payment provider does, maybe twice.
ProviderPublishes(t, o) ==
    /\ t \in {"payment.success", "payment.failed"} /\ Room(t)
    /\ status[o] # "none"
    /\ Publish(t, o)
    /\ UNCHANGED <<orderVars, payments, offsetVars, up, sessions, run, ghostVars>>

\* HandleMidtransNotification of a payment, as often as Midtrans repeats it.
Notify(o) ==
    /\ At("notification", "idle")
    /\ status[o] # "none"
    /\ run' = [run EXCEPT !["notification"] = [pc |-> "read", order |-> o]]
    /\ UNCHANGED <<orderVars, payments, log, offsetVars, up, sessions, ghostVars>>

\* HandleMidtransNotification of a failed one, the buyer, or the worker, which has the
\* order from a list it read earlier and may find it PAID or CANCELLED since.
CallCancelOrder(o) ==
    /\ At("cancellation", "idle")
    /\ status[o] # "none"
    /\ run' = [run EXCEPT !["cancellation"] = [pc |-> "cancel", order |-> o]]
    /\ UNCHANGED <<orderVars, payments, log, offsetVars, up, sessions, ghostVars>>

-----------------------------------------------------------------------------
Handle(p) ==
    \/ GetOrder(p) \/ AlreadyProcessed(p) \/ MarkPaid(p) \/ PaymentFails(p)
    \/ ListOrderItemsFails(p) \/ CreateTicket(p) \/ CreateTicketFails(p)
    \/ CancelOrder(p) \/ CancelFails(p)
    \/ \E sent \in BOOLEAN : CancelAnnounced(p, sent)

Consume(t) ==
    \/ Take(t) \/ Commit(t)
    \/ CreatePaymentIntent(t) \/ CreatePaymentIntentFails(t)
    \/ HandleReferenceCancelled(t) \/ CancelledBefore(t)
    \/ \E failing \in BOOLEAN : ReferenceMissing(t, failing)

Source(o) ==
    \/ CreateOrder(o)
    \/ \E sent \in BOOLEAN : AnnounceOrder(o, sent)
    \/ \E t \in Topics : ProviderPublishes(t, o)
    \/ Notify(o) \/ CallCancelOrder(o)

Next ==
    \/ \E p \in Procs : Handle(p)
    \/ \E t \in Topics : Consume(t)
    \/ \E g \in Groups : SessionEnds(g) \/ SessionStarts(g)
    \/ \E o \in Orders : Source(o)

Spec == Init /\ [][Next]_vars

-----------------------------------------------------------------------------
\* What a group has committed past was handled, at least once: whatever sessions end
\* between a message, its mark and its commit, no message is passed over but those a
\* handler answered with an error, and those published before a group's first commit
\* that a new session, starting at the newest, leaves out.
CommittedIsHandled ==
    \A t \in Topics : \A i \in 1 .. committed[t] : log[t][i].outcome # "waiting"

\* A paid order has its one ticket, however often its payment is notified, over HTTP
\* or Kafka, and however often a message is delivered again: unless two handlers read
\* the order before either wrote PAID, or it was cancelled after it was paid (again),
\* or issuing the ticket failed or was cut off, which no notification repairs (broken).
OneTicketEach ==
    \A o \in Orders :
        /\ tickets[o] <= 1 \/ o \in again
        /\ (status[o] = "PAID" /\ \A p \in Procs : Order(p) = o => ~At(p, "items"))
             => tickets[o] >= 1 \/ o \in broken

\* Once its cancellation was handled, an order has no PENDING payment, unless the
\* payment was created after that, or a second time, or a statement failed.
PaymentFollowsOrder ==
    \A o \in Orders :
        (/\ payments[o].pending > 0
         /\ \E i \in DOMAIN log["order.cancelled"] :
               log["order.cancelled"][i] = [order |-> o, outcome |-> "done"])
            => o \in astray
=============================================================================
