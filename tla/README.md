# Entra API: a TLA+ model of the ticket sale, the money and the accounts

The modules here model the parts of this repository where several goroutines,
several services or several stores have to agree, and check or prove what they
promise. Paths are relative to the repository root; `TS` is
`ticket-service/internal/service/ticket_service.go`, `QS` is
`queue_service.go` beside it, `GS` is
`gate-service/internal/service/gate_service.go`, `WS` is
`withdrawal_service.go` beside `TS`, `AS` is
`auth-service/internal/service/auth_service.go`, `ES` is
`event-service/internal/service/event_service.go`, `KC` is
`shared/kafka/consumer.go`.

Run a check with `tlc -config StockWarm.cfg MCTicketStock`, a proof with
`tlapm TicketStockProofs.tla`. `PROJECT.json` lists every run, the lines each
definition models, the hazards and the findings.

## 1. Inventory

### 1.1 Components

| component | state it keeps | operations | what makes it correct |
| --- | --- | --- | --- |
| **Ticket stock** (`TS:38-198`, `event_client.go`, `internal_ticket_handler.go`, `event_service.go`) | Redis `ticket_stock:<id>`; row `ticket_types` (quantity, sold, sale window); in memory: the singleflight group | reserve, release, cold load, organizer edits, prewarm | no more units with orders than exist; counter, database and orders agree; a request behind a flight is answered |
| **Orders and waiting room** (`TS`, `QS`, `expiry_worker.go`) | table `orders` (status, expires_at); Redis `queue:event:<id>:active`, `:expires_at`, `:waiting`; Midtrans transactions | create, poll, token, cancel, notification, expiry sweep | one order at a time has the turn and has it for three minutes; a cancelled order gives its units back; tickets only for orders that were paid, or were taken for paid; expired orders go away |
| **Gate check-in** (`GS`, `ticket_consumer.go`, `event_consumer.go`) | `tickets.status` in ticket-service, its copy `local_tickets` in gate-service, topics `ticket.created`, `ticket.scanned` | issue, sync, scan, report | a ticket opens one gate once; a used ticket stays used whatever arrives late |
| **Checkout** (`TS:208-368`) | Redis `order:idempotency:<key>`; tables `orders`, `order_items` | `POST /orders`, with its compensations | one order per idempotency key, one active order per buyer and event, no unit left with nobody, a cancelled order gives its unit back |
| **Payment notifications and intents** (`TS:370-430`, `payment_consumer.go`, `payment_service.go`) | `orders.status`, tables `tickets`, `payments` | Midtrans's notification, payment.success / failed, order.created / cancelled | a paid order gets its tickets once; a payment follows its order, whichever message comes first |
| **Kafka wrapper** (`shared/kafka`) | offsets: read, marked, committed | publish, consume, mark | a message is not passed over before it is handled |
| **Withdrawals** (`WS`, `order_service.go`) | table `withdrawals`, `orders` and `events` read; the connection pool | request, show the balance, approve, pay, reject | nobody withdraws more than the net revenue; the balance shown is there; a call ends unless requests starve each other of connections |
| **Accounts and tokens** (`AS`, `auth_handler.go`) | `users`, `refresh_tokens`, `password_reset_tokens`; in memory: `recentRotations` | register, login, refresh, logout, upgrade, forgot, reset, change | a token is exchanged once; a logout is final; a session does not just disappear; a reset token works once |
| **Events and their cache** (`ES`) | table `events`, Redis copies | create, update, delete, cached reads | a reader does not keep a copy that an update should have removed |
| **Categories and venues, middleware, storage, configuration, load test** | single rows, or none of the system's own | - | one statement each, or stateless; not modelled |

### 1.2 How they interact

- ticket-service calls event-service over HTTP, with a 5 s timeout, to book and
  release units and to load the availability. A failed booking after Redis
  granted the units is ignored (`TS:129`, `TS:182`).
- event-service writes the same Redis counter itself when an organizer creates or edits a
  ticket type or publishes the event.
- Handlers of ticket-service call each other: a poll
  checks the active order, which cancels it, which advances the queue. Every
  Redis and database command is separate: there is no lock and no transaction.
- gate-service asks ticket-service about every scanned ticket, and falls back on
  its own table. Check-ins go back over Kafka.
- Midtrans calls the notification endpoint, any number of times; the same handlers
  are called by the consumer of payment.success and payment.failed.
- payment-service learns of orders from order.created and order.cancelled, two
  topics without an order between them.
- A withdrawal asks event-service for the organizer's events while it holds a
  database connection, and then waits for another one of the same pool of 25, which
  nothing keeps 25 requests from exhausting.
- auth-service keeps the answers of recent refreshes in the memory of the process;
  everything else is in PostgreSQL, one statement at a time.

### 1.3 What is hard

Check-then-act across Redis commands, two stores that are updated in sequence,
a shared load whose result is stale when it is stored, handlers that repeat what the
handler they call has done, overlapping cancellations by worker, buyer and payment
provider, late and repeated messages, crashes between two statements,
compensations that run under the context whose end made them necessary, sums read
in two transactions. The list,
each at its line and with the property that would catch it, is `hazards` in
`PROJECT.json`.

## 2. Modules

| module | what it is |
| --- | --- |
| `TicketStock` | one ticket type: counter, row, singleflight, organizers |
| `BoxOffice` | the abstract promise of the stock to those who sell from it |
| `TicketStockProofs` | seven theorems about it, among them that it implements `BoxOffice` |
| `GateCheckin` | tickets between ticket-service and gate-service |
| `AdmitOnce` | the abstract promise of the two about a ticket |
| `GateCheckinProofs` | seven theorems, among them the refinement |
| `OrderQueue` | orders of one event and its waiting room |
| `OrderQueueProofs` | four theorems about it |
| `Checkout` | CreateOrder with its idempotency marker and compensations |
| `CheckoutProofs` | five theorems about it |
| `Settlement` | the messages about orders, the consumer, payments and tickets |
| `SettlementProofs` | four theorems about it |
| `Withdrawals` | an organizer's revenue and withdrawals, and the pool |
| `WithdrawalsProofs` | four theorems about it |
| `AuthSessions` | one account: sessions, passwords, the role |
| `AuthSessionsProofs` | six theorems about it |
| `EventCache` | rows of events and their copies in Redis |
| `EventCacheProofs` | two theorems about it |
| `MC...` | instances for TLC |

The modules meet where one stands for another in a step: `Checkout` takes
`ReserveTicketStock` (`TicketStock`) and an order's turn (`OrderQueue`) as single steps,
and its cancellation as two; `BoxOffice` says what the stock promises, and the counter of
`TicketStock` implements it while it is warm; `Settlement` takes CreateOrder and the
calls of CancelOrder as the sources of its messages; `Withdrawals` takes the status of
orders, and the deletion of events, as given.

Operators whose comment begins with *Mutant* are not part of the system: each is
a plausible mistake in the definition that follows it, used to see that a property
would notice.

### 2.1 TicketStock

A process of `Requests` is the goroutine of a purchase. `pc` names the program
points of `ReserveTicketStock`: the first Lua script (`lua`), `sf.Do` (`load`,
`wait` behind another's flight, `get` and `set` for the leader), the second
script (`retry`), the booking at event-service (`book`) or, when the load failed, the
database's decision alone (`direct`). `held` is an order with the units, and
`ReleaseTicketStock` is `ReleaseLua` then `Unbook`. A process of `Organizers` is a
request to event-service: `UpdateTicketType`, or `UpdateEvent` with
`PrewarmRead`, and then `OrganizerSet`, which overwrites the counter with an
availability read earlier. event-service's handler is two steps: `CheckSale` reads the type
and the event (whose status is not looked at when that read fails), and `Book` or `Direct`
is `IncrementTicketSold`, whose WHERE clause is `Bookable`. `onSale` is the sale window
and `is_active`; an event that has ended is refused the same way and not told apart.
`granted` is a history variable.

Faults are switched on by constants: Redis loses the key (`KeyLoss`), a command
fails, applied or not (`RedisFails`), a call to event-service fails, applied or
not (`EventFails`), the sale ends (`SaleCloses`).

`BoxOffice` is the stock as an order should see it: units that are left, and holders
who are granted units out of those and give them back once. `TicketStock` implements it
under the assumptions of section 5, with requests as holders between grant and release.
Neither `Checkout` nor `OrderQueue` does: an order there may give its unit back twice
(finding 2), and a cancellation that breaks off gives back nothing.

One step stands for two in one place: the leader's SET and the end of its flight
(`LoadSet`), because a caller that joins in between does what one that joined
earlier does.

### 2.2 GateCheckin and AdmitOnce

A process of `Scanners` is a goroutine that handles a scan: the HTTP request
(`Fetch`, `FetchNothing`), `SyncTicket` of the answer (`Sync`), the look at the
local row (`Lookup`), the guarded UPDATE (`CheckIn`, `CheckInError`), the
publication (`Publish`). A scan may name no event (`NoEvent`), and then
no event is compared. `central` and `local` are the two status columns;
a topic is the set of tickets with an unconsumed message. A message may be lost when it
is published, lost when the consumer swallows an error, and delivered again. `Crash` stops
every scan and keeps the table. `calm` is the environment's promise, made at
some moment and kept, that nothing fails any more: liveness is only claimed from there.

`AdmitOnce` says: a ticket is issued, then enters at most once, then may be
reported. `GateCheckin` implements it with `issued` = tickets that
exist in ticket-service, `reported` = those that are USED there.

### 2.3 OrderQueue

The orders of one event. Since handlers call one another, a thread is not a
program counter but a list `todo` of calls: it executes the first and puts the
calls that it makes in front of the rest. A call is one Redis or SQL command:

| code | calls |
| --- | --- |
| `EnqueueOrder` | `enqueue`, then `claim`, `lease`, `dueTurn`, or `enqueueBehind`, then `push`, `dueLine` |
| `AdvanceQueue` | `advance`, then `delete`, or `promote`, then `claim`, `lease`, `dueTurn` |
| `CheckAndAdvanceExpiredActive` | `check`, `checkLease` or `checkWaiting` |
| `CancelOrder` | `cancel`, `release`, `unqueue`, then `advance` or `remove` |
| `CancelOrderInQueue` | `cancelInQueue`: the same, and `unqueue` once more if it succeeded |
| `HandlePaymentSuccess` | `markPaid`, `issue`, `advance` |
| `GetOrderQueueStatus` | `check`, `pollActive`, `pollLease` or `pollWaiting`, then perhaps `claim` or `push` |
| `CreatePaymentToken` | `check`, `tokenTurn` |
| expiry worker | one `cancel` for each order its query found |

`deadline` is `orders.expires_at` as the lease it came from (15 minutes unpaid, 3
minutes of turn, 2 hours in line) or `past`; `lease` is the Redis key. The two
pass independently: Redis keeps whole seconds and is written by another command.
An order has one unit; items of an order
are reserved and released one after the other, and that is `TicketStock`'s
matter. A Midtrans transaction is `open`, `settled` or `expired`; an order may have
several. Bounds: `tickets` stops at `MaxTickets` = 2 and `free`
at `MaxFree` = `Stock` + 1, "more than one" and "more than there ever were".

Three steps may fail where the code returns or goes on at an error (`Failures`): a
cancellation before anything happened, or once the order is CANCELLED and before its units
are released (`TS:452`; the order is then in `stranded`, since the worker does not find it
again); a payment, with the order PAID or not, and no tickets; and the read of the next
order in line, which is skipped. The caller of a failed cancellation advances the queue all
the same, but `CancelOrderInQueue` does not. A notification is answered by Midtrans; when
Midtrans does not answer, the message decides, and one without a status but with
`status_code` 200 or 201 is taken for a settlement (`TS:577-593`): the order is then in
`unasked`.

`OneAtATime` lets a handler start only when no other runs. Finding 2 (run `order_units`)
needs no concurrency at all, and `WaitingRoomInOrder` holds only without it: it says what
a whole handler leaves behind, and is only model-checked. `LongLine` lets an order's two
hours in line pass.

### 2.4 Checkout

A process is the goroutine of one `POST /orders`, and `pc` the next statement or
Redis command of `CreateOrder` that changes something. The guard (`TS:223`) and the
marker (`TS:249`) are separate steps; every step has its failing twin, because all
calls carry the context of the HTTP request, and the compensations of a failed
INSERT do too, and an INSERT that fails may have made its row. `Stop` is the process
stopping, or a failing `EnqueueOrder`. `OrderLapses` and `Promote` are what `OrderQueue`
has in detail. An order is cancelled in any status and as often as somebody asks
(`MaxCancels`): `CancelOrder` writes the status, `GiveBack` lists the items and releases
them, and CreateOrder may make the item between the two; `GiveBackFails` is where it
breaks off. A CANCELLED order may still be paid (`TS:381` refuses only PAID ones).

History variables name what the code leaves open, so that the properties
can say what it does not: `loose` (a marker that could not be set, or that expired, or an
item made behind its request's back), `blind` (orders whose request could not see
another), `lost` (units nobody will give back: the process stopped, a release failed),
`extra` (units that cancelled orders gave back again), `stranded` (orders cancelled
before their item was made, or whose last cancellation broke off half way).

### 2.5 Settlement

A topic is one partition: messages of an order carry its id as key. `log` has the
messages with what became of them (`waiting`, `done`, `failed`, `skipped`); `pos`,
`marked` and `committed` are where the claim is, what `MarkMessage` was told, what
the broker knows. A group has a goroutine per topic; `SessionEnds` may stop them
between any two statements, and `SessionStarts` begins at the committed offset, or,
where there is none, at the newest (`KC:28`). `"notification"` is a goroutine of the HTTP
server in the same handlers. The handlers of ticket-service return their errors;
`EventConsumer` of payment-service returns none.

`"cancellation"` is one more goroutine: a failed Midtrans payment, a buyer, or the expiry
worker, which has the order from a list it read earlier. Whoever cancels overwrites any
status (`TS:444`).

History variables name the ways out: `again` (two handlers had read the order
before either wrote PAID, or it was cancelled after it was paid), `broken` (the order
is PAID and issuing its ticket failed or was cut off, or the UPDATE that made it PAID was
answered with an error: `TS:381` then answers "Already processed" for ever), `astray` (the
payment was created after the cancellation was handled, or twice, or a statement failed).

### 2.6 Withdrawals

A call is a request for a withdrawal or a reader of the balance. A request begins a
transaction (a connection of the pool), fetches the ids of the organizer's
events over HTTP, reads the revenue on a second connection, sums the
withdrawals in its transaction, inserts, commits. Money is counted in tenths of a
cent, since `float64ToNumeric` rounds to cents when it stores (`Stored`) and the check
compares what was asked for (`Decide`). `hurt` collects which of four causes an
organizer has met: `overlap` of two requests, `revival` of a rejected one, `refund` of a
paid order, `deletion` of an event. `NoOverdraft` is about organizers without any.
The fee is the five percent of the default configuration.

The pool has `MaxConns` connections; the code has 25 and takes any number of requests.
`Starved` is the moment when every connection belongs to a transaction whose request waits
for another one: nothing but a client giving up ends it. `CallsEnd` says that this is the
only way a call waits for ever.

### 2.7 AuthSessions

One account (rows carry the user's id, tokens are random). A process is the
goroutine of a request, and a step one statement, or one operation on the map
`recentRotations`. `parent` and `root` record which token each was exchanged for and
which session it belongs to; `raced`, `kept`, `ended`, `closed` record the races, the
errors that left a row behind and the ends that the properties make exceptions of. A
statement that fails ends its request; one that takes effect and is answered with an error
is a case of its own action (an UPDATE of the password so answered leaves the reset token
where it is, `AS:427`). `UpgradeToOrganizer` refuses an inactive account and an admin; no
code makes an account either of them, so the model has none. ChangePassword overwrites
what others set since the comparison, as a last writer does; no property is stated of it. An answer from the grace window changes nothing and is not an action.
`Restart` empties the map and drops every request where it is.

### 2.8 EventCache

Rows are a version and a status; `copy` is Redis. A reader reads and then stores, a
writer changes the row and then deletes: its own `event:<id>`, and every page that SCAN
returns, one after the other. `Owes(p, k)` says that a writer has yet to delete a
key; `late` collects keys that a reader filled after that, or whose DEL was lost.
`UpdateEvent` gives the event a new slug each time, so the copy under the old slug is
one no writer deletes. Nor does a writer delete a copy a reader stored under another
spelling of the id (`SpeltKeys`): the key is the path as it came, and `uuid.Parse` accepts
capitals and prefixes. Writers are assumed to spell the id as the database does; one that
does not deletes no copy under the id, which is a lost DEL of the model.

## 3. Runs

All take less than three minutes with two workers. A run of a question that is about one
component has its own instance; questions that one instance can answer share it.

| run | what it asks | bounds, and why they are enough |
| --- | --- | --- |
| `stock_warm` | key in place, no organizer: `StockLedger`, `NoOversell`, `GrantedIsHeld`, `SellsAsPromised` (the refinement of `BoxOffice`; 12,948 states) | four requests of 1 or 2 units for 4: refusals, releases and reuse of a released unit occur together; proved for every size |
| `stock_cold` | cold cache, lost keys, all failures, an organizer, the end of the sale: `FlightHasLeader`, `SoldGrowsWithinQuantity`, `EveryReservationAnswered` (904,367) | a flight needs a leader and one waiter; quantity is edited from 2 to 1 or 3 |
| `stock_oversell` | violated: `NoOversell` | no fault; two requests, one unit |
| `gate` | `NoDoubleEntry`, `RightGate`, `ClosedStaysClosed`, `AdmitsOnce`, `EntryIsReported`, `ValidTicketEnters` | rows and messages of different tickets are independent: one ticket; three scans, so that one is accepted while one is stale and one is late; two events for the wrong gate, and scans that name none |
| `queue_sequential` | `WaitingRoomInOrder`, `TicketsArePaidFor` (2,866,306) | three orders, one of them paid for: one has the turn, two wait; no concurrency, all failures; the second proved for every size |
| `queue_concurrent` | `TypeOK`, `SlotHasLease`, `NoUnitLost`, `ExpiredIsSwept` (323,585) | two orders that nobody pays; a buyer's goroutine and the worker interleave at every command, from any handler to any other; all failures; no symmetry, for liveness |
| `order_units` | violated: `UnitsConserved` | one handler at a time, no failure |
| `checkout` | `OneOrderPerKey`, `UnitsAccounted`, `CancelledGivesBack`, `OnePending` (3,490,561) | two requests at a time, two orders, one unit, one key or none, two cancellations: enough for a race, a retry after an expiry, a request between the steps of the other, a unit given back twice and sold again; proved for every size |
| `settlement` | `TypeOK`, `CommittedIsHandled`, `OneTicketEach`, `PaymentFollowsOrder` (1,875,193) | one order, since messages and rows of different orders meet only in the offsets; three messages per group: one handled, one in hand, one to come; one session ends; proved for every size |
| `withdrawals` | `TypeOK`, `NoOverdraft`, `ShownIsAvailable`, `CallsEnd` (250,898) | one organizer with one event and order, whose revenue comes and goes; as many requests as connections, three, so that they starve each other, and two of them overlap with connections left; a reader; a request for the whole balance, which rounds up; a cause at a time; all but `CallsEnd` proved for every size |
| `auth` | `SuccessorUnique`, `LoggedOutStaysOut`, `SessionSurvives`, `ResetOnce`, `RoleNeverExceeds` (989,637) | two requests at a time, three refresh tokens (a login and two exchanges, or two sessions), a reset token used twice; proved for every size |
| `cache` | `FreshUnlessLate`, `CacheConverges` (744,542) | two requests on one event, a page and two versions, so two slugs, and two spellings of the id |

Three instances follow less than their constants would allow, by a `CONSTRAINT`.
`MCOrderQueue!OnePayment` leaves an order with one transaction, in one state, once all
three orders are placed; with two of them it may have several.
`MCSettlement!OneGroup` keeps one consumer group at its start, with one message at most,
while the other reads: they meet only in order.cancelled, which ticket-service publishes;
the goroutines of the HTTP server and the worker publish there without the group. The
theorems about `Settlement` need no such bound.
`MCAuthSessions!Bound` takes the third token
only while the account itself stays as it was registered. The theorems about
`AuthSessions` need no such bound.

`gate` and `cache` are checked for deadlock. The others may
stop: when every purchase is answered, every order or withdrawal finished, every token
used up or every message read, nothing is left to do. Symmetry (requests, tokens, passwords;
orders with and without a payer among themselves) is used in runs without liveness
only.

### 3.1 Fairness

- `TicketStock`: a purchase that began is stepped until it is answered, a
  release that began is finished. Go runs every ready goroutine; Redis and
  HTTP calls return or time out. Nothing is assumed of buyers, organizers or faults.
- `GateCheckin`: a scan that began is carried on; a consumer marks a message in
  the end, however often it is redelivered. The failures end when `calm` says so, and no
  fairness obliges them to.
- `OrderQueue`: a goroutine that began is run to its end; the worker's ticker
  fires again and again (every 2 s). The worker's cancellations may fail, but not for
  ever: a failed one that left the order PENDING is tried again with the next tick, and the
  database answers one of the attempts (strong fairness of `Cancel(Worker)`). No buyer has
  to poll, pay or cancel.
- `Withdrawals`: a call that can take its next step takes it; waiting for a connection
  is waiting for the step to be enabled, so `CallsEnd` does say that one becomes free, but
  where requests starve each other. Nobody has to ask, pay, decide or fail: a failure is
  never what ends a call.
- `EventCache`: a request that has begun goes on or is cut off, and a copy expires
  after its five minutes. `CacheConverges` is about the time after the last write.

`Checkout`, `Settlement` and `AuthSessions` claim no liveness and state no fairness.

## 4. What the runs found

Two statements of the repository are refuted by runs that expect it.
Traces and quotations are in `PROJECT.json`, `findings`.

1. **Overselling from a cold cache** (`stock_oversell`, `TS:164`). The load SETs
   the counter without looking whether it is there by now; a second load, after
   the first, brings back a unit that was taken and not yet booked.
2. **Units given back twice** (`order_units`, `TS:444`). Nothing stops an order
   that is CANCELLED from being cancelled again. `UnitsAccounted` of `Checkout` counts
   those units in `extra`.

More deviations are in the models, and an instance with the property named here shows
them; the properties that the runs check are stated beside them, and name the
exception where there is one.

3. **sold drifts from the orders** (`TS:193`). A release returns the unit to Redis
   first; the next buyer's booking comes before the database's release, is refused,
   and the refusal is dropped. `TicketStock` with two requests, one unit, a key in
   place and no fault: `sold` falls below the sum of `granted` when every request is
   `idle`, `held`, `refused` or `released`.
4. **A cancelled order gets the turn** (`QS:295`). The poll promotes the order on a
   status it read before cancelling it. `OrderQueue` with two orders, `OneAtATime`:
   when no thread has anything to do, `status[active]` may be CANCELLED.
5. **A turn is cut short** (`QS:165`). `CancelOrder` advances the queue, and so does
   its caller. Three orders, `OneAtATime`: `active` changes while its lease is alive
   and its order PENDING.
6. **Tickets twice** (`TS:381`). Two notifications pass the "Already processed" check
   together. `OrderQueue` with one order and two buyers' threads: `tickets[o] = 2`.
   `OneTicketEach` of `Settlement` holds but for the orders in `again`.
7. **Withdrawals over the balance** (`WS:157`). `NoOverdraft` fails without its
   premise `hurt[g] = {}`, for each of the four causes.
8. **Two successors of one refresh token** (`AS:186`). `SuccessorUnique` fails without
   `raced`. And a refresh that comes between the other's DELETE and its entry in the
   map is refused, although the comment at `AS:198` says the map absorbs concurrent
   client requests.
9. **A message may be passed over** (`KC:79`, `KC:28`). Its handler failed, or it came
   before the group's first commit and a session ended.
10. **Withdrawals starve each other** (`WS:135`). As many requests as the pool has
    connections wait for each other until a client gives up. `CallsEnd` fails without
    `Starved`.
11. **A unit lost by half a cancellation** (`TS:452`). When `ListOrderItems` fails once
    the order is CANCELLED, nothing is released and the worker does not see the order
    again. `NoUnitLost` and `CancelledGivesBack` fail without `stranded`.
12. **Tickets without a settlement** (`TS:577-593`). When Midtrans does not answer, a
    notification without a status and with `status_code` 200 or 201 counts as a settlement.
    `TicketsArePaidFor` fails without `unasked`.
13. **A duplicate gets 409** (`TS:222-229`). README.md:81 promises 429 for a request
    that is under way under the same key; the pending-order guard, which comes first,
    usually answers before the key is looked at.

## 5. Proofs

The theorems hold for any finite set of orders, and any sets of requests (finite in
`Checkout` and `Withdrawals`), organizers, tickets, scanners and threads. They assume only
the `ASSUME`s of the modules (TLC evaluates them in the runs), and what the theorem itself
states. Every safety property that a passing run checks, but `WaitingRoomInOrder`, is the
statement of one.

**TicketStock.** `TypeCorrect` is an induction on `TypeOK`. From it:
`DatabaseNeverOversells` (the only steps that raise `sold` are those guarded by
`Bookable`) and `FlightSafe` (`FlightHasLeader` is inductive together with
`TypeOK`). `NoOversell` is false in general (finding 1), so it is
proved where it holds, under `StaysWarm`: the key exists at first, Redis does
not fail, there is no organizer; event-service may fail at will. The inductive
invariant `WarmInv` adds that no request is on the way to a load or to the
database's own grant, for it is there that `stock + granted = quantity` would
break. It gives `WarmLedger` and `WarmNeverOversells`, and `ImplementsBoxOffice`: only the
script takes, only what the counter covers, and a release returns the quantity the request
was granted. `GrantedHeld` needs none of this. Units held are a set of pairs (request,
number), and `OneGrants` and `OneReleases` say that a step adds or removes the pairs of one
request, whose number is its quantity.

**GateCheckin.** `NoDoubleEntry` is not inductive: a second scan is refused
because the row stays closed, and the row stays closed whatever is still
under way. `GateInv` = `TypeOK`, `IssuedInv` (whatever left ticket-service is
about an issued ticket), `AcceptedInv` (an accepted ticket is closed and was
accepted once), `UsedInv` (whatever says USED, in a column, a topic or a fetched
answer, is about an accepted ticket). From it `TypeCorrect`,
`OneEntryPerTicket`, `CopiesAreTruthful`, `NeverReopened`, `EntersAtRightGate`, and `Implements`: the
initial states map to initial states of `AdmitOnce` and each step to one of its
steps or a stutter; the invariant is needed where a check-in must be the first.

**OrderQueue.** `QueueInv` says what may stand in a thread's list of calls: a
`claim` is followed by `lease`, and `markPaid` and `issue` name an order that
Midtrans settled or that is in `unasked`. `ThenGood` shows that a step which puts a good list in front
keeps this; `RunIsStep`, `StartIsStep` and `SweepIsStep` show that every action
does. `LeasedSlot` and `PaidTickets` follow. `UnitsReturn` needs `UnitsInv`: a release
is never anywhere but at the head of a list, so free units, orders that live or are
stranded and threads about to release add up to the stock at least (`ThenReleases` says how a step changes
the last of the three).

For these three it does not matter which orders the calls name. For `QueueTyped` it does:
a poll that finds no owner makes calls without an order, and only the kind of a call says
whether its order may be used. `Entries` says so, and `TypeInv` that all lists consist of
entries. That the line stays a sequence of orders when one leaves it is `WithoutIsLREM`, a
lemma about a recursive function proved by its least counterexample: `Without` removes every
copy of the order, as LREM 0 does, and keeps the rest in its order.

**AuthSessions.** `Typed` = `TypeOK` and `Holds` (what a request holds goes with where
it is) is inductive. `SuccessorUnique` is not: it must be known where a token
can still be exchanged. `Exchange` adds that a token with a successor, or one that is
being exchanged, has no row any more (or is in `kept`), and that two requests that
may exchange one token, or one that may exchange a token that has a successor, make it
`raced`. Most actions are `Quiet` (they delete rows at most), which is proved once for
all of them; three are not. `Gone` (neither a row nor a refresh under way
belongs to a closed session) gives `LogoutIsFinal`; `SessionSurvives` is inductive over
`Typed`. `Account` relates a request to what it has read: a role that is at most the
row's (`RoleWritten`) and the reset token it was given (`ResetOwned`).

**EventCache.** `FreshUnlessLate` is inductive with `Typed` (the types, and what a request
holds at each step) and `Unborn` (nothing is known of an event before it is
created, which is why CreateEvent may leave `event:<id>` alone). A stale copy is
made by a write, whose process then owes the DEL, or by a SET or a lost DEL, which
make it late; SCAN returns every page that has a copy, and a DEL makes a key fresh for
every process.

**Checkout.** `Typed` = `Shape` (the types) and `Owned`: the order a request works on
is its own until the item is there, and an item made behind its back has given its unit
back. `UnitMoves` lists all that ever happens to a unit: it stays, is reserved, passes from
the request to the order with the item, is dropped by a request (free again, or lost), is
given back by an order, or is given back once more. `UnitsAccounted` counts these cases: the
unit moves between the set of requests that hold one and the set of orders with an item that
was not given back, whose cardinalities change by one (`LetsGo`, `Grabs`). That free
and lost stay within the stock and what was given back again follows. `CancelledGivesBack`
is inductive over `Typed`: the status is written together with the cancellation that is to
give the unit back, and an item made later strands the order.
`OneOrderPerKey` needs `KeysOwned`: the marker stands first for the one request that
is busy with the key, then for the order it made; the DEL of a failed request is safe
because it has made no order, the SETNX because no request is busy. `OnePending`
needs `Guarded`: of two requests past the guard one is blind, and one that is not
has seen every active order.

**Settlement.** `Offsets` is about the logs: a claim works on the message after its
position, and what is behind the position or the committed offset waits no more. Its
lemmas are shared by all steps: a log only `Grows`, a handler that ends changes the
outcome of one message (`EndOffsets`), the other steps of a handler none
(`MoveOffsets`). It implies `CommittedIsHandled`. `OneTicketEach` needs `Settled` (outside
`again`, one goroutine at most is between reading the order and issuing its ticket,
and the order has none yet; a cancellation under way changes nothing of that, because
one that finds the order PAID puts it into `again`) and `Issued`; `PaymentFollowsOrder` needs `InTurn`, for
which `EndOffsets` says that a cancellation becomes done only under the claim that
handles it.

**Withdrawals.** A balance is a sum over a set of rows, `MapThenSumSet`, about which the
library states nothing. The first part of the module does, from the definition: on finite
sets the sum is that of a function defined on all subsets (`AddsExists`, `SumIsAdds`), is a
natural number, does not depend on which element is taken first (`AddsAnyone`), and grows
with its terms; each by a smallest counterexample, since < on the naturals is well-founded.
`NoOverdraft` is not inductive. `Inv` adds that the events a request was given are
still the organizer's (`EventsAreListed`), that the revenue it counted has not become less
(`RevenueIsEarned`), that a request under way has no row (`NoRowYet`), and that one whose
check has passed would still pass (`AllowedFits`), all but where a cause is in `hurt`: a
withdrawal committed between the check and the insertion would be an overlap.
`NeverOverdrawn` follows, and `BalanceShownIsAvailable`, for which the two sums must
be read in the order in which the code reads them. Rounding is the five tenths of a cent in
`NoOverdraft`; the price is a multiple of twenty tenths of a cent so that the fee is exact.

**What refines what.** `GateCheckin` implements `AdmitOnce`, `TicketStock` implements
`BoxOffice`.

Only model-checked is what the prover cannot express, liveness under fairness:
`EveryReservationAnswered`, `EntryIsReported`, `ValidTicketEnters`, `ExpiredIsSwept`,
`CallsEnd` and `CacheConverges`. So is `WaitingRoomInOrder`, which needs handlers to run one
at a time; nothing in the code makes them.

## 6. Not modelled

- The configuration without Redis (`rdb == nil`), where the queue does not exist.
- In `OrderQueue`: crashes of ticket-service, Redis commands that fail (their errors are
  ignored, those of SET expires_at at `QS:58`, `QS:133` and `QS:299` included), UPDATEs of
  `expires_at` and INSERTs of tickets that fail. `Checkout` and `Settlement` have crashes
  and failing statements for creating, cancelling and settling an order.
- Several units or several types in an order, in `Checkout` and `Settlement`; price
  and limit checks (pure functions of the request).
- Notifications that Midtrans or the frontend did not send: a status in a message is one
  Midtrans gave the transaction at some time. (A message without one is modelled.)
- The end of an event apart from the end of its sale; inactive accounts and admins.
- The 24 hours after which the queue's keys expire by themselves.
- Several partitions and a rebalance that leaves two consumers of a topic alive
  together; a session that ends stops its handlers.
- Deletion of a ticket type, which leaves the counter alone.
- Several accounts; profile and avatar updates; expiry and signature of access tokens.
- The platform's fee as a setting, and the lists and statistics that only read.
- Categories, venues, middleware, storage, configuration, load test: single
  statements by id, stateless checks, or I/O.

## 7. Plan

Done, in this order: `TicketStock`, `GateCheckin` with `AdmitOnce`, `OrderQueue`, then
`Withdrawals`, `AuthSessions`, `EventCache`, `Checkout`, `Settlement`, with the proofs
of section 5. What would come next:

1. Crash of ticket-service and failing Redis commands in `OrderQueue`.
2. A property of the waiting room that holds for several handlers at once, with the
   exceptions that findings 4 and 5 name, and its proof.
