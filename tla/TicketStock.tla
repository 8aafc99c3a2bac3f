---------------------------- MODULE TicketStock ----------------------------
(***************************************************************************)
(* The stock of ONE ticket type, kept twice: as a counter in Redis that    *)
(* ticket-service decrements with a Lua script, and as the columns         *)
(* quantity / sold of the row ticket_types in event-service's database,    *)
(* which it reaches over HTTP.  Keys of different ticket types never       *)
(* interact, so one type is enough.                                        *)
(*                                                                         *)
(* A process of Requests is the goroutine of one purchase: it runs         *)
(* ReserveTicketStock and, when the order it led to is cancelled or could  *)
(* not be stored, ReleaseTicketStock.  A process of Organizers is a        *)
(* request to event-service that edits the event or the ticket type and    *)
(* then overwrites the Redis counter.  Every call to Redis, to the         *)
(* database or over HTTP is a step of its own.                             *)
(***************************************************************************)
EXTENDS Integers, FiniteSets

CONSTANTS
    Requests,       \* goroutines of ticket-service that buy from this type
    Organizers,     \* goroutines of event-service that edit it
    InitialQuantity,\* quantity the type was created with
    Quantities,     \* quantities an organizer may edit it to
    MaxQty,         \* largest quantity of one request
    NoKey,          \* the Redis key does not exist
    NoRequest       \* no flight is up for the key "load_stock:<id>"

CONSTANTS
    ColdStart,      \* the key is absent at first (Redis was restarted)
    KeyLoss,        \* Redis may lose the key at any time
    RedisFails,     \* a Redis command may return an error
    EventFails,     \* a call to event-service may fail, applied or not
    Releases,       \* orders may be cancelled
    SaleCloses      \* sale_end or end_date may pass

ASSUME ConstantsAssumption ==
    /\ InitialQuantity \in Nat
    /\ Quantities \subseteq Nat
    /\ MaxQty \in Nat \ {0}
    /\ NoKey \notin Int
    /\ NoRequest \notin Requests
    /\ {ColdStart, KeyLoss, RedisFails, EventFails, Releases, SaleCloses}
            \subseteq BOOLEAN

VARIABLES
    stock,      \* Redis "ticket_stock:<id>"
    quantity,   \* ticket_types.quantity
    sold,       \* ticket_types.sold
    onSale,     \* ticket_types.is_active, within sale_start .. sale_end
    published,  \* events.status = "published"
    pc,         \* where each request is
    qty,        \* the quantity each request asked for
    seen,       \* the availability the leader of the flight read
    flight,     \* leader of the singleflight call in progress, or NoRequest
    opc,        \* where each organizer's request is
    oseen,      \* the availability it computed from the row
    granted     \* history: units ReserveTicketStock granted and no release returned

dbVars  == <<quantity, sold, onSale, published>>
orgVars == <<opc, oseen>>
vars == <<stock, dbVars, pc, qty, seen, flight, orgVars, granted>>

\* The program points of ReserveTicketStock and ReleaseTicketStock.
PC == {"idle",      \* not started
       "lua",       \* about to run reserveStockLua
       "load",      \* about to call sf.Do
       "wait",      \* in sf.Do, behind another request's flight
       "get",       \* leader: about to GET the ticket type
       "set",       \* leader: about to SET the key
       "retry",     \* about to run reserveStockLua again
       "direct",    \* about to call ReserveTickets because the load failed
       "directing", \* its handler passed the checks, about to UPDATE
       "book",      \* granted by Redis, about to call ReserveTickets
       "booking",   \* its handler passed the checks, about to UPDATE
       "held",      \* granted: an order holds the units
       "refused",   \* answered with an error
       "unbook",    \* released in Redis, about to call ReleaseTickets
       "released"}  \* the units were given back

TypeOK ==
    /\ stock \in Nat \cup {NoKey}
    /\ quantity \in Nat
    /\ sold \in Nat
    /\ onSale \in BOOLEAN
    /\ published \in BOOLEAN
    /\ pc \in [Requests -> PC]
    /\ qty \in [Requests -> 1..MaxQty]
    /\ seen \in Nat
    /\ flight \in Requests \cup {NoRequest}
    /\ opc \in [Organizers -> {"idle", "prewarm", "set"}]
    /\ oseen \in [Organizers -> Nat]
    /\ granted \in Int

-----------------------------------------------------------------------------
\* CreateTicketType inserted the row and SET the key; ColdStart: Redis lost it.
Init ==
    /\ stock = IF ColdStart THEN NoKey ELSE InitialQuantity
    /\ quantity = InitialQuantity
    /\ sold = 0
    /\ onSale = TRUE
    /\ published = TRUE
    /\ pc = [r \in Requests |-> "idle"]
    /\ qty = [r \in Requests |-> 1]
    /\ seen = 0
    /\ flight = NoRequest
    /\ opc = [o \in Organizers |-> "idle"]
    /\ oseen = [o \in Organizers |-> 0]
    /\ granted = 0

Goto(r, l) == pc' = [pc EXCEPT ![r] = l]
At(r, l) == pc[r] = l

\* avail := quantity - sold, not below zero.
Avail == IF quantity > sold THEN quantity - sold ELSE 0

\* Mutant: IncrementTicketSold without AND (quantity - sold) >= $2.
BookableUnguarded(q) == quantity - sold >= 0

\* The condition of IncrementTicketSold.
Bookable(q) == quantity - sold >= q

\* The condition of reserveStockLua.
Covers(q) == stock # NoKey /\ stock >= q

-----------------------------------------------------------------------------
(***************************************************************************)
(* ReserveTicketStock                                                      *)
(***************************************************************************)
\* CreateOrder calls ReserveTicketStock with the quantity of the request.
Begin(r, q) ==
    /\ At(r, "idle")
    /\ Goto(r, "lua")
    /\ qty' = [qty EXCEPT ![r] = q]
    /\ UNCHANGED <<stock, dbVars, seen, flight, orgVars, granted>>

\* Mutant: DECRBY without comparing the stock first.
TakeUnchecked(r) ==
    /\ stock # NoKey
    /\ stock' = stock - qty[r]
    /\ granted' = granted + qty[r]
    /\ Goto(r, "book")

\* What reserveStockLua does when it returns 1: the grant is decided here.
Take(r) ==
    /\ Covers(qty[r])
    /\ stock' = stock - qty[r]
    /\ granted' = granted + qty[r]
    /\ Goto(r, "book")

\* The first run of the script: 1 grants, 0 refuses, -1 (no key) goes on to the load.
ReserveLua(r) ==
    /\ At(r, "lua")
    /\ \/ Take(r)
       \/ /\ ~Covers(qty[r])
          /\ Goto(r, IF stock = NoKey THEN "load" ELSE "refused")
          /\ UNCHANGED <<stock, granted>>
    /\ UNCHANGED <<dbVars, qty, seen, flight, orgVars>>

\* The script's answer is an error, and the decrement took effect or not.
ReserveLuaError(r) ==
    /\ RedisFails
    /\ At(r, "lua")
    /\ Goto(r, "load")
    /\ \/ UNCHANGED stock
       \/ Covers(qty[r]) /\ stock' = stock - qty[r]
    /\ UNCHANGED <<dbVars, qty, seen, flight, orgVars, granted>>

\* Mutant: no singleflight, every caller loads for itself.
JoinFlightAlone(r) ==
    /\ At(r, "load")
    /\ flight' = r
    /\ Goto(r, "get")
    /\ UNCHANGED <<stock, dbVars, qty, seen, orgVars, granted>>

\* sf.Do: the first caller leads, the others wait for its result.
JoinFlight(r) ==
    /\ At(r, "load")
    /\ IF flight = NoRequest
       THEN flight' = r /\ Goto(r, "get")
       ELSE UNCHANGED flight /\ Goto(r, "wait")
    /\ UNCHANGED <<stock, dbVars, qty, seen, orgVars, granted>>

\* The flight ends: its key is dropped and everybody in it gets the result.
Land(r, next) ==
    /\ flight' = NoRequest
    /\ pc' = [s \in Requests |-> IF s = r \/ At(s, "wait") THEN next[s] ELSE pc[s]]

\* GetTicketType answers: the leader computes avail from the row it read.
LoadRead(r) ==
    /\ At(r, "get")
    /\ onSale
    /\ seen' = Avail
    /\ Goto(r, "set")
    /\ UNCHANGED <<stock, dbVars, qty, flight, orgVars, granted>>

\* Mutant: a failed load leaves the key of the flight behind.
LoadFailKeepsFlight(r) ==
    /\ At(r, "get")
    /\ EventFails \/ ~onSale
    /\ Goto(r, "direct")
    /\ UNCHANGED <<stock, dbVars, qty, seen, flight, orgVars, granted>>

\* GetTicketType fails, the leader's context is cancelled, or the type is not
\* on sale: every caller of the flight falls back to a direct ReserveTickets.
LoadFail(r) ==
    /\ At(r, "get")
    /\ EventFails \/ ~onSale
    /\ Land(r, [s \in Requests |-> "direct"])
    /\ UNCHANGED <<stock, dbVars, qty, seen, orgVars, granted>>

\* The leader SETs the key to what it read, whatever is there by now (the error
\* of SET is ignored), and every caller of the flight compares its quantity.
\* A caller that joins between the SET and the end of the flight does what one
\* that joined before the SET does, so the two are one step.
LoadSet(r) ==
    /\ At(r, "set")
    /\ stock' = seen \/ (RedisFails /\ UNCHANGED stock)
    /\ Land(r, [s \in Requests |-> IF seen < qty[s] THEN "refused" ELSE "retry"])
    /\ UNCHANGED <<dbVars, qty, seen, orgVars, granted>>

\* The script again: anything but 1 is ErrSoldOut.
RetryLua(r) ==
    /\ At(r, "retry")
    /\ \/ Take(r)
       \/ /\ ~Covers(qty[r])
          /\ Goto(r, "refused")
          /\ UNCHANGED <<stock, granted>>
    /\ UNCHANGED <<dbVars, qty, seen, flight, orgVars>>

\* The second run of the script returns an error, applied or not.
RetryLuaError(r) ==
    /\ RedisFails
    /\ At(r, "retry")
    /\ Goto(r, "refused")
    /\ \/ UNCHANGED stock
       \/ Covers(qty[r]) /\ stock' = stock - qty[r]
    /\ UNCHANGED <<dbVars, qty, seen, flight, orgVars, granted>>

\* The handler of ReserveTickets reads the type and then its event, whose status is
\* not looked at if that read fails.  What it refuses Redis granted stays granted.
CheckSale(r) ==
    /\ pc[r] \in {"book", "direct"}
    /\ \/ /\ onSale /\ (published \/ EventFails)
          /\ Goto(r, IF At(r, "book") THEN "booking" ELSE "directing")
       \/ /\ ~onSale \/ ~published
          /\ Goto(r, IF At(r, "book") THEN "held" ELSE "refused")
    /\ UNCHANGED <<stock, dbVars, qty, seen, flight, orgVars, granted>>

\* Mutant: event-service's refusal fails the order, but the units stay taken.
BookRefuses(r) ==
    /\ At(r, "booking")
    /\ IF Bookable(qty[r])
       THEN sold' = sold + qty[r] /\ Goto(r, "held")
       ELSE sold' = sold /\ Goto(r, "refused")
    /\ UNCHANGED <<stock, quantity, onSale, published, qty, seen, flight, orgVars, granted>>

\* IncrementTicketSold for units Redis granted, whatever became of the sale since
\* the checks.  A refusal is ignored by the caller: the order is created either way.
Book(r) ==
    /\ At(r, "booking")
    /\ sold' = IF Bookable(qty[r]) THEN sold + qty[r] ELSE sold
    /\ Goto(r, "held")
    /\ UNCHANGED <<stock, quantity, onSale, published, qty, seen, flight, orgVars, granted>>

\* The call or its UPDATE fails; that error is ignored as well.
BookLost(r) ==
    /\ EventFails
    /\ pc[r] \in {"book", "booking"}
    /\ Goto(r, "held")
    /\ UNCHANGED <<stock, dbVars, qty, seen, flight, orgVars, granted>>

\* After a failed load the database alone decides, and Redis is not told.
Direct(r) ==
    /\ At(r, "directing")
    /\ IF Bookable(qty[r])
       THEN /\ sold' = sold + qty[r]
            /\ granted' = granted + qty[r]
            /\ Goto(r, "held")
       ELSE /\ UNCHANGED <<sold, granted>>
            /\ Goto(r, "refused")
    /\ UNCHANGED <<stock, quantity, onSale, published, qty, seen, flight, orgVars>>

\* The direct call fails: applied with its answer lost, or never applied.
DirectError(r) ==
    /\ EventFails
    /\ pc[r] \in {"direct", "directing"}
    /\ \/ UNCHANGED sold
       \/ At(r, "directing") /\ Bookable(qty[r]) /\ sold' = sold + qty[r]
    /\ Goto(r, "refused")
    /\ UNCHANGED <<stock, quantity, onSale, published, qty, seen, flight, orgVars, granted>>

-----------------------------------------------------------------------------
(***************************************************************************)
(* ReleaseTicketStock                                                      *)
(***************************************************************************)
\* Mutant: only the database learns of the release.
ReleaseLuaSkipped(r) ==
    /\ Releases
    /\ At(r, "held")
    /\ granted' = granted - qty[r]
    /\ Goto(r, "unbook")
    /\ UNCHANGED <<stock, dbVars, qty, seen, flight, orgVars>>

\* releaseStockLua adds the units back if the key exists; its error is ignored.
ReleaseLua(r) ==
    /\ Releases
    /\ At(r, "held")
    /\ \/ stock # NoKey /\ stock' = stock + qty[r]
       \/ (stock = NoKey \/ RedisFails) /\ UNCHANGED stock
    /\ granted' = granted - qty[r]
    /\ Goto(r, "unbook")
    /\ UNCHANGED <<dbVars, qty, seen, flight, orgVars>>

\* event-service runs ReleaseTickets (DecrementTicketSold), ignored if refused.
Unbook(r) ==
    /\ At(r, "unbook")
    /\ sold' = IF sold >= qty[r] THEN sold - qty[r] ELSE sold
    /\ Goto(r, "released")
    /\ UNCHANGED <<stock, quantity, onSale, published, qty, seen, flight, orgVars, granted>>

\* The call is lost, and so are the units in the database.
UnbookLost(r) ==
    /\ EventFails
    /\ At(r, "unbook")
    /\ Goto(r, "released")
    /\ UNCHANGED <<stock, dbVars, qty, seen, flight, orgVars, granted>>

-----------------------------------------------------------------------------
(***************************************************************************)
(* event-service: the organizer's edits, and what happens by itself        *)
(***************************************************************************)
\* UpdateTicketType: UPDATE ... RETURNING gives the row; the SET comes later,
\* with 0 when the edited sale_end has passed.
UpdateTicketType(o, n, open) ==
    /\ opc[o] = "idle"
    /\ quantity' = n
    /\ onSale' = open
    /\ oseen' = [oseen EXCEPT ![o] = IF open /\ n > sold THEN n - sold ELSE 0]
    /\ opc' = [opc EXCEPT ![o] = "set"]
    /\ UNCHANGED <<stock, sold, published, pc, qty, seen, flight, granted>>

\* UpdateEvent: the status is stored; only a published event is prewarmed.
UpdateEvent(o, pub) ==
    /\ opc[o] = "idle"
    /\ published' = pub
    /\ opc' = [opc EXCEPT ![o] = IF pub THEN "prewarm" ELSE "idle"]
    /\ UNCHANGED <<stock, quantity, sold, onSale, pc, qty, seen, flight, oseen, granted>>

\* PrewarmTicketStock lists the ticket types (an error ends it) ...
PrewarmRead(o) ==
    /\ opc[o] = "prewarm"
    /\ oseen' = [oseen EXCEPT ![o] = Avail]
    /\ opc' = [opc EXCEPT ![o] = "set"]
    /\ UNCHANGED <<stock, dbVars, pc, qty, seen, flight, granted>>

\* ... and it, like UpdateTicketType, overwrites the key with what it computed.
OrganizerSet(o) ==
    /\ opc[o] = "set"
    /\ stock' = oseen[o] \/ (RedisFails /\ UNCHANGED stock)
    /\ opc' = [opc EXCEPT ![o] = "idle"]
    /\ UNCHANGED <<dbVars, pc, qty, seen, flight, oseen, granted>>

\* sale_end passes.
SaleEnds ==
    /\ SaleCloses
    /\ onSale
    /\ onSale' = FALSE
    /\ UNCHANGED <<stock, quantity, sold, published, pc, qty, seen, flight, orgVars, granted>>

\* Redis is restarted or evicts the key.
LoseKey ==
    /\ KeyLoss
    /\ stock # NoKey
    /\ stock' = NoKey
    /\ UNCHANGED <<dbVars, pc, qty, seen, flight, orgVars, granted>>

-----------------------------------------------------------------------------
\* The steps of a purchase once it began: they end in "held" or "refused".
Reserve(r) ==
    \/ ReserveLua(r) \/ ReserveLuaError(r) \/ JoinFlight(r)
    \/ LoadRead(r) \/ LoadFail(r) \/ LoadSet(r)
    \/ RetryLua(r) \/ RetryLuaError(r) \/ CheckSale(r)
    \/ Book(r) \/ BookLost(r) \/ Direct(r) \/ DirectError(r)

Release(r) == ReleaseLua(r) \/ Unbook(r) \/ UnbookLost(r)

Organizer(o) ==
    \/ \E n \in Quantities, open \in BOOLEAN : UpdateTicketType(o, n, open)
    \/ \E pub \in BOOLEAN : UpdateEvent(o, pub)
    \/ PrewarmRead(o) \/ OrganizerSet(o)

Next ==
    \/ \E r \in Requests : (\E q \in 1..MaxQty : Begin(r, q))
                           \/ Reserve(r) \/ Release(r)
    \/ \E o \in Organizers : Organizer(o)
    \/ SaleEnds \/ LoseKey

\* Go runs every ready goroutine, and a call to Redis or event-service returns
\* or times out (5 s): a purchase that began is stepped until it is answered,
\* a release that began is finished.
Fairness == \A r \in Requests : WF_vars(Reserve(r)) /\ WF_vars(At(r, "unbook") /\ Release(r))

Spec == Init /\ [][Next]_vars /\ Fairness

-----------------------------------------------------------------------------
(***************************************************************************)
(* Properties                                                              *)
(***************************************************************************)
Holding == {r \in Requests : pc[r] \in {"book", "booking", "held"}}
HeldUnits == {u \in Holding \X (1..MaxQty) : u[2] <= qty[u[1]]}

\* The history variable means what it says: it counts the units of the requests
\* that are between their grant and their release.
GrantedIsHeld == granted = Cardinality(HeldUnits)

\* README 3.1, "Zero Overselling Guarantee": orders never hold more units than
\* the ticket type has.  It depends on both stores and on every request.
NoOversell == granted <= quantity

\* While the key is never overwritten, the Redis counter and the units held by
\* orders add up to the quantity: no unit is lost or granted twice, whatever
\* the order of reservations and releases.
StockLedger == stock # NoKey => stock + granted = quantity

\* To the orders the stock is a BoxOffice: a purchase gets units only out of what is
\* left, and gives back what it got, once, although the script's grant, the booking and
\* the release are calls to two services that fail and overlap.  It holds while the key
\* is in place.
Office == INSTANCE BoxOffice WITH
    Holders <- Requests, Total <- InitialQuantity, left <- stock,
    holds <- [r \in Requests |-> IF r \in Holding THEN qty[r] ELSE 0]
SellsAsPromised == Office!Spec

\* The database by itself never sells out of nothing: bookings arrive from the
\* script's grants and from the fallback at the same time, calls are repeated or
\* lost, an organizer may lower quantity below sold; yet sold only ever grows to
\* a value within the quantity of that moment.
SoldGrowsWithinQuantity == [][sold' > sold => sold' <= quantity']_vars

\* singleflight: the leader is the one request that loads, so a waiter always
\* has somebody who will wake it, and one upstream query is in progress at most
\* (README 3.1, "Anti-Cache Stampede").
FlightHasLeader ==
    /\ \A r \in Requests : pc[r] \in {"get", "set"} <=> flight = r
    /\ (\E r \in Requests : At(r, "wait")) => flight # NoRequest

\* Every reservation is answered: nobody stays behind a flight for ever.
EveryReservationAnswered ==
    \A r \in Requests : At(r, "lua") ~> pc[r] \in {"held", "refused"}
=============================================================================
