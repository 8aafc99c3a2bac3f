---------------------------- MODULE GateCheckin ----------------------------
(***************************************************************************)
(* Check-in of tickets: the status of a ticket is kept by ticket-service   *)
(* (central) and copied to gate-service's own table local_tickets.  The    *)
(* copy is fed by the topic ticket.created, by the answer ticket-service   *)
(* gives to each scan, and by the scans themselves; the topic              *)
(* ticket.scanned carries a check-in back.                                 *)
(*                                                                         *)
(* A process of Scanners is a goroutine of gate-service that handles POST  *)
(* .../scan; its HTTP request, each statement to the database and the      *)
(* publication are separate steps.  A topic is the set of the tickets      *)
(* whose message is not consumed yet: messages of different tickets are on *)
(* different keys, so no order is kept between them.                       *)
(***************************************************************************)
EXTENDS Naturals, FiniteSets

CONSTANTS
    Tickets,    \* tickets that may be issued
    Scanners,   \* goroutines that handle scans
    Events,     \* events tickets are sold for
    EventOf,    \* the event of each ticket
    NoEvent     \* the scan does not say which event it is for

ASSUME GateAssumption ==
    /\ Tickets # {}
    /\ EventOf \in [Tickets -> Events]
    /\ NoEvent \notin Events

VARIABLES
    central,    \* tickets.status in ticket-service
    local,      \* local_tickets.status in gate-service
    created,    \* topic ticket.created
    scanned,    \* topic ticket.scanned
    pc,         \* where each scan is
    ticket,     \* the ticket whose code was scanned
    event,      \* the event the gate is for
    fetched,    \* the status ticket-service answered
    accepted,   \* history: successful check-in updates per ticket
    calm        \* the environment: no call fails and nothing crashes any more

scanVars == <<pc, ticket, event, fetched>>
vars == <<central, local, created, scanned, scanVars, accepted, calm>>

Closed == {"CHECKED_IN", "USED"}

TypeOK ==
    /\ central \in [Tickets -> {"none", "ACTIVE", "USED"}]
    /\ local \in [Tickets -> {"none", "ACTIVE"} \cup Closed]
    /\ created \subseteq Tickets
    /\ scanned \subseteq Tickets
    /\ pc \in [Scanners -> {"idle", "fetch", "sync", "lookup", "checkin", "publish"}]
    /\ ticket \in [Scanners -> Tickets]
    /\ event \in [Scanners -> Events \cup {NoEvent}]
    /\ fetched \in [Scanners -> {"ACTIVE", "USED"}]
    /\ accepted \in [Tickets -> Nat]
    /\ calm \in BOOLEAN

Init ==
    /\ central = [t \in Tickets |-> "none"]
    /\ local = [t \in Tickets |-> "none"]
    /\ created = {}
    /\ scanned = {}
    /\ pc = [s \in Scanners |-> "idle"]
    /\ ticket = [s \in Scanners |-> CHOOSE t \in Tickets : TRUE]
    /\ event = [s \in Scanners |-> NoEvent]
    /\ fetched = [s \in Scanners |-> "ACTIVE"]
    /\ accepted = [t \in Tickets |-> 0]
    /\ calm = FALSE

Goto(s, l) == pc' = [pc EXCEPT ![s] = l]

-----------------------------------------------------------------------------
(***************************************************************************)
(* ticket-service                                                          *)
(***************************************************************************)
\* HandlePaymentSuccess creates a ticket and publishes ticket.created; the
\* message is lost when the publication fails or the consumer starts after it.
Issue(t) ==
    /\ central[t] = "none"
    /\ central' = [central EXCEPT ![t] = "ACTIVE"]
    /\ \/ created' = created \cup {t}
       \/ ~calm /\ UNCHANGED created
    /\ UNCHANGED <<local, scanned, scanVars, accepted, calm>>

\* ticket.scanned: the ticket becomes USED.  Errors are swallowed, so the
\* message is marked all the same; unmarked messages are delivered again.
ConsumeScanned(t) ==
    /\ t \in scanned
    /\ \/ central' = [central EXCEPT ![t] = "USED"]
       \/ ~calm /\ UNCHANGED central
    /\ \/ scanned' = scanned \ {t}
       \/ UNCHANGED scanned
    /\ UNCHANGED <<local, created, scanVars, accepted, calm>>

-----------------------------------------------------------------------------
(***************************************************************************)
(* gate-service                                                            *)
(***************************************************************************)
\* Mutant: UpdateLocalTicketStatus without AND status NOT IN (...).
UpdatedUnguarded(t, status) == IF local[t] = "none" THEN "none" ELSE status

\* UpdateLocalTicketStatus: no row is updated once the ticket is closed.
Updated(t, status) == IF local[t] \in {"none"} \cup Closed THEN local[t] ELSE status

\* SyncTicket: INSERT, and UPDATE when the row is there.  Rows are never
\* deleted, so what the INSERT found still holds when the UPDATE runs and the
\* two statements are one step.
SyncTicket(t, status) ==
    local' = [local EXCEPT ![t] = IF local[t] = "none" THEN status ELSE Updated(t, status)]

\* ticket.created, with the status a ticket is born with; maybe redelivered.
ConsumeCreated(t) ==
    /\ t \in created
    /\ SyncTicket(t, "ACTIVE") \/ (~calm /\ UNCHANGED local)
    /\ \/ created' = created \ {t}
       \/ UNCHANGED created
    /\ UNCHANGED <<central, scanned, scanVars, accepted, calm>>

\* POST .../scan with the code of a ticket (issued or not), for an event or not.
Scan(s, t, e) ==
    /\ pc[s] = "idle"
    /\ Goto(s, "fetch")
    /\ ticket' = [ticket EXCEPT ![s] = t]
    /\ event' = [event EXCEPT ![s] = e]
    /\ UNCHANGED <<central, local, created, scanned, fetched, accepted, calm>>

\* Mutant: the event of the ticket is not compared.
WrongEventIgnored(s) == FALSE

\* event_id is optional: a scan without one (NoEvent) is never at the wrong gate.
WrongEvent(s) == event[s] \notin {NoEvent, EventOf[ticket[s]]}

\* ticket-service answers with the ticket; another event's ticket is refused.
Fetch(s) ==
    /\ pc[s] = "fetch"
    /\ central[ticket[s]] # "none"
    /\ IF WrongEvent(s)
       THEN Goto(s, "idle") /\ UNCHANGED fetched
       ELSE Goto(s, "sync") /\ fetched' = [fetched EXCEPT ![s] = central[ticket[s]]]
    /\ UNCHANGED <<central, local, created, scanned, ticket, event, accepted, calm>>

\* No such ticket, no answer or no 200: the scan goes on with the local copy.
FetchNothing(s) ==
    /\ pc[s] = "fetch"
    /\ ~calm \/ central[ticket[s]] = "none"
    /\ Goto(s, "lookup")
    /\ UNCHANGED <<central, local, created, scanned, ticket, event, fetched, accepted, calm>>

\* Mutant: the answer is not copied.
SyncSkipped(s) ==
    /\ pc[s] = "sync"
    /\ Goto(s, "lookup")
    /\ UNCHANGED <<central, local, created, scanned, ticket, event, fetched, accepted, calm>>

\* The answer, possibly out of date by now, is copied (errors are ignored).
Sync(s) ==
    /\ pc[s] = "sync"
    /\ SyncTicket(ticket[s], fetched[s]) \/ (~calm /\ UNCHANGED local)
    /\ Goto(s, "lookup")
    /\ UNCHANGED <<central, created, scanned, ticket, event, fetched, accepted, calm>>

\* The local row exists, is for this event and is not closed.
Passes(s) == ~WrongEvent(s) /\ local[ticket[s]] = "ACTIVE"

Lookup(s) ==
    /\ pc[s] = "lookup"
    /\ \/ Passes(s) /\ Goto(s, "checkin")
       \/ (~Passes(s) \/ ~calm) /\ Goto(s, "idle")
    /\ UNCHANGED <<central, local, created, scanned, ticket, event, fetched, accepted, calm>>

\* Mutant: the check-in trusts the lookup and updates any row.
CheckInUnguarded(s) ==
    /\ pc[s] = "checkin"
    /\ local' = [local EXCEPT ![ticket[s]] = "CHECKED_IN"]
    /\ accepted' = [accepted EXCEPT ![ticket[s]] = @ + 1]
    /\ Goto(s, "publish")
    /\ UNCHANGED <<central, created, scanned, ticket, event, fetched, calm>>

\* The guarded UPDATE decides between scans of the same ticket.
CheckIn(s) ==
    /\ pc[s] = "checkin"
    /\ local' = [local EXCEPT ![ticket[s]] = Updated(ticket[s], "CHECKED_IN")]
    /\ IF local[ticket[s]] = "ACTIVE"
       THEN Goto(s, "publish") /\ accepted' = [accepted EXCEPT ![ticket[s]] = @ + 1]
       ELSE Goto(s, "idle") /\ UNCHANGED accepted
    /\ UNCHANGED <<central, created, scanned, ticket, event, fetched, calm>>

\* The UPDATE returns an error, and took effect or not: the scan is refused.
CheckInError(s) ==
    /\ ~calm
    /\ pc[s] = "checkin"
    /\ \/ UNCHANGED local
       \/ local' = [local EXCEPT ![ticket[s]] = Updated(ticket[s], "CHECKED_IN")]
    /\ Goto(s, "idle")
    /\ UNCHANGED <<central, created, scanned, ticket, event, fetched, accepted, calm>>

\* Mutant: the check-in is not published.
PublishSkipped(s) ==
    /\ pc[s] = "publish"
    /\ Goto(s, "idle")
    /\ UNCHANGED <<central, local, created, scanned, ticket, event, fetched, accepted, calm>>

\* ticket.scanned is published, or not; the visitor is let in either way.
Publish(s) ==
    /\ pc[s] = "publish"
    /\ \/ scanned' = scanned \cup {ticket[s]}
       \/ ~calm /\ UNCHANGED scanned
    /\ Goto(s, "idle")
    /\ UNCHANGED <<central, local, created, ticket, event, fetched, accepted, calm>>

\* gate-service stops: its goroutines are gone, its table stays.
Crash ==
    /\ ~calm
    /\ pc' = [s \in Scanners |-> "idle"]
    /\ UNCHANGED <<central, local, created, scanned, ticket, event, fetched, accepted, calm>>

\* From some moment on ticket-service answers, the brokers take every message,
\* the statements succeed and the process stays up.
CalmDown ==
    /\ ~calm
    /\ calm' = TRUE
    /\ UNCHANGED <<central, local, created, scanned, scanVars, accepted>>

-----------------------------------------------------------------------------
ScanStep(s) ==
    \/ Fetch(s) \/ FetchNothing(s) \/ Sync(s) \/ Lookup(s)
    \/ CheckIn(s) \/ CheckInError(s) \/ Publish(s)

Next ==
    \/ \E t \in Tickets : Issue(t) \/ ConsumeScanned(t) \/ ConsumeCreated(t)
    \/ \E s \in Scanners : \/ \E t \in Tickets, e \in Events \cup {NoEvent} : Scan(s, t, e)
                           \/ ScanStep(s)
    \/ Crash \/ CalmDown

\* A scan that began is carried on; a consumer that is up marks a message it
\* handled in the end, however often it is redelivered before.
Fairness ==
    /\ \A s \in Scanners : WF_vars(ScanStep(s))
    /\ \A t \in Tickets : WF_vars(ConsumeScanned(t) /\ t \notin scanned')

Spec == Init /\ [][Next]_vars /\ Fairness

-----------------------------------------------------------------------------
(***************************************************************************)
(* Properties                                                              *)
(***************************************************************************)
\* README 2, gate-service: "double-entry prevention".  Of all scans of a
\* ticket, at any gates and through any delay of the copies, one is accepted.
NoDoubleEntry == \A t \in Tickets : accepted[t] <= 1

\* A ticket opens the gate only if ticket-service issued it, although the scan
\* may be decided from the local copy alone.
OnlyIssuedEnter == \A t \in Tickets : accepted[t] > 0 => central[t] # "none"

\* ticket-service says USED only of a ticket the gate accepted, so that a status
\* it answers to a scan can never close a ticket nobody has used.
UsedMeansEntered ==
    /\ \A t \in Tickets : central[t] = "USED" => accepted[t] > 0
    /\ \A t \in Tickets : local[t] # "USED" \/ accepted[t] > 0

\* A late or redelivered ticket.created and a stale answer never reopen a
\* ticket that was checked in.
ClosedStaysClosed ==
    [][\A t \in Tickets : local[t] \in Closed => local'[t] \in Closed]_vars

\* A scan that reaches the update and named an event named the ticket's own,
\* whether ticket-service or the local copy decided that.  One that named none is
\* not checked (gate_service.go:85, 123) and may enter at any gate.
RightGate ==
    \A s \in Scanners :
        pc[s] \in {"checkin", "publish"} => event[s] \in {NoEvent, EventOf[ticket[s]]}

\* Once the failures are over, a check-in that is about to be published makes
\* the ticket USED in ticket-service, however many messages were lost before.
EntryIsReported ==
    \A s \in Scanners, t \in Tickets :
        (calm /\ pc[s] = "publish" /\ ticket[s] = t) ~> central[t] = "USED"

\* Once the failures are over, scanning an issued ticket that is not closed, at
\* its own gate, gets it checked in, by this scan or by another one, even when
\* ticket.created was lost.
ValidTicketEnters ==
    \A s \in Scanners, t \in Tickets :
        (/\ calm /\ pc[s] = "fetch" /\ ticket[s] = t /\ ~WrongEvent(s)
         /\ central[t] # "none" /\ local[t] \notin Closed)
            ~> accepted[t] > 0

\* The two services implement the promise of AdmitOnce.
Promise == INSTANCE AdmitOnce WITH
    issued   <- {t \in Tickets : central[t] # "none"},
    accepted <- accepted,
    reported <- {t \in Tickets : central[t] = "USED"}
AdmitsOnce == Promise!Spec
=============================================================================
