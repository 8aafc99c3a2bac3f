----------------------------- MODULE EventCache -----------------------------
(***************************************************************************)
(* The read cache of event-service: rows of the table events, and their    *)
(* copies in Redis under event:<id or slug> and                            *)
(* events:page:<n>:perpage:<m>.  A reader copies what it has read from the *)
(* database; a writer changes a row first and deletes copies afterwards.   *)
(* A process of Procs is the goroutine of a request; its steps are single  *)
(* statements and single Redis commands.                                   *)
(***************************************************************************)
EXTENDS Naturals, FiniteSets

CONSTANTS
    Procs,          \* requests in progress
    Events,         \* ids of events
    Pages,          \* pages asked for; each is long enough for all events
    MaxVersion,     \* bound: writes to one event
    Absent          \* no copy, or no row

VARIABLES
    version,        \* how often each event was written; 0: not created yet
    status,         \* its status
    copy,           \* what Redis holds under each key
    req,            \* the requests in progress
    late            \* keys whose copy was filled too late, or not deleted

rows == <<version, status>>
vars == <<version, status, copy, req, late>>

Statuses == {"draft", "published"}

\* UpdateEvent gives the event a new slug each time, so a slug names one version.
\* A copy is kept under the path as the reader spelt it, and uuid.Parse accepts an id
\* in other spellings (capitals, a urn prefix) than the one the writers delete.
IdKey(e) == <<"id", e>>
PageKey(g) == <<"page", g>>
IdKeys == {IdKey(e) : e \in Events}
SpeltKeys == {<<"spelt", e>> : e \in Events}
SlugKeys == {<<"slug", e, v>> : e \in Events, v \in 1 .. MaxVersion}
PageKeys == {PageKey(g) : g \in Pages}
Keys == IdKeys \cup SpeltKeys \cup SlugKeys \cup PageKeys

EventCopies == [version : 1 .. MaxVersion, status : Statuses]
ListCopies == [events : SUBSET (Events \X (1 .. MaxVersion)), total : 0 .. Cardinality(Events)]
Copies == EventCopies \cup ListCopies

ASSUME CacheAssumption ==
    /\ IsFiniteSet(Events)
    /\ MaxVersion \in Nat \ {0}
    /\ Absent \notin Keys

Exists(e) == status[e] \in Statuses

\* GetEventByID, GetEventBySlug, ListEvents and CountPublishedEvents.
EventRow(e) == IF Exists(e) THEN [version |-> version[e], status |-> status[e]] ELSE Absent
SlugRow(e, v) == IF version[e] = v THEN EventRow(e) ELSE Absent
Published == {e \in Events : status[e] = "published"}
Listed == {<<e, version[e]>> : e \in Published}
ListNow == [events |-> Listed, total |-> Cardinality(Published)]

\* What a reader of the database would find now under a key.
Current(k) ==
    IF k \in IdKeys \cup SpeltKeys THEN EventRow(k[2])
    ELSE IF k \in SlugKeys THEN SlugRow(k[2], k[3])
    ELSE ListNow

PC == {"idle", "count", "set", "delete", "scan", "sweep"}

Idle == [pc |-> "idle", key |-> Absent, got |-> Absent, todo |-> {}]

Requests == [pc : PC, key : Keys \cup {Absent}, got : Copies \cup {Absent},
             todo : SUBSET PageKeys]

TypeOK ==
    /\ version \in [Events -> 0 .. MaxVersion]
    /\ status \in [Events -> Statuses \cup {"none", "deleted"}]
    /\ \A e \in Events : (version[e] = 0) <=> (status[e] = "none")
    /\ copy \in [Keys -> Copies \cup {Absent}]
    /\ req \in [Procs -> Requests]
    /\ late \subseteq Keys

Init ==
    /\ version = [e \in Events |-> 0]
    /\ status = [e \in Events |-> "none"]
    /\ copy = [k \in Keys |-> Absent]
    /\ req = [p \in Procs |-> Idle]
    /\ late = {}

-----------------------------------------------------------------------------
At(p, where) == req[p].pc = where
Return(p) == req' = [req EXCEPT ![p] = Idle]

\* Redis holds c under k from now on; it is late if the rows say otherwise.
Store(k, c) ==
    /\ copy' = [copy EXCEPT ![k] = c]
    /\ late' = IF c = Current(k) THEN late \ {k} ELSE late \cup {k}

Remove(k) ==
    /\ copy' = [copy EXCEPT ![k] = Absent]
    /\ late' = late \ {k}

\* Copies the request has still to delete, because it changed their rows.
Owes(p, k) ==
    \/ At(p, "delete") /\ (k = req[p].key \/ k \in PageKeys)
    \/ At(p, "scan") /\ k \in PageKeys
    \/ At(p, "sweep") /\ k \in req[p].todo

-----------------------------------------------------------------------------
(* GetEvent: a copy found under the key is the answer and nothing changes; *)
(* without one, or when Redis does not answer, the row is read.  A missing *)
(* row is answered and not remembered.                                     *)

GetEvent(p, k) ==
    /\ At(p, "idle")
    /\ Current(k) # Absent
    /\ req' = [req EXCEPT ![p] = [Idle EXCEPT !.pc = "set", !.key = k, !.got = Current(k)]]
    /\ UNCHANGED <<rows, copy, late>>

\* ListEvents: the page and the total come from two statements.
ListEvents(p, k) ==
    /\ At(p, "idle")
    /\ req' = [req EXCEPT ![p] = [Idle EXCEPT !.pc = "count", !.key = k,
                                              !.got = [events |-> Listed, total |-> 0]]]
    /\ UNCHANGED <<rows, copy, late>>

CountPublishedEvents(p) ==
    /\ At(p, "count")
    /\ req' = [req EXCEPT ![p] = [Idle EXCEPT !.pc = "set", !.key = req[p].key,
                    !.got = [events |-> req[p].got.events, total |-> Cardinality(Published)]]]
    /\ UNCHANGED <<rows, copy, late>>

\* SET with a life of five minutes; its error is ignored.
SetCopy(p) ==
    /\ At(p, "set")
    /\ Store(req[p].key, req[p].got)
    /\ Return(p)
    /\ UNCHANGED rows

-----------------------------------------------------------------------------
(* The writers.  Each changes the row and then calls invalidateEventCache; *)
(* CreateEvent does so without an id.                                      *)

Invalidate(p, e) ==
    req' = [req EXCEPT ![p] = [Idle EXCEPT !.pc = "delete", !.key = IdKey(e)]]

CreateEvent(p, e, s) ==
    /\ At(p, "idle")
    /\ status[e] = "none"
    /\ version' = [version EXCEPT ![e] = 1]
    /\ status' = [status EXCEPT ![e] = s]
    /\ req' = [req EXCEPT ![p] = [Idle EXCEPT !.pc = "scan"]]
    /\ UNCHANGED <<copy, late>>

\* Mutant: an edit that empties the list pages and forgets the event's own copy.
UpdateEventPagesOnly(p, e, s) ==
    /\ At(p, "idle")
    /\ Exists(e) /\ version[e] < MaxVersion
    /\ version' = [version EXCEPT ![e] = @ + 1]
    /\ status' = [status EXCEPT ![e] = s]
    /\ req' = [req EXCEPT ![p] = [Idle EXCEPT !.pc = "scan"]]
    /\ UNCHANGED <<copy, late>>

UpdateEvent(p, e, s) ==
    /\ At(p, "idle")
    /\ Exists(e) /\ version[e] < MaxVersion
    /\ version' = [version EXCEPT ![e] = @ + 1]
    /\ status' = [status EXCEPT ![e] = s]
    /\ Invalidate(p, e)
    /\ UNCHANGED <<copy, late>>

DeleteEvent(p, e) ==
    /\ At(p, "idle")
    /\ Exists(e)
    /\ status' = [status EXCEPT ![e] = "deleted"]
    /\ Invalidate(p, e)
    /\ UNCHANGED <<version, copy, late>>

\* The statement deleted no row: the event is gone already or someone else's.
DeleteNothing(p, e) ==
    /\ At(p, "idle")
    /\ version[e] > 0
    /\ Invalidate(p, e)
    /\ UNCHANGED <<rows, copy, late>>

-----------------------------------------------------------------------------
(* invalidateEventCache: DEL event:<id>, then SCAN for the pages and DEL   *)
(* one after the other.  Errors are ignored and nothing is tried again.    *)

DeleteCopy(p) ==
    /\ At(p, "delete")
    /\ Remove(req[p].key)
    /\ req' = [req EXCEPT ![p].pc = "scan"]
    /\ UNCHANGED rows

DeleteCopyFails(p) ==
    /\ At(p, "delete")
    /\ req' = [req EXCEPT ![p].pc = "scan"]
    /\ late' = late \cup {req[p].key}
    /\ UNCHANGED <<rows, copy>>

\* SCAN returns every page that is there all the while, and maybe some that come
\* and go meanwhile.
ScanPages(p) ==
    /\ At(p, "scan")
    /\ \E found \in SUBSET PageKeys :
        /\ \A k \in PageKeys : copy[k] # Absent => k \in found
        /\ req' = [req EXCEPT ![p] =
                     IF found = {} THEN Idle ELSE [Idle EXCEPT !.pc = "sweep", !.todo = found]]
    /\ UNCHANGED <<rows, copy, late>>

\* The pages not yet deleted; with the last one the request is answered.
SweptOff(p, k) ==
    req' = [req EXCEPT ![p] =
              IF req[p].todo = {k} THEN Idle
              ELSE [Idle EXCEPT !.pc = "sweep", !.todo = req[p].todo \ {k}]]

DeletePage(p, k) ==
    /\ At(p, "sweep") /\ k \in req[p].todo
    /\ Remove(k)
    /\ SweptOff(p, k)
    /\ UNCHANGED rows

DeletePageFails(p, k) ==
    /\ At(p, "sweep") /\ k \in req[p].todo
    /\ late' = late \cup {k}
    /\ SweptOff(p, k)
    /\ UNCHANGED <<rows, copy>>

\* The request ends early: SET or SCAN fails, its context is cancelled with the
\* client's connection, or the service stops.
Abandon(p) ==
    /\ ~ At(p, "idle")
    /\ late' = late \cup {k \in Keys : Owes(p, k)}
    /\ Return(p)
    /\ UNCHANGED <<rows, copy>>

\* Mutant: copies that live until they are deleted.
ExpireNever(k) == FALSE /\ UNCHANGED vars

\* Five minutes have passed since the copy was set, or Redis needed the room.
Expire(k) ==
    /\ copy[k] # Absent
    /\ Remove(k)
    /\ UNCHANGED <<rows, req>>

-----------------------------------------------------------------------------
Reader(p) ==
    \/ \E k \in IdKeys \cup SpeltKeys \cup SlugKeys : GetEvent(p, k)
    \/ \E k \in PageKeys : ListEvents(p, k)

ReaderStep(p) == CountPublishedEvents(p) \/ SetCopy(p)

Writer(p) ==
    \/ \E e \in Events, s \in Statuses : CreateEvent(p, e, s) \/ UpdateEvent(p, e, s)
    \/ \E e \in Events : DeleteEvent(p, e) \/ DeleteNothing(p, e)

WriterStep(p) ==
    \/ DeleteCopy(p)
    \/ DeleteCopyFails(p)
    \/ ScanPages(p)
    \/ \E k \in PageKeys : DeletePage(p, k) \/ DeletePageFails(p, k)

Next ==
    \/ \E p \in Procs : Reader(p) \/ ReaderStep(p) \/ Writer(p) \/ WriterStep(p) \/ Abandon(p)
    \/ \E k \in Keys : Expire(k)

\* A request that has begun goes on or ends, and Redis drops a copy whose five
\* minutes are over.  Nobody has to read or write.
Fairness ==
    /\ \A p \in Procs : WF_vars(ReaderStep(p) \/ WriterStep(p) \/ Abandon(p))
    /\ \A k \in Keys : WF_vars(Expire(k))

Spec == Init /\ [][Next]_vars /\ Fairness

-----------------------------------------------------------------------------
Fresh(k) == copy[k] \in {Absent, Current(k)}

\* A copy under event:<id> or of a list page that differs from the rows is about to
\* be deleted by the writer that changed them, unless a slow reader stored it after
\* that (GetEvent, ListEvents: SET after the writer's DEL) or the DEL was lost.  So
\* the writers cover every key they must, whichever way they overlap.
FreshUnlessLate ==
    \A k \in IdKeys \cup PageKeys :
        Fresh(k) \/ k \in late \/ \E p \in Procs : Owes(p, k)

\* Once nobody writes, every copy comes to agree with the rows and stays so: also a
\* late one, and those under old slugs and other spellings, which no writer ever deletes.
CacheConverges ==
    <>[][FALSE]_rows => <>[](\A k \in Keys : Fresh(k))
=============================================================================
