-------------------------- MODULE EventCacheProofs --------------------------
(***************************************************************************)
(* Which keys the writers of event-service must delete, proved for every   *)
(* number of requests, events and pages.                                   *)
(***************************************************************************)
EXTENDS EventCache, FiniteSetTheorems, TLAPS

\* What a request holds at each of its steps.
Held(p) ==
    /\ At(p, "set") => req[p].key \in Keys /\ req[p].got \in Copies
    /\ At(p, "count") => req[p].key \in PageKeys /\ req[p].got \in ListCopies
    /\ At(p, "delete") => req[p].key \in IdKeys

\* Nothing is known yet of an event that was not created: CreateEvent may therefore
\* leave event:<id> alone.
Unborn ==
    \A e \in Events : version[e] = 0 =>
        /\ copy[IdKey(e)] = Absent
        /\ \A p \in Procs : req[p].key # IdKey(e)

-----------------------------------------------------------------------------
(* Keys of different kinds differ, and name what they are made of.         *)

LEMMA KindsOfKeys ==
    ASSUME NEW e \in Events, NEW g \in Pages
    PROVE  /\ IdKey(e) \in IdKeys /\ PageKey(g) \in PageKeys
           /\ PageKey(g) \notin IdKeys \cup SpeltKeys \cup SlugKeys
           /\ \A d \in Events : IdKey(d) = IdKey(e) => d = e
  BY DEF IdKeys, PageKeys, SpeltKeys, SlugKeys, IdKey, PageKey

LEMMA CurrentOfIds ==
    ASSUME NEW e \in Events
    PROVE  /\ Current(IdKey(e)) = EventRow(e)
           /\ Current(IdKey(e))' = EventRow(e)'
  BY DEF Current, IdKeys, IdKey

LEMMA CurrentOfPages ==
    ASSUME NEW k \in PageKeys
    PROVE  /\ Current(k) = ListNow
           /\ Current(k)' = ListNow'
  <1>1. k \notin IdKeys \cup SpeltKeys \cup SlugKeys
    BY DEF IdKeys, PageKeys, SpeltKeys, SlugKeys, IdKey, PageKey
  <1> QED  BY <1>1 DEF Current

\* What the list statements return has the shape of a copy.
LEMMA ListFits ==
    ASSUME TypeOK
    PROVE  /\ Listed \in SUBSET (Events \X (1 .. MaxVersion))
           /\ Cardinality(Published) \in 0 .. Cardinality(Events)
           /\ 0 \in 0 .. Cardinality(Events)
  <1>1. \A e \in Published : e \in Events /\ version[e] \in 1 .. MaxVersion
    BY CacheAssumption DEF TypeOK, Published, Statuses
  <1>2. Listed \in SUBSET (Events \X (1 .. MaxVersion))
    BY <1>1 DEF Listed
  <1>3. Published \subseteq Events
    BY DEF Published
  <1>4. IsFiniteSet(Published) /\ Cardinality(Published) <= Cardinality(Events)
    BY <1>3, CacheAssumption, FS_Subset
  <1>5. Cardinality(Published) \in Nat /\ Cardinality(Events) \in Nat
    BY <1>4, CacheAssumption, FS_CardinalityType
  <1> QED  BY <1>2, <1>4, <1>5

\* So has every row.
LEMMA CurrentFits ==
    ASSUME TypeOK, NEW k \in IdKeys \cup SpeltKeys \cup SlugKeys, Current(k) # Absent
    PROVE  Current(k) \in Copies
  <1>1. \A e \in Events : EventRow(e) # Absent => EventRow(e) \in EventCopies
    BY CacheAssumption DEF TypeOK, EventRow, Exists, EventCopies, Statuses
  <1>2. CASE k \in IdKeys
    <2>1. PICK e \in Events : k = IdKey(e)  BY <1>2 DEF IdKeys
    <2> QED  BY <1>1, <2>1, CurrentOfIds DEF Copies
  <1>3. CASE k \in SpeltKeys
    <2>1. PICK e \in Events : k = <<"spelt", e>>  BY <1>3 DEF SpeltKeys
    <2> QED  BY <1>1, <1>3, <2>1 DEF Current, Copies
  <1>4. CASE k \notin IdKeys \cup SpeltKeys
    <2>1. PICK e \in Events, v \in 1 .. MaxVersion : k = <<"slug", e, v>>
      BY <1>4 DEF SlugKeys
    <2>2. k \in SlugKeys  BY <1>4
    <2>3. Current(k) = SlugRow(e, v)  BY <1>4, <2>1, <2>2 DEF Current
    <2> QED  BY <1>1, <2>3 DEF SlugRow, Copies
  <1> QED  BY <1>2, <1>3, <1>4

\* Without a change of the rows nothing else becomes current.
LEMMA CurrentStays ==
    ASSUME UNCHANGED rows, NEW k
    PROVE  Current(k)' = Current(k)
  BY DEF Current, EventRow, SlugRow, ListNow, Listed, Published, Exists, rows

-----------------------------------------------------------------------------
Typed == TypeOK /\ \A p \in Procs : Held(p)

\* The steps, one by one.
LEMMA NextCases ==
    ASSUME Next
    PROVE  \/ \E p \in Procs, k \in IdKeys \cup SpeltKeys \cup SlugKeys : GetEvent(p, k)
           \/ \E p \in Procs, k \in PageKeys : ListEvents(p, k)
           \/ \E p \in Procs : CountPublishedEvents(p)
           \/ \E p \in Procs : SetCopy(p)
           \/ \E p \in Procs, e \in Events, s \in Statuses : CreateEvent(p, e, s)
           \/ \E p \in Procs, e \in Events, s \in Statuses : UpdateEvent(p, e, s)
           \/ \E p \in Procs, e \in Events : DeleteEvent(p, e)
           \/ \E p \in Procs, e \in Events : DeleteNothing(p, e)
           \/ \E p \in Procs : DeleteCopy(p)
           \/ \E p \in Procs : DeleteCopyFails(p)
           \/ \E p \in Procs : ScanPages(p)
           \/ \E p \in Procs, k \in PageKeys : DeletePage(p, k)
           \/ \E p \in Procs, k \in PageKeys : DeletePageFails(p, k)
           \/ \E p \in Procs : Abandon(p)
           \/ \E k \in Keys : Expire(k)
  BY Zenon DEF Next, Reader, ReaderStep, Writer, WriterStep

LEMMA InitTyped == Init => Typed
  BY CacheAssumption DEF Init, Typed, TypeOK, Held, At, Idle, Requests, PC, Statuses

LEMMA NextTyped == Typed /\ [Next]_vars => Typed'
  <1> SUFFICES ASSUME Typed, [Next]_vars PROVE Typed'
    OBVIOUS
  <1> USE CacheAssumption DEF Typed, TypeOK, Held, At, Idle, Requests, PC, rows
  <1>1. CASE UNCHANGED vars
    BY <1>1 DEF vars
  <1>2. ASSUME NEW p \in Procs, NEW k \in IdKeys \cup SpeltKeys \cup SlugKeys, GetEvent(p, k)
        PROVE  Typed'
    <2>1. Current(k) \in Copies /\ k \in Keys
      BY <1>2, CurrentFits DEF GetEvent, Keys
    <2> QED  BY <1>2, <2>1 DEF GetEvent
  <1>3. ASSUME NEW p \in Procs, NEW k \in PageKeys, ListEvents(p, k) PROVE Typed'
    <2>1. [events |-> Listed, total |-> 0] \in ListCopies
      BY ListFits DEF ListCopies
    <2>2. ListCopies \subseteq Copies /\ k \in Keys
      BY DEF Copies, Keys
    <2> QED  BY <1>3, <2>1, <2>2 DEF ListEvents
  <1>4. ASSUME NEW p \in Procs, CountPublishedEvents(p) PROVE Typed'
    <2> DEFINE got == [events |-> req[p].got.events, total |-> Cardinality(Published)]
    <2>1. got \in ListCopies
      BY <1>4, ListFits DEF ListCopies, CountPublishedEvents
    <2>2. got \in Copies /\ req[p].key \in Keys
      BY <1>4, <2>1 DEF Copies, Keys, CountPublishedEvents
    <2>3. req' = [req EXCEPT ![p] = [Idle EXCEPT !.pc = "set", !.key = req[p].key, !.got = got]]
      BY <1>4 DEF CountPublishedEvents
    <2> DEFINE next == [Idle EXCEPT !.pc = "set", !.key = req[p].key, !.got = got]
    <2> HIDE DEF got
    <2>4. next \in Requests /\ next.pc = "set" /\ next.key = req[p].key /\ next.got = got
      BY <2>2
    <2> HIDE DEF next
    <2>5. req' = [req EXCEPT ![p] = next] /\ UNCHANGED <<rows, copy, late>>
      BY <1>4, <2>3 DEF CountPublishedEvents, next
    <2> QED  BY <2>2, <2>4, <2>5
  <1>5. ASSUME NEW p \in Procs, SetCopy(p) PROVE Typed'
    BY <1>5 DEF SetCopy, Store, Return
  <1>6. ASSUME NEW p \in Procs, NEW e \in Events, NEW s \in Statuses, CreateEvent(p, e, s) PROVE Typed'
    BY <1>6 DEF CreateEvent, Statuses
  <1>7. ASSUME NEW p \in Procs, NEW e \in Events, NEW s \in Statuses, UpdateEvent(p, e, s) PROVE Typed'
    <2>1. IdKey(e) \in IdKeys /\ IdKey(e) \in Keys
      BY DEF IdKeys, Keys
    <2>2. version[e] + 1 \in 0 .. MaxVersion /\ version[e] + 1 # 0
      BY <1>7 DEF UpdateEvent
    <2>3. TypeOK'
      BY <1>7, <2>1, <2>2 DEF UpdateEvent, Invalidate, Exists, Statuses
    <2> QED  BY <1>7, <2>1, <2>3 DEF UpdateEvent, Invalidate
  <1>8. ASSUME NEW p \in Procs, NEW e \in Events, DeleteEvent(p, e) PROVE Typed'
    <2>1. IdKey(e) \in IdKeys /\ IdKey(e) \in Keys
      BY DEF IdKeys, Keys
    <2> QED  BY <1>8, <2>1 DEF DeleteEvent, Invalidate, Exists, Statuses
  <1>9. ASSUME NEW p \in Procs, NEW e \in Events, DeleteNothing(p, e) PROVE Typed'
    <2>1. IdKey(e) \in IdKeys /\ IdKey(e) \in Keys
      BY DEF IdKeys, Keys
    <2> QED  BY <1>9, <2>1 DEF DeleteNothing, Invalidate
  <1>10. ASSUME NEW p \in Procs, DeleteCopy(p) PROVE Typed'
    BY <1>10 DEF DeleteCopy, Remove
  <1>11. ASSUME NEW p \in Procs, DeleteCopyFails(p) PROVE Typed'
    BY <1>11 DEF DeleteCopyFails, Keys
  <1>12. ASSUME NEW p \in Procs, ScanPages(p) PROVE Typed'
    <2>1. PICK found \in SUBSET PageKeys : req' = [req EXCEPT ![p] =
              IF found = {} THEN Idle ELSE [Idle EXCEPT !.pc = "sweep", !.todo = found]]
      BY <1>12 DEF ScanPages
    <2> DEFINE next == IF found = {} THEN Idle ELSE [Idle EXCEPT !.pc = "sweep", !.todo = found]
    <2>2. next \in Requests /\ next.pc \in {"idle", "sweep"}
      BY <2>1
    <2>3. req' = [req EXCEPT ![p] = next]
      BY <2>1
    <2> HIDE DEF next
    <2> QED  BY <1>12, <2>2, <2>3 DEF ScanPages
  <1>13. ASSUME NEW p \in Procs, NEW k \in PageKeys, DeletePage(p, k) PROVE Typed'
    BY <1>13 DEF DeletePage, Remove, SweptOff
  <1>14. ASSUME NEW p \in Procs, NEW k \in PageKeys, DeletePageFails(p, k) PROVE Typed'
    BY <1>14 DEF DeletePageFails, SweptOff, Keys
  <1>15. ASSUME NEW p \in Procs, Abandon(p) PROVE Typed'
    BY <1>15 DEF Abandon, Return
  <1>16. ASSUME NEW k \in Keys, Expire(k) PROVE Typed'
    BY <1>16 DEF Expire, Remove
  <1> HIDE DEF Typed, TypeOK, Held, At, Idle, Requests, PC, rows
  <1>17. CASE Next
    BY <1>2, <1>3, <1>4, <1>5, <1>6, <1>7, <1>8, <1>9, <1>10, <1>11, <1>12, <1>13, <1>14, <1>15,
       <1>16, <1>17, NextCases
  <1> QED  BY <1>1, <1>17

-----------------------------------------------------------------------------
LEMMA InitUnborn == Init => Unborn
  BY CacheAssumption DEF Init, Unborn, Idle, IdKey, Keys, IdKeys

\* Copies and requests are only ever made of events that exist.
LEMMA NextUnborn == Typed /\ Unborn /\ [Next]_vars => Unborn'
  <1> SUFFICES ASSUME Typed, Unborn, [Next]_vars PROVE Unborn'
    OBVIOUS
  <1>a. \A e \in Events : IdKey(e) \in Keys /\ IdKey(e) # Absent /\ IdKey(e) \notin PageKeys
    BY CacheAssumption DEF Keys, IdKeys, PageKeys, IdKey, PageKey
  <1>b. \A e \in Events : version[e] = 0 => Current(IdKey(e)) = Absent
    BY CurrentOfIds DEF EventRow, Exists, Typed, TypeOK, Statuses
  <1> USE <1>a, CacheAssumption DEF Typed, TypeOK, Unborn, At, Idle, Requests, rows
  <1>1. CASE UNCHANGED vars
    BY <1>1 DEF vars
  <1>2. ASSUME NEW p \in Procs, NEW k \in IdKeys \cup SpeltKeys \cup SlugKeys, GetEvent(p, k)
        PROVE  Unborn'
    BY <1>2, <1>b DEF GetEvent
  <1>3. ASSUME NEW p \in Procs, NEW k \in PageKeys, ListEvents(p, k) PROVE Unborn'
    BY <1>3 DEF ListEvents
  <1>4. ASSUME NEW p \in Procs, CountPublishedEvents(p) PROVE Unborn'
    <2> DEFINE next == [Idle EXCEPT !.pc = "set", !.key = req[p].key,
                  !.got = [events |-> req[p].got.events, total |-> Cardinality(Published)]]
    <2>1. next.key = req[p].key
      OBVIOUS
    <2>2. req' = [req EXCEPT ![p] = next] /\ UNCHANGED <<rows, copy, late>>
      BY <1>4 DEF CountPublishedEvents
    <2> HIDE DEF next
    <2> QED  BY <2>1, <2>2
  <1>5. ASSUME NEW p \in Procs, SetCopy(p) PROVE Unborn'
    BY <1>5 DEF SetCopy, Store, Return
  <1>6. ASSUME NEW p \in Procs, NEW e \in Events, NEW s \in Statuses, CreateEvent(p, e, s) PROVE Unborn'
    BY <1>6 DEF CreateEvent
  <1>7. ASSUME NEW p \in Procs, NEW e \in Events, NEW s \in Statuses, UpdateEvent(p, e, s) PROVE Unborn'
    <2>1. version[e] + 1 # 0 /\ version[e] # 0
      BY <1>7 DEF UpdateEvent, Exists, Statuses
    <2>2. \A d \in Events : IdKey(d) = IdKey(e) => d = e
      BY DEF IdKey
    <2> QED  BY <1>7, <2>1, <2>2 DEF UpdateEvent, Invalidate
  <1>8. ASSUME NEW p \in Procs, NEW e \in Events, DeleteEvent(p, e) PROVE Unborn'
    <2>1. \A d \in Events : IdKey(d) = IdKey(e) => d = e
      BY DEF IdKey
    <2> QED  BY <1>8, <2>1 DEF DeleteEvent, Invalidate, Exists, Statuses
  <1>9. ASSUME NEW p \in Procs, NEW e \in Events, DeleteNothing(p, e) PROVE Unborn'
    <2>1. \A d \in Events : IdKey(d) = IdKey(e) => d = e
      BY DEF IdKey
    <2> QED  BY <1>9, <2>1 DEF DeleteNothing, Invalidate
  <1>10. ASSUME NEW p \in Procs, DeleteCopy(p) PROVE Unborn'
    BY <1>10 DEF DeleteCopy, Remove
  <1>11. ASSUME NEW p \in Procs, DeleteCopyFails(p) PROVE Unborn'
    BY <1>11 DEF DeleteCopyFails
  <1>12. ASSUME NEW p \in Procs, ScanPages(p) PROVE Unborn'
    <2>1. PICK found \in SUBSET PageKeys : req' = [req EXCEPT ![p] =
              IF found = {} THEN Idle ELSE [Idle EXCEPT !.pc = "sweep", !.todo = found]]
      BY <1>12 DEF ScanPages
    <2> QED  BY <1>12, <2>1 DEF ScanPages
  <1>13. ASSUME NEW p \in Procs, NEW k \in PageKeys, DeletePage(p, k) PROVE Unborn'
    BY <1>13 DEF DeletePage, Remove, SweptOff
  <1>14. ASSUME NEW p \in Procs, NEW k \in PageKeys, DeletePageFails(p, k) PROVE Unborn'
    BY <1>14 DEF DeletePageFails, SweptOff
  <1>15. ASSUME NEW p \in Procs, Abandon(p) PROVE Unborn'
    BY <1>15 DEF Abandon, Return
  <1>16. ASSUME NEW k \in Keys, Expire(k) PROVE Unborn'
    BY <1>16 DEF Expire, Remove
  <1> HIDE DEF Typed, TypeOK, Unborn, At, Idle, Requests, rows
  <1>17. CASE Next
    BY <1>2, <1>3, <1>4, <1>5, <1>6, <1>7, <1>8, <1>9, <1>10, <1>11, <1>12, <1>13, <1>14, <1>15,
       <1>16, <1>17, NextCases
  <1> QED  BY <1>1, <1>17

-----------------------------------------------------------------------------
\* FreshUnlessLate, for one key.
Cared(k) == Fresh(k) \/ k \in late \/ \E p \in Procs : Owes(p, k)

\* A step that changes no row and moves one request only has to care for the keys
\* that request owed, and for the copy it wrote.
LEMMA OneMoves ==
    ASSUME Typed, FreshUnlessLate, UNCHANGED rows, NEW p \in Procs,
           \A q \in Procs \ {p} : req'[q] = req[q],
           \A k \in IdKeys \cup PageKeys : Owes(p, k) => Cared(k)',
           \A k \in IdKeys \cup PageKeys :
               \/ copy'[k] = copy[k] /\ (k \in late => k \in late')
               \/ Cared(k)'
    PROVE  FreshUnlessLate'
  <1> SUFFICES ASSUME NEW k \in IdKeys \cup PageKeys PROVE Cared(k)'
    BY DEF FreshUnlessLate, Cared
  <1>1. Cared(k)
    BY DEF FreshUnlessLate, Cared
  <1>2. CASE Owes(p, k)
    BY <1>2
  <1>3. CASE copy'[k] = copy[k] /\ (k \in late => k \in late') /\ ~Owes(p, k)
    <2>1. \A q \in Procs \ {p} : Owes(q, k) => Owes(q, k)'
      BY DEF Owes, At
    <2>2. Fresh(k) => Fresh(k)'
      BY <1>3, CurrentStays DEF Fresh
    <2> QED  BY <1>1, <1>3, <2>1, <2>2 DEF Cared
  <1> QED  BY <1>2, <1>3

\* A writer that has changed one event's row owes the copies the row is shown in.
LEMMA WriterOwes ==
    ASSUME Typed, FreshUnlessLate, NEW p \in Procs, NEW e \in Events,
           At(p, "idle"), UNCHANGED <<copy, late>>,
           \A q \in Procs \ {p} : req'[q] = req[q],
           \A d \in Events \ {e} : version'[d] = version[d] /\ status'[d] = status[d],
           \A k \in PageKeys : Owes(p, k)',
           Owes(p, IdKey(e))' \/ Fresh(IdKey(e))'
    PROVE  FreshUnlessLate'
  <1> SUFFICES ASSUME NEW k \in IdKeys \cup PageKeys PROVE Cared(k)'
    BY DEF FreshUnlessLate, Cared
  <1>1. CASE k \in PageKeys \/ k = IdKey(e)
    BY <1>1 DEF Cared
  <1>2. CASE k \notin PageKeys /\ k # IdKey(e)
    <2>1. PICK d \in Events : k = IdKey(d)
      BY <1>2 DEF IdKeys
    <2>2. Current(k)' = Current(k)
      BY <1>2, <2>1, CurrentOfIds DEF EventRow, Exists
    <2>3. Cared(k)
      BY DEF FreshUnlessLate, Cared
    <2>4. \A q \in Procs : Owes(q, k) => q # p /\ Owes(q, k)'
      BY DEF Owes, At
    <2> QED  BY <2>2, <2>3, <2>4 DEF Cared, Fresh
  <1> QED  BY <1>1, <1>2

LEMMA InitFresh == Init => FreshUnlessLate
  BY DEF Init, FreshUnlessLate, Fresh, Keys

LEMMA NextFresh == Typed /\ Unborn /\ FreshUnlessLate /\ [Next]_vars => FreshUnlessLate'
  <1> SUFFICES ASSUME Typed, Unborn, FreshUnlessLate, [Next]_vars PROVE FreshUnlessLate'
    OBVIOUS
  <1>a. IdKeys \subseteq Keys /\ PageKeys \subseteq Keys /\ (\A k \in PageKeys : k \notin IdKeys)
    BY DEF Keys, IdKeys, PageKeys, IdKey, PageKey
  <1>b. \A e \in Events : IdKey(e) \in IdKeys
    BY DEF IdKeys
  <1>c. req \in [Procs -> Requests] /\ copy \in [Keys -> Copies \cup {Absent}]
    BY DEF Typed, TypeOK
  <1>1. CASE UNCHANGED vars
    <2>1. \A k \in Keys : Fresh(k) => Fresh(k)'
      BY <1>1, CurrentStays DEF vars, rows, Fresh
    <2> QED  BY <1>1, <1>a, <2>1 DEF FreshUnlessLate, vars, Owes, At
  <1>2. ASSUME NEW p \in Procs, NEW k \in IdKeys \cup SpeltKeys \cup SlugKeys, GetEvent(p, k)
        PROVE  FreshUnlessLate'
    <2>1. UNCHANGED <<rows, copy, late>> /\ (\A q \in Procs \ {p} : req'[q] = req[q])
      BY <1>2, <1>c DEF GetEvent
    <2>2. \A j \in IdKeys \cup PageKeys : ~Owes(p, j)
      BY <1>2 DEF GetEvent, Owes, At
    <2> QED  BY <2>1, <2>2, OneMoves
  <1>3. ASSUME NEW p \in Procs, NEW k \in PageKeys, ListEvents(p, k) PROVE FreshUnlessLate'
    <2>1. UNCHANGED <<rows, copy, late>> /\ (\A q \in Procs \ {p} : req'[q] = req[q])
      BY <1>3, <1>c DEF ListEvents
    <2>2. \A j \in IdKeys \cup PageKeys : ~Owes(p, j)
      BY <1>3 DEF ListEvents, Owes, At
    <2> QED  BY <2>1, <2>2, OneMoves
  <1>4. ASSUME NEW p \in Procs, CountPublishedEvents(p) PROVE FreshUnlessLate'
    <2>1. UNCHANGED <<rows, copy, late>> /\ (\A q \in Procs \ {p} : req'[q] = req[q])
      BY <1>4, <1>c DEF CountPublishedEvents
    <2>2. \A j \in IdKeys \cup PageKeys : ~Owes(p, j)
      BY <1>4 DEF CountPublishedEvents, Owes, At
    <2> QED  BY <2>1, <2>2, OneMoves
  <1>5. ASSUME NEW p \in Procs, SetCopy(p) PROVE FreshUnlessLate'
    <2>1. rows' = rows /\ (\A q \in Procs \ {p} : req'[q] = req[q])
      BY <1>5, <1>c DEF SetCopy, Return
    <2>2. \A j \in IdKeys \cup PageKeys : ~Owes(p, j)
      BY <1>5 DEF SetCopy, Owes, At
    <2> PICK k \in Keys : k = req[p].key
      BY <1>5 DEF SetCopy, Typed, Held
    <2>3. copy' = [copy EXCEPT ![k] = req[p].got]
          /\ late' = IF req[p].got = Current(k) THEN late \ {k} ELSE late \cup {k}
      BY <1>5 DEF SetCopy, Store
    <2>4. \A j \in (IdKeys \cup PageKeys) \ {k} : copy'[j] = copy[j] /\ (j \in late => j \in late')
      BY <2>3, <1>a, <1>c
    <2>5. Current(k)' = Current(k)
      BY <2>1, CurrentStays
    <2>6. Cared(k)'
      BY <2>3, <2>5, <1>c DEF Cared, Fresh
    <2> QED  BY <2>1, <2>2, <2>4, <2>6, OneMoves
  <1>6. ASSUME NEW p \in Procs, NEW e \in Events, NEW s \in Statuses, CreateEvent(p, e, s)
        PROVE FreshUnlessLate'
    <2>1. /\ At(p, "idle") /\ UNCHANGED <<copy, late>>
          /\ \A q \in Procs \ {p} : req'[q] = req[q]
          /\ \A d \in Events \ {e} : version'[d] = version[d] /\ status'[d] = status[d]
      BY <1>6, <1>c DEF CreateEvent, Typed, TypeOK
    <2>2. \A k \in PageKeys : Owes(p, k)'
      BY <1>6, <1>c DEF CreateEvent, Owes, At, Idle
    <2>3. Fresh(IdKey(e))'
      BY <1>6 DEF CreateEvent, Unborn, Fresh, Typed, TypeOK
    <2> QED  BY <2>1, <2>2, <2>3, WriterOwes
  <1>7. ASSUME NEW p \in Procs, NEW e \in Events, NEW s \in Statuses, UpdateEvent(p, e, s)
        PROVE FreshUnlessLate'
    <2>1. /\ At(p, "idle") /\ UNCHANGED <<copy, late>>
          /\ \A q \in Procs \ {p} : req'[q] = req[q]
          /\ \A d \in Events \ {e} : version'[d] = version[d] /\ status'[d] = status[d]
      BY <1>7, <1>c DEF UpdateEvent, Invalidate, Typed, TypeOK
    <2>2. (\A k \in PageKeys : Owes(p, k)') /\ Owes(p, IdKey(e))'
      BY <1>7, <1>c DEF UpdateEvent, Invalidate, Owes, At, Idle
    <2> QED  BY <2>1, <2>2, WriterOwes
  <1>8. ASSUME NEW p \in Procs, NEW e \in Events, DeleteEvent(p, e) PROVE FreshUnlessLate'
    <2>1. /\ At(p, "idle") /\ UNCHANGED <<copy, late>>
          /\ \A q \in Procs \ {p} : req'[q] = req[q]
          /\ \A d \in Events \ {e} : version'[d] = version[d] /\ status'[d] = status[d]
      BY <1>8, <1>c DEF DeleteEvent, Invalidate, Typed, TypeOK
    <2>2. (\A k \in PageKeys : Owes(p, k)') /\ Owes(p, IdKey(e))'
      BY <1>8, <1>c DEF DeleteEvent, Invalidate, Owes, At, Idle
    <2> QED  BY <2>1, <2>2, WriterOwes
  <1>9. ASSUME NEW p \in Procs, NEW e \in Events, DeleteNothing(p, e) PROVE FreshUnlessLate'
    <2>1. UNCHANGED <<rows, copy, late>> /\ (\A q \in Procs \ {p} : req'[q] = req[q])
      BY <1>9, <1>c DEF DeleteNothing, Invalidate
    <2>2. \A k \in IdKeys \cup PageKeys : ~Owes(p, k)
      BY <1>9 DEF DeleteNothing, Owes, At
    <2> QED  BY <2>1, <2>2, OneMoves
  <1>10. ASSUME NEW p \in Procs, DeleteCopy(p) PROVE FreshUnlessLate'
    <2> PICK k \in IdKeys : k = req[p].key
      BY <1>10 DEF DeleteCopy, Typed, Held
    <2>1. /\ rows' = rows /\ (\A q \in Procs \ {p} : req'[q] = req[q])
          /\ copy' = [copy EXCEPT ![k] = Absent] /\ late' = late \ {k}
      BY <1>10, <1>c DEF DeleteCopy, Remove
    <2>2. \A j \in (IdKeys \cup PageKeys) \ {k} : copy'[j] = copy[j] /\ (j \in late => j \in late')
      BY <2>1, <1>a, <1>c
    <2>3. Cared(k)'
      BY <2>1, <1>a, <1>c DEF Cared, Fresh
    <2>4. \A j \in PageKeys : Owes(p, j)'
      BY <1>10, <1>c DEF DeleteCopy, Owes, At, Requests
    <2>5. \A j \in IdKeys \cup PageKeys : Owes(p, j) => Cared(j)'
      BY <1>10, <2>3, <2>4 DEF DeleteCopy, Owes, At, Cared
    <2> QED  BY <2>1, <2>2, <2>3, <2>5, OneMoves
  <1>11. ASSUME NEW p \in Procs, DeleteCopyFails(p) PROVE FreshUnlessLate'
    <2>1. /\ rows' = rows /\ (\A q \in Procs \ {p} : req'[q] = req[q])
          /\ copy' = copy /\ late' = late \cup {req[p].key}
      BY <1>11, <1>c DEF DeleteCopyFails
    <2>2. \A j \in PageKeys : Owes(p, j)'
      BY <1>11, <1>c DEF DeleteCopyFails, Owes, At, Requests
    <2>3. \A j \in IdKeys \cup PageKeys : Owes(p, j) => Cared(j)'
      BY <1>11, <2>1, <2>2 DEF DeleteCopyFails, Owes, At, Cared
    <2> QED  BY <2>1, <2>3, OneMoves
  <1>12. ASSUME NEW p \in Procs, ScanPages(p) PROVE FreshUnlessLate'
    <2>1. PICK found \in SUBSET PageKeys :
            /\ \A k \in PageKeys : copy[k] # Absent => k \in found
            /\ req' = [req EXCEPT ![p] =
                 IF found = {} THEN Idle ELSE [Idle EXCEPT !.pc = "sweep", !.todo = found]]
      BY <1>12 DEF ScanPages
    <2>2. UNCHANGED <<rows, copy, late>> /\ (\A q \in Procs \ {p} : req'[q] = req[q])
      BY <1>12, <2>1, <1>c DEF ScanPages
    <2>3. ASSUME NEW k \in found PROVE Owes(p, k)'
      BY <2>1, <2>3, <1>c DEF Owes, At, Idle
    <2>4. ASSUME NEW k \in PageKeys, k \notin found PROVE Fresh(k)'
      BY <2>1, <2>2, <2>4 DEF Fresh
    <2>5. \A k \in IdKeys \cup PageKeys : Owes(p, k) => Cared(k)'
      BY <1>12, <2>3, <2>4 DEF ScanPages, Owes, At, Cared
    <2> QED  BY <2>2, <2>5, OneMoves
  <1>13. ASSUME NEW p \in Procs, NEW k \in PageKeys, DeletePage(p, k) PROVE FreshUnlessLate'
    <2>1. /\ rows' = rows /\ (\A q \in Procs \ {p} : req'[q] = req[q])
          /\ copy' = [copy EXCEPT ![k] = Absent] /\ late' = late \ {k}
      BY <1>13, <1>c DEF DeletePage, Remove, SweptOff
    <2>2. \A j \in (IdKeys \cup PageKeys) \ {k} : copy'[j] = copy[j] /\ (j \in late => j \in late')
      BY <2>1, <1>a, <1>c
    <2>3. Cared(k)'
      BY <2>1, <1>a, <1>c DEF Cared, Fresh
    <2>4. ASSUME NEW j \in req[p].todo \ {k} PROVE Owes(p, j)'
      BY <1>13, <2>4, <1>c DEF DeletePage, SweptOff, Owes, At, Idle
    <2>5. \A j \in IdKeys \cup PageKeys : Owes(p, j) => Cared(j)'
      BY <1>13, <2>3, <2>4 DEF DeletePage, Owes, At, Cared
    <2> QED  BY <2>1, <2>2, <2>3, <2>5, OneMoves
  <1>14. ASSUME NEW p \in Procs, NEW k \in PageKeys, DeletePageFails(p, k) PROVE FreshUnlessLate'
    <2>1. /\ rows' = rows /\ (\A q \in Procs \ {p} : req'[q] = req[q])
          /\ copy' = copy /\ late' = late \cup {k}
      BY <1>14, <1>c DEF DeletePageFails, SweptOff
    <2>2. ASSUME NEW j \in req[p].todo \ {k} PROVE Owes(p, j)'
      BY <1>14, <2>2, <1>c DEF DeletePageFails, SweptOff, Owes, At, Idle
    <2>3. \A j \in IdKeys \cup PageKeys : Owes(p, j) => Cared(j)'
      BY <1>14, <2>1, <2>2 DEF DeletePageFails, Owes, At, Cared
    <2> QED  BY <2>1, <2>3, OneMoves
  <1>15. ASSUME NEW p \in Procs, Abandon(p) PROVE FreshUnlessLate'
    <2>1. /\ rows' = rows /\ (\A q \in Procs \ {p} : req'[q] = req[q])
          /\ copy' = copy /\ late' = late \cup {k \in Keys : Owes(p, k)}
      BY <1>15, <1>c DEF Abandon, Return
    <2>2. \A j \in IdKeys \cup PageKeys : Owes(p, j) => Cared(j)'
      BY <2>1, <1>a DEF Cared
    <2> QED  BY <2>1, <2>2, OneMoves
  <1>16. ASSUME NEW k \in Keys, Expire(k) PROVE FreshUnlessLate'
    <2>1. UNCHANGED <<rows, req>> /\ copy' = [copy EXCEPT ![k] = Absent] /\ late' = late \ {k}
      BY <1>16 DEF Expire, Remove
    <2>2. ASSUME NEW j \in IdKeys \cup PageKeys PROVE Cared(j)'
      <3>1. Cared(j)  BY DEF FreshUnlessLate, Cared
      <3>2. Current(j)' = Current(j)  BY <2>1, CurrentStays
      <3>3. \A q \in Procs : Owes(q, j) => Owes(q, j)'  BY <2>1 DEF Owes, At
      <3> QED  BY <2>1, <3>1, <3>2, <3>3, <1>a, <1>c DEF Cared, Fresh
    <2> QED  BY <2>2 DEF FreshUnlessLate, Cared
  <1>17. CASE Next
    BY <1>2, <1>3, <1>4, <1>5, <1>6, <1>7, <1>8, <1>9, <1>10, <1>11, <1>12, <1>13, <1>14, <1>15,
       <1>16, <1>17, NextCases
  <1> QED  BY <1>1, <1>17

-----------------------------------------------------------------------------
\* Types, and that a page key is never taken for the key of an event.
THEOREM CacheTypes == Spec => []TypeOK
  <1>1. Typed => TypeOK
    BY DEF Typed
  <1> QED  BY <1>1, InitTyped, NextTyped, PTL DEF Spec

\* However the writers of event-service overlap with each other and with readers, a
\* copy that differs from the rows is one somebody is about to delete, one a slow
\* reader stored afterwards, or one whose DEL was lost: invalidateEventCache.
THEOREM WritersCoverTheirCopies == Spec => []FreshUnlessLate
  BY InitTyped, NextTyped, InitUnborn, NextUnborn, InitFresh, NextFresh, PTL DEF Spec
=============================================================================
