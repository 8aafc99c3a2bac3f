------------------------- MODULE GateCheckinProofs -------------------------
(***************************************************************************)
(* GateCheckin lets a ticket in at most once and implements AdmitOnce, for *)
(* any number of tickets, scanners and events and under all its faults.    *)
(***************************************************************************)
EXTENDS GateCheckin, TLAPS

(***************************************************************************)
(* The inductive invariant.  NoDoubleEntry is not inductive alone: that a  *)
(* second scan finds the row closed rests on the row never being reopened, *)
(* and that the copies never close a ticket nobody used rests on what is   *)
(* still under way in scans and topics.                                    *)
(***************************************************************************)
\* Whatever left ticket-service is about an issued ticket.
IssuedInv ==
    /\ \A t \in Tickets : local[t] # "none" => central[t] # "none"
    /\ \A t \in created : central[t] # "none"
    /\ \A s \in Scanners : pc[s] = "sync" => central[ticket[s]] # "none"

\* An accepted ticket is closed, and was accepted once.
AcceptedInv ==
    \A t \in Tickets : accepted[t] = 0 \/ (accepted[t] = 1 /\ local[t] \in Closed)

\* Whatever says USED, or will make somebody say so, is about an accepted ticket.
UsedInv ==
    /\ \A t \in Tickets : central[t] = "USED" => accepted[t] = 1
    /\ \A t \in Tickets : local[t] = "USED" => accepted[t] = 1
    /\ \A t \in scanned : accepted[t] = 1
    /\ \A s \in Scanners : pc[s] = "publish" => accepted[ticket[s]] = 1
    /\ \A s \in Scanners : pc[s] = "sync" /\ fetched[s] = "USED" => accepted[ticket[s]] = 1

GateInv == TypeOK /\ IssuedInv /\ AcceptedInv /\ UsedInv

\* What SyncTicket and the guarded UPDATE do to the row of a ticket.
LEMMA SyncEffect ==
  ASSUME TypeOK, NEW t \in Tickets, NEW status \in {"ACTIVE", "USED"}, SyncTicket(t, status)
  PROVE  /\ local' \in [Tickets -> {"none", "ACTIVE"} \cup Closed]
         /\ \A u \in Tickets : u # t => local'[u] = local[u]
         /\ local[t] \in Closed => local'[t] = local[t]
         /\ local'[t] = local[t] \/ local'[t] = status
  BY DEF TypeOK, SyncTicket, Updated, Closed

LEMMA CheckInEffect ==
  ASSUME TypeOK, NEW t \in Tickets,
         local' = [local EXCEPT ![t] = Updated(t, "CHECKED_IN")]
  PROVE  /\ local' \in [Tickets -> {"none", "ACTIVE"} \cup Closed]
         /\ \A u \in Tickets : u # t => local'[u] = local[u]
         /\ local[t] # "ACTIVE" => local'[t] = local[t]
         /\ local[t] = "ACTIVE" => local'[t] = "CHECKED_IN"
  BY DEF TypeOK, Updated, Closed

LEMMA InitInv == Init => GateInv
<1> SUFFICES ASSUME Init PROVE GateInv
  OBVIOUS
<1>1. (CHOOSE t \in Tickets : TRUE) \in Tickets
  BY GateAssumption
<1> QED
  BY <1>1 DEF Init, GateInv, TypeOK, IssuedInv, AcceptedInv, UsedInv, Closed

LEMMA IssueInv ==
  ASSUME GateInv, NEW t \in Tickets, Issue(t)
  PROVE  GateInv'
  BY DEF GateInv, TypeOK, IssuedInv, AcceptedInv, UsedInv, Issue, scanVars

LEMMA ConsumeScannedInv ==
  ASSUME GateInv, NEW t \in Tickets, ConsumeScanned(t)
  PROVE  GateInv'
  BY DEF GateInv, TypeOK, IssuedInv, AcceptedInv, UsedInv, ConsumeScanned, scanVars

LEMMA ConsumeCreatedInv ==
  ASSUME GateInv, NEW t \in Tickets, ConsumeCreated(t)
  PROVE  GateInv'
<1> USE DEF GateInv, TypeOK, IssuedInv, AcceptedInv, UsedInv, ConsumeCreated, scanVars
<1>1. CASE SyncTicket(t, "ACTIVE")
  BY <1>1, SyncEffect DEF Closed
<1>2. CASE UNCHANGED local
  BY <1>2
<1> QED
  BY <1>1, <1>2

LEMMA ScanInv ==
  ASSUME GateInv, NEW s \in Scanners, NEW t \in Tickets, NEW e \in Events \cup {NoEvent},
         Scan(s, t, e)
  PROVE  GateInv'
  BY DEF GateInv, TypeOK, IssuedInv, AcceptedInv, UsedInv, Scan, Goto

LEMMA ScanStepInv ==
  ASSUME GateInv, NEW s \in Scanners, ScanStep(s)
  PROVE  GateInv'
<1> USE DEF GateInv, TypeOK, IssuedInv, AcceptedInv, UsedInv, Goto
<1>0. ticket[s] \in Tickets
  OBVIOUS
<1>1. CASE Fetch(s)
  <2>1. central[ticket[s]] \in {"ACTIVE", "USED"}
    BY <1>1 DEF Fetch
  <2> QED
    BY <1>1, <2>1 DEF Fetch
<1>2. CASE FetchNothing(s) \/ Lookup(s)
  BY <1>2 DEF FetchNothing, Lookup
<1>3. CASE Sync(s)
  <2>1. CASE SyncTicket(ticket[s], fetched[s])
    <3>1. fetched[s] \in {"ACTIVE", "USED"}
      OBVIOUS
    <3>2. /\ local' \in [Tickets -> {"none", "ACTIVE"} \cup Closed]
          /\ \A u \in Tickets : u # ticket[s] => local'[u] = local[u]
          /\ local[ticket[s]] \in Closed => local'[ticket[s]] = local[ticket[s]]
          /\ local'[ticket[s]] = local[ticket[s]] \/ local'[ticket[s]] = fetched[s]
      BY <1>0, <2>1, <3>1, SyncEffect
    <3> QED
      BY <1>0, <1>3, <3>2 DEF Sync, Closed
  <2>2. CASE UNCHANGED local
    BY <1>3, <2>2 DEF Sync
  <2> QED
    BY <1>3, <2>1, <2>2 DEF Sync
<1>4. CASE CheckIn(s)
  <2>1. /\ local' \in [Tickets -> {"none", "ACTIVE"} \cup Closed]
        /\ \A u \in Tickets : u # ticket[s] => local'[u] = local[u]
        /\ local[ticket[s]] # "ACTIVE" => local'[ticket[s]] = local[ticket[s]]
        /\ local[ticket[s]] = "ACTIVE" => local'[ticket[s]] = "CHECKED_IN"
    BY <1>0, <1>4, CheckInEffect DEF CheckIn
  <2>2. CASE local[ticket[s]] = "ACTIVE"
    <3>1. accepted[ticket[s]] = 0
      BY <1>0, <2>2 DEF Closed
    <3>2. accepted' = [accepted EXCEPT ![ticket[s]] = 1]
      BY <1>4, <2>2, <3>1 DEF CheckIn
    <3> QED
      BY <1>0, <1>4, <2>1, <2>2, <3>1, <3>2 DEF CheckIn, Closed
  <2>3. CASE local[ticket[s]] # "ACTIVE"
    <3>1. local' = local
      BY <1>0, <2>1, <2>3
    <3>2. UNCHANGED accepted /\ Goto(s, "idle")
      BY <1>4, <2>3 DEF CheckIn
    <3> QED
      BY <1>4, <3>1, <3>2 DEF CheckIn
  <2> QED
    BY <2>2, <2>3
<1>5. CASE CheckInError(s)
  <2>1. CASE UNCHANGED local
    BY <1>5, <2>1 DEF CheckInError
  <2>2. CASE local' = [local EXCEPT ![ticket[s]] = Updated(ticket[s], "CHECKED_IN")]
    <3>1. /\ local' \in [Tickets -> {"none", "ACTIVE"} \cup Closed]
          /\ \A u \in Tickets : u # ticket[s] => local'[u] = local[u]
          /\ local[ticket[s]] # "ACTIVE" => local'[ticket[s]] = local[ticket[s]]
          /\ local[ticket[s]] = "ACTIVE" => local'[ticket[s]] = "CHECKED_IN"
      BY <1>0, <2>2, CheckInEffect
    <3> QED
      BY <1>0, <1>5, <3>1 DEF CheckInError, Closed
  <2> QED
    BY <1>5, <2>1, <2>2 DEF CheckInError
<1>6. CASE Publish(s)
  BY <1>0, <1>6 DEF Publish
<1> QED
  BY <1>1, <1>2, <1>3, <1>4, <1>5, <1>6 DEF ScanStep

LEMMA NextInv == GateInv /\ [Next]_vars => GateInv'
<1> SUFFICES ASSUME GateInv, [Next]_vars PROVE GateInv'
  OBVIOUS
<1>1. CASE Crash
  BY <1>1 DEF Crash, GateInv, TypeOK, IssuedInv, AcceptedInv, UsedInv
<1>2. CASE CalmDown \/ UNCHANGED vars
  BY <1>2 DEF CalmDown, vars, scanVars, GateInv, TypeOK, IssuedInv, AcceptedInv, UsedInv
<1> QED
  BY <1>1, <1>2, IssueInv, ConsumeScannedInv, ConsumeCreatedInv, ScanInv, ScanStepInv DEF Next

THEOREM AlwaysGateInv == Spec => []GateInv
  BY InitInv, NextInv, PTL DEF Spec

\* The types of rows, copies, topics and scans.
THEOREM TypeCorrect == Spec => []TypeOK
<1>1. GateInv => TypeOK
  BY DEF GateInv
<1> QED  BY <1>1, AlwaysGateInv, PTL

\* No ticket is accepted twice, at however many gates it is scanned at once.
THEOREM OneEntryPerTicket == Spec => []NoDoubleEntry
<1>1. GateInv => NoDoubleEntry
  BY DEF GateInv, AcceptedInv, NoDoubleEntry
<1> QED
  BY <1>1, AlwaysGateInv, PTL

\* Only tickets that exist are accepted, and USED is never said of another.
THEOREM CopiesAreTruthful == Spec => [](OnlyIssuedEnter /\ UsedMeansEntered)
<1>1. GateInv => OnlyIssuedEnter /\ UsedMeansEntered
  BY DEF GateInv, TypeOK, IssuedInv, AcceptedInv, UsedInv, OnlyIssuedEnter, UsedMeansEntered,
         Closed
<1> QED
  BY <1>1, AlwaysGateInv, PTL

\* A scan gets past the checks only at the gate of its ticket's event.
THEOREM EntersAtRightGate == Spec => []RightGate
<1>1. Init => RightGate
  BY DEF Init, RightGate
<1>2. TypeOK /\ RightGate /\ [Next]_vars => RightGate'
  <2> SUFFICES ASSUME TypeOK, RightGate, [Next]_vars PROVE RightGate'
    OBVIOUS
  <2> USE DEF TypeOK, RightGate, Goto
  <2>1. ASSUME NEW s \in Scanners, ScanStep(s)
        PROVE  RightGate'
    BY <2>1 DEF ScanStep, Fetch, FetchNothing, Sync, Lookup, Passes, WrongEvent, CheckIn,
                CheckInError, Publish
  <2>2. ASSUME NEW s \in Scanners, NEW t \in Tickets, NEW e \in Events \cup {NoEvent},
               Scan(s, t, e)
        PROVE  RightGate'
    BY <2>2 DEF Scan
  <2>3. CASE Crash
    BY <2>3 DEF Crash
  <2>4. CASE UNCHANGED vars \/ CalmDown \/ \E t \in Tickets : Issue(t) \/ ConsumeScanned(t) \/ ConsumeCreated(t)
    BY <2>4 DEF vars, scanVars, CalmDown, Issue, ConsumeScanned, ConsumeCreated
  <2> QED
    BY <2>1, <2>2, <2>3, <2>4 DEF Next
<1>3. Spec => []TypeOK
  BY AlwaysGateInv, PTL DEF GateInv
<1> QED
  BY <1>1, <1>2, <1>3, PTL DEF Spec

\* Late, repeated and stale copies never reopen a closed ticket.
THEOREM NeverReopened == Spec => ClosedStaysClosed
<1>1. TypeOK /\ [Next]_vars =>
        [\A t \in Tickets : local[t] \in Closed => local'[t] \in Closed]_vars
  <2> SUFFICES ASSUME TypeOK, Next, NEW t \in Tickets, local[t] \in Closed
               PROVE  local'[t] = local[t]
    OBVIOUS
  <2> USE DEF TypeOK, SyncTicket, Updated, Closed
  <2>1. ASSUME NEW s \in Scanners, ScanStep(s)
        PROVE  local'[t] = local[t]
    BY <2>1 DEF ScanStep, Fetch, FetchNothing, Sync, Lookup, CheckIn, CheckInError, Publish
  <2>2. ASSUME NEW u \in Tickets, ConsumeCreated(u)
        PROVE  local'[t] = local[t]
    BY <2>2 DEF ConsumeCreated
  <2> QED
    BY <2>1, <2>2 DEF Next, Issue, ConsumeScanned, Scan, Crash, CalmDown
<1>2. Spec => []TypeOK
  BY AlwaysGateInv, PTL DEF GateInv
<1> QED
  BY <1>1, <1>2, PTL DEF Spec, ClosedStaysClosed

-----------------------------------------------------------------------------
(***************************************************************************)
(* Refinement: every step of the two services is a step of AdmitOnce, or   *)
(* leaves issued, accepted and reported alone.                             *)
(***************************************************************************)
\* With the invariant, a check-in is accepted for the first time only.
LEMMA FirstAcceptance ==
  ASSUME GateInv, NEW s \in Scanners, CheckIn(s), accepted' # accepted
  PROVE  /\ accepted[ticket[s]] = 0
         /\ central[ticket[s]] # "none"
         /\ accepted' = [accepted EXCEPT ![ticket[s]] = 1]
  BY DEF GateInv, TypeOK, IssuedInv, AcceptedInv, CheckIn, Closed

LEMMA StepImplements == GateInv /\ [Next]_vars => [Promise!Next]_(Promise!vars)
<1> SUFFICES ASSUME GateInv, [Next]_vars
             PROVE  Promise!Next \/ UNCHANGED Promise!vars
  OBVIOUS
<1> USE DEF Promise!vars
<1>1. ASSUME NEW t \in Tickets, Issue(t)
      PROVE  Promise!Issue(t)
  BY <1>1 DEF Issue, Promise!Issue, GateInv, TypeOK
<1>2. ASSUME NEW t \in Tickets, ConsumeScanned(t), central' # central
      PROVE  Promise!Report(t)
  <2>1. /\ central' = [central EXCEPT ![t] = "USED"]
        /\ UNCHANGED accepted
        /\ accepted[t] = 1
    BY <1>2 DEF ConsumeScanned, GateInv, UsedInv
  <2>2. central[t] = "ACTIVE"
    BY <1>2, <2>1 DEF GateInv, TypeOK, IssuedInv, AcceptedInv, Closed
  <2> QED
    BY <2>1, <2>2 DEF Promise!Report, GateInv, TypeOK
<1>3. ASSUME NEW s \in Scanners, CheckIn(s), accepted' # accepted
      PROVE  Promise!Enter(ticket[s])
  BY <1>3, FirstAcceptance DEF CheckIn, Promise!Enter, GateInv, TypeOK
<1>4. ASSUME UNCHANGED <<central, accepted>>
      PROVE  UNCHANGED Promise!vars
  BY <1>4
<1>5. ASSUME NEW s \in Scanners, ScanStep(s)
      PROVE  UNCHANGED <<central, accepted>> \/ (CheckIn(s) /\ accepted' # accepted)
  BY <1>5 DEF ScanStep, Fetch, FetchNothing, Sync, Lookup, CheckIn, CheckInError, Publish
<1>6. ASSUME NEW t \in Tickets, ConsumeScanned(t), central' = central
      PROVE  UNCHANGED <<central, accepted>>
  BY <1>6 DEF ConsumeScanned
<1>7. CASE \/ \E t \in Tickets : ConsumeCreated(t)
           \/ \E s \in Scanners, t \in Tickets, e \in Events \cup {NoEvent} : Scan(s, t, e)
           \/ Crash \/ CalmDown
           \/ UNCHANGED vars
  BY <1>4, <1>7 DEF ConsumeCreated, Scan, Crash, CalmDown, vars
<1>8. \A s \in Scanners : ticket[s] \in Tickets
  BY DEF GateInv, TypeOK
<1> QED
  BY <1>1, <1>2, <1>3, <1>4, <1>5, <1>6, <1>7, <1>8 DEF Next, Promise!Next

\* The two services together do what AdmitOnce promises.
THEOREM Implements == Spec => AdmitsOnce
<1>1. Init => Promise!Init
  BY DEF Init, Promise!Init
<1> QED
  BY <1>1, StepImplements, AlwaysGateInv, PTL DEF Spec, AdmitsOnce, Promise!Spec
=============================================================================
