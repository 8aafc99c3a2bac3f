----------------------------- MODULE AdmitOnce -----------------------------
(***************************************************************************)
(* What gate-service and ticket-service promise together about a ticket:   *)
(* it is issued, then it lets its holder in at most once, and only then    *)
(* does the ticket service report it as used.                              *)
(***************************************************************************)
EXTENDS Naturals

CONSTANT Tickets

VARIABLES
    issued,     \* tickets that exist
    accepted,   \* how often each ticket opened the gate
    reported    \* tickets the statistics count as used

vars == <<issued, accepted, reported>>

Init ==
    /\ issued = {}
    /\ accepted = [t \in Tickets |-> 0]
    /\ reported = {}

Issue(t) ==
    /\ t \notin issued
    /\ issued' = issued \cup {t}
    /\ UNCHANGED <<accepted, reported>>

Enter(t) ==
    /\ t \in issued
    /\ accepted[t] = 0
    /\ accepted' = [accepted EXCEPT ![t] = 1]
    /\ UNCHANGED <<issued, reported>>

Report(t) ==
    /\ accepted[t] = 1
    /\ t \notin reported
    /\ reported' = reported \cup {t}
    /\ UNCHANGED <<issued, accepted>>

Next == \E t \in Tickets : Issue(t) \/ Enter(t) \/ Report(t)

Spec == Init /\ [][Next]_vars
=============================================================================
