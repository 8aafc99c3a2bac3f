--------------------------- MODULE MCAuthSessions ---------------------------
(***************************************************************************)
(* Instances of AuthSessions for TLC.                                      *)
(***************************************************************************)
EXTENDS AuthSessions, FiniteSets, TLC

\* Requests, tokens and passwords are interchangeable; no liveness is checked.
Symmetry == Permutations(Procs) \cup Permutations(Tokens) \cup Permutations(Passwords)

\* What is explored: sessions of three tokens while the account stays as it was
\* registered, or everything together with two tokens.
Bound ==
    \/ Cardinality(made) <= 2
    \/ /\ role = "customer" /\ asked = {}
       /\ \A p \in Procs : req[p].pc \notin {"changeUpdate", "upgradeWrite"}
=============================================================================
