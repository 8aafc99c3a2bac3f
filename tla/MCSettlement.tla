---------------------------- MODULE MCSettlement ----------------------------
(***************************************************************************)
(* Instances of Settlement for TLC.                                        *)
(***************************************************************************)
EXTENDS Settlement, TLC

\* Nothing has been read by a group yet, and there is one message at most for it.
Quiet(g) ==
    /\ g \in up /\ \A t \in TopicsOf[g] : pos[t] = 0 /\ At(t, "idle")
    /\ Cardinality(Messages(g)) <= 1

\* TLC follows one group at a time.  They meet in order.cancelled only, where
\* ticket-service publishes, and a buyer's cancellation does so without its group.
OneGroup == \E g \in Groups : Quiet(g)
=============================================================================
