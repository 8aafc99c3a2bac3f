---------------------------- MODULE MCOrderQueue ----------------------------
(***************************************************************************)
(* Instances of OrderQueue for TLC.                                        *)
(***************************************************************************)
EXTENDS OrderQueue, TLC

\* Orders are interchangeable, those with a payer among themselves, in the runs
\* without liveness properties.
Symmetry == Permutations(Payers) \cup Permutations(Orders \ Payers)

\* What is explored with failures: any number of transactions of an order while one
\* order is still to be placed, or all orders with one state of payment each.
OnePayment ==
    \/ \E o \in Orders : status[o] = "none"
    \/ \A o \in Payers : Cardinality(money[o]) <= 1
=============================================================================
