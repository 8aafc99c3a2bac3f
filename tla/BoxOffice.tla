----------------------------- MODULE BoxOffice -----------------------------
(***************************************************************************)
(* What everybody who sells tickets of one type takes the stock to be: a   *)
(* number of units that are left, and holders that have the others.  A     *)
(* holder is granted units only if that many are left, keeps them, or      *)
(* gives back what he was granted, once.                                   *)
(***************************************************************************)
EXTENDS Naturals

CONSTANTS
    Holders,        \* who may have units
    Total           \* units there are

VARIABLES
    left,           \* units nobody holds
    holds           \* units each holder has

vars == <<left, holds>>

Init ==
    /\ left = Total
    /\ holds = [h \in Holders |-> 0]

Grant(h, n) ==
    /\ holds[h] = 0
    /\ left' = left - n
    /\ holds' = [holds EXCEPT ![h] = n]

Return(h) ==
    /\ holds[h] > 0
    /\ left' = left + holds[h]
    /\ holds' = [holds EXCEPT ![h] = 0]

Next == \E h \in Holders : (\E n \in 1..left : Grant(h, n)) \/ Return(h)

Spec == Init /\ [][Next]_vars
=============================================================================
