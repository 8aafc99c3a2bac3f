--------------------------- MODULE MCWithdrawals ---------------------------
(***************************************************************************)
(* An instance of Withdrawals for TLC: the functions of its constants.     *)
(***************************************************************************)
EXTENDS Withdrawals, TLC

CONSTANTS g1, e1, o1

MCOwnerOf == e1 :> g1
MCEventOf == o1 :> e1
MCBy == [p \in Calls |-> g1]
=============================================================================
