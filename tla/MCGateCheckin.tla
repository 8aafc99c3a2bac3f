--------------------------- MODULE MCGateCheckin ---------------------------
(***************************************************************************)
(* GateCheckin with one ticket and a second event whose gate must refuse   *)
(* it.  Rows and messages of different tickets never touch each other.     *)
(***************************************************************************)
EXTENDS GateCheckin, TLC

CONSTANTS t1, e1, e2

OneTicket == t1 :> e1
=============================================================================
