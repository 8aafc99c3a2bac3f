--------------------------- MODULE MCTicketStock ---------------------------
(***************************************************************************)
(* TicketStock on small instances.  The requests are interchangeable, and  *)
(* so are the organizers; the symmetry is used by the runs that check no   *)
(* liveness.                                                               *)
(***************************************************************************)
EXTENDS TicketStock, TLC

Symmetry == Permutations(Requests) \cup Permutations(Organizers)
=============================================================================
