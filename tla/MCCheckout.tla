----------------------------- MODULE MCCheckout -----------------------------
(***************************************************************************)
(* Instances of Checkout for TLC.                                          *)
(***************************************************************************)
EXTENDS Checkout, TLC

\* Requests, orders and keys are interchangeable; no liveness is checked.
Symmetry == Permutations(Procs) \cup Permutations(Orders) \cup Permutations(IdemKeys)
=============================================================================
