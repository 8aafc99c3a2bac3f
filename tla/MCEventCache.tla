---------------------------- MODULE MCEventCache ----------------------------
(***************************************************************************)
(* Instances of EventCache for TLC.  No symmetry: liveness is checked.     *)
(***************************************************************************)
EXTENDS EventCache, TLC
=============================================================================
