---------------------------- MODULE MCSchedHeld -----------------------------
(* The instance of MCSched, with the clock of SchedHeld. *)
EXTENDS MCSched, SchedHeld
=============================================================================
