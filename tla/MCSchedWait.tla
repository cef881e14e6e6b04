---------------------------- MODULE MCSchedWait -----------------------------
(* The instance of MCSched, with the clock of SchedWait. *)
EXTENDS MCSched, SchedWait
=============================================================================
