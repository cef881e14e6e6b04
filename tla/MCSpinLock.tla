----------------------------- MODULE MCSpinLock -----------------------------
(* Three processors and few tickets, so that the counters wrap. *)
EXTENDS SpinLock, TLC

CONSTANTS p1, p2, p3

Processors == {p1, p2, p3}
=============================================================================
