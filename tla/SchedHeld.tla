----------------------------- MODULE SchedHeld ------------------------------
(* Sched with a clock that counts the ticks the current thread has kept    *)
(* the processor.                                                          *)
EXTENDS Sched

(* With a period of 1 the counter would not show that a tick happened; it  *)
(* is 50.  The first quantum is one tick.                                  *)
ASSUME HeldAssumption == BOOST_PERIOD > 1 /\ QUANTUM_TICKS[0] = 1

VARIABLE held

HeldInit == Init /\ held = 0

(* The count begins anew when the thread is switched to, when its quantum  *)
(* is used up and when a system call gives it another quantum.             *)
HeldNext ==
  /\ Next
  /\ held' = IF sched_ticks' = sched_ticks
             THEN IF current' = current /\ quantum'[current] = quantum[current] THEN held ELSE 0
             ELSE IF quantum[current] = 1 THEN 0 ELSE held + 1

HeldSpec == HeldInit /\ [][HeldNext]_<<vars, held>>

(* SYS_SCHEDULE may set any quantum, and one of 0 wraps at the next tick   *)
(* and would last 2^32 ticks; but the boost cuts the quantum of whoever is *)
(* running, so that the thread gives way at the first tick after the next  *)
(* boost at the latest.                                                    *)
LongQuantumEnds == held <= BOOST_PERIOD
=============================================================================
