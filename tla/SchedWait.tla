----------------------------- MODULE SchedWait ------------------------------
(* Sched with a clock that counts the ticks one thread has been READY.     *)
EXTENDS Sched, FiniteSets

CONSTANT Watched

(* With a period of 1 the counter would not show that a tick happened; it  *)
(* is 50.  The first quantum is one tick: every boost gives the current    *)
(* thread all of it again, so one longer than the period would not end.    *)
(* Nobody has changed a level or a quantum with SYS_SCHEDULE.              *)
ASSUME WatchedAssumption ==
  /\ Watched \in Thread /\ IsFiniteSet(Thread)
  /\ BOOST_PERIOD > 1
  /\ QUANTUM_TICKS[0] = 1
  /\ SetLevels = {} /\ SetQuanta = {}

VARIABLE waited

WaitInit == Init /\ waited = 0

(* The wait goes on from READY to READY only. *)
WaitNext ==
  /\ Next
  /\ waited' = IF state[Watched] = "READY" /\ state'[Watched] = "READY"
               THEN IF sched_ticks' = sched_ticks THEN waited ELSE waited + 1
               ELSE 0

WaitSpec == WaitInit /\ [][WaitNext]_<<vars, waited>>

(* with the timer of FairSpec *)
FairWaitSpec == WaitSpec /\ WF_vars(sched_tick)

(* A READY thread waits for the ticks to the next boost and then for one   *)
(* first-level quantum of each other thread at most (the tick that gives   *)
(* it the processor is not waited for), however the others yield, block,   *)
(* wake and restart each other to stay at level 0.  That rests on levels   *)
(* and quanta that agree with the queues.                                  *)
BoundedWait ==
  /\ QuantumInBudget
  /\ waited < BOOST_PERIOD + (Cardinality(Thread) - 1) * QUANTUM_TICKS[0]
=============================================================================
