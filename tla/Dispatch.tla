------------------------------ MODULE Dispatch ------------------------------
(***************************************************************************)
(* What the kernel promises about thread states, whatever policy picks the *)
(* next thread: one processor, one running thread, a thread runs only      *)
(* after it was READY, and a READY thread stays READY until it is picked   *)
(* or deactivated.  Sched (the multi-level feedback queue) and Ipc (the    *)
(* message operations) are both shown to implement this specification.     *)
(*                                                                         *)
(* A step is one kernel entry of the running thread: it may make other     *)
(* threads READY and may give the processor up.  When it gives it up and   *)
(* nobody is READY the kernel halts for ever with interrupts off.          *)
(***************************************************************************)
CONSTANT Thread

VARIABLES state,    \* thread_state_t of every thread
          current   \* curcpu->current

vars == <<state, current>>

ThreadState == {"CREATED", "READY", "RUNNING", "BLOCKED", "TERMINATED"}

Startable == {t \in Thread : state[t] \in {"CREATED", "BLOCKED"}}

Init ==
  /\ current \in Thread
  /\ state \in [Thread -> {"CREATED", "READY", "RUNNING"}]
  /\ \A t \in Thread : state[t] = "RUNNING" <=> t = current

(* The states once the threads of W have been woken or activated, and the  *)
(* running thread is in state s.                                           *)
After(W, s) ==
  [t \in Thread |-> IF t = current THEN s
                    ELSE IF t \in W THEN "READY" ELSE state[t]]

(* The running thread makes the threads of W READY and goes on. *)
Continue(W) ==
  /\ state' = After(W, "RUNNING")
  /\ UNCHANGED current

(* The running thread leaves the processor in state s, and a READY thread  *)
(* (possibly itself, when it only yielded) takes over.                     *)
GiveUp(W, s) ==
  \E next \in Thread :
    /\ After(W, s)[next] = "READY"
    /\ current' = next
    /\ state' = [t \in Thread |-> IF t = next THEN "RUNNING" ELSE After(W, s)[t]]

(* The same, with nobody to take over: no further step is ever taken. *)
Halt(W, s) ==
  /\ \A t \in Thread : After(W, s)[t] # "READY"
  /\ state' = After(W, s)
  /\ UNCHANGED current

(* Another thread is taken off whatever it was doing. *)
Deactivate(t) ==
  /\ state[t] # "RUNNING"
  /\ state' = [state EXCEPT ![t] = "CREATED"]
  /\ UNCHANGED current

Next ==
  /\ state[current] = "RUNNING"
  /\ \/ \E W \in SUBSET Startable :
          \/ Continue(W)
          \/ \E s \in {"READY", "BLOCKED", "TERMINATED"} :
               GiveUp(W, s) \/ Halt(W, s)
     \/ \E t \in Thread : Deactivate(t)

Spec == Init /\ [][Next]_vars
=============================================================================
