------------------------------- MODULE Sched --------------------------------
(***************************************************************************)
(* The scheduler: kernel/task/sched.c, a multi-level feedback queue with a *)
(* periodic boost, and the system calls of kernel/task/syscall.c that move *)
(* threads in and out of it.                                               *)
(*                                                                         *)
(* One processor, and system calls run with interrupts masked, so every    *)
(* entry is one step and a tick only interrupts user code.  Which event    *)
(* blocks or wakes a thread is left open here: Ipc has those.  A system    *)
(* call that wakes several threads, or wakes one and blocks, is several    *)
(* steps of this module.                                                   *)
(***************************************************************************)
EXTENDS Naturals, Sequences

CONSTANTS
  Thread,
  Root,           \* the first thread
  Pager,          \* Pager[t]: pager_tid of t
  QUANTUM_TICKS,  \* ticks per quantum, by level
  BOOST_PERIOD,   \* ticks between two boosts
  UINT32,         \* 2^32: what current_level and time_quantum_left hold
  SetLevels,      \* the levels SYS_SCHEDULE is called with
  SetQuanta       \* the quanta SYS_SCHEDULE is called with

(* MLFQ_LEVELS is 4 *)
Level == 0..3

ASSUME SchedAssumption ==
  /\ Root \in Thread
  /\ Pager \in [Thread -> Thread]
  /\ BOOST_PERIOD \in Nat \ {0}
  /\ UINT32 \in Nat
  /\ QUANTUM_TICKS \in [Level -> 1..(UINT32 - 1)]
  /\ UINT32 > 3
  /\ SetLevels \subseteq 0..(UINT32 - 1)
  /\ SetQuanta \subseteq 0..(UINT32 - 1)

VARIABLES
  state,       \* thread state
  current,     \* curcpu->current
  runq,        \* curcpu->runq
  level,       \* current_level
  quantum,     \* time_quantum_left
  sched_ticks, \* modulo BOOST_PERIOD, the only way it is used
  registered   \* the threads thread_lookup finds

vars == <<state, current, runq, level, quantum, sched_ticks, registered>>

(* sched_boot has picked the root thread; the others are created later. *)
Init ==
  /\ state = [t \in Thread |-> IF t = Root THEN "RUNNING" ELSE "CREATED"]
  /\ current = Root
  /\ runq = [l \in Level |-> <<>>]
  /\ level = [t \in Thread |-> 0]
  /\ quantum = [t \in Thread |-> IF t = Root THEN QUANTUM_TICKS[0] ELSE 0]
  /\ sched_ticks = 0
  /\ registered = Thread

-----------------------------------------------------------------------------
(* Helpers on the run queues. *)

AddTail(q, l, t) == [q EXCEPT ![l] = Append(q[l], t)]

RemoveIndex(s, i) ==
  [k \in 1..(Len(s) - 1) |-> IF k < i THEN s[k] ELSE s[k + 1]]

AllEmpty(q) == \A l \in Level : q[l] = <<>>

(* The level sched_pick takes a thread from. *)
PickLevel(q) ==
  CHOOSE l \in Level : /\ q[l] # <<>>
                       /\ \A m \in Level : m < l => q[m] = <<>>

(* Everyone queued below level 0 joins its tail, level by level. *)
Boosted(q) ==
  [l \in Level |-> IF l = 0 THEN ((q[0] \o q[1]) \o q[2]) \o q[3] ELSE <<>>]

Lowered(q) ==
  {t \in Thread : \E l \in Level \ {0} : \E i \in 1..Len(q[l]) : q[l][i] = t}

(* sched_pick, and the switch to the thread it finds; with none, the       *)
(* kernel halts (sched_block, sched_exit).  st and q are the states and    *)
(* the queues once the current thread has left the processor.              *)
Switch(st, q) ==
  IF AllEmpty(q)
  THEN state' = st /\ runq' = q /\ UNCHANGED current
  ELSE LET l == PickLevel(q) IN
       /\ current' = Head(q[l])
       /\ state' = [st EXCEPT ![Head(q[l])] = "RUNNING"]
       /\ runq' = [q EXCEPT ![l] = Tail(q[l])]

(* The kernel has not halted. *)
Running == state[current] = "RUNNING"

-----------------------------------------------------------------------------
(* The timer. *)

(* Mutant of Boost: an off-by-one in the period, so that none happens. *)
BoostNever(lv, qu, q) == [level |-> lv, quantum |-> qu, runq |-> q]

(* level, quantum and queues after the boost, if this tick boosts *)
Boost(lv, qu, q) ==
  IF sched_ticks = BOOST_PERIOD - 1
  THEN LET up == Lowered(q) \cup {current} IN
       [level   |-> [t \in Thread |-> IF t \in up THEN 0 ELSE lv[t]],
        quantum |-> [t \in Thread |-> IF t \in up THEN QUANTUM_TICKS[0] ELSE qu[t]],
        runq    |-> Boosted(q)]
  ELSE [level |-> lv, quantum |-> qu, runq |-> q]

(* Mutant of TickStay: the counter is signed and goes below zero. *)
TickStaySigned ==
  LET B == Boost(level, [quantum EXCEPT ![current] = quantum[current] - 1], runq) IN
  /\ Running
  /\ quantum[current] # 1
  /\ level' = B.level
  /\ quantum' = B.quantum
  /\ runq' = B.runq
  /\ UNCHANGED <<state, current>>

(* the quantum is not used up *)
TickStay ==
  LET left == IF quantum[current] = 0 THEN UINT32 - 1 ELSE quantum[current] - 1
      B    == Boost(level, [quantum EXCEPT ![current] = left], runq) IN
  /\ Running
  /\ left # 0
  /\ level' = B.level
  /\ quantum' = B.quantum
  /\ runq' = B.runq
  /\ UNCHANGED <<state, current>>

(* The quantum is used up: one level down, and the next thread.  A level   *)
(* above 3 stays, and indexes past the ends of QUANTUM_TICKS and runq:     *)
(* what list_add_tail then writes to is not modelled, and a behaviour ends *)
(* before that.                                                            *)
TickExpire ==
  LET down == IF level[current] < 3 THEN level[current] + 1 ELSE level[current]
      B    == Boost([level EXCEPT ![current] = down],
                    [quantum EXCEPT ![current] = QUANTUM_TICKS[down]],
                    AddTail(runq, down, current)) IN
  /\ Running
  /\ quantum[current] = 1
  /\ down \in Level
  /\ level' = B.level
  /\ quantum' = B.quantum
  /\ Switch([state EXCEPT ![current] = "READY"], B.runq)

sched_tick ==
  /\ TickStay \/ TickExpire
  /\ sched_ticks' = IF sched_ticks = BOOST_PERIOD - 1 THEN 0 ELSE sched_ticks + 1
  /\ UNCHANGED registered

-----------------------------------------------------------------------------
(* System calls of the current thread. *)

(* SYS_THREAD_SWITCH; a level above 3 as in TickExpire *)
sched_yield ==
  /\ Running
  /\ level[current] \in Level
  /\ quantum' = [quantum EXCEPT ![current] = QUANTUM_TICKS[level[current]]]
  /\ Switch([state EXCEPT ![current] = "READY"],
            AddTail(runq, level[current], current))
  /\ UNCHANGED <<level, sched_ticks, registered>>

sched_block ==
  /\ Running
  /\ Switch([state EXCEPT ![current] = "BLOCKED"], runq)
  /\ UNCHANGED <<level, quantum, sched_ticks, registered>>

sched_enqueue(t) ==
  /\ level' = [level EXCEPT ![t] = 0]
  /\ state' = [state EXCEPT ![t] = "READY"]
  /\ quantum' = [quantum EXCEPT ![t] = QUANTUM_TICKS[0]]
  /\ runq' = AddTail(runq, 0, t)
  /\ UNCHANGED <<current, sched_ticks, registered>>

sched_wakeup(t) ==
  /\ Running
  /\ state[t] = "BLOCKED"
  /\ sched_enqueue(t)

(* Mutant of Activate: no test that the thread is CREATED. *)
ActivateAny(t) ==
  /\ Running
  /\ t \in registered
  /\ sched_enqueue(t)

(* EXR_ACTIVATE *)
Activate(t) ==
  /\ Running
  /\ t \in registered
  /\ state[t] = "CREATED"
  /\ sched_enqueue(t)

(* Mutant of Deactivate: the thread stays in the run queue. *)
DeactivateLinked(t) ==
  /\ Running
  /\ t \in registered
  /\ state[t] # "RUNNING"
  /\ state' = [state EXCEPT ![t] = "CREATED"]
  /\ UNCHANGED <<current, runq, level, quantum, sched_ticks, registered>>

(* EXR_DEACTIVATE; sched_dequeue unlinks a READY thread from the queue it is in *)
Deactivate(t) ==
  /\ Running
  /\ t \in registered
  /\ state[t] # "RUNNING"
  /\ state' = [state EXCEPT ![t] = "CREATED"]
  /\ IF state[t] = "READY"
     THEN \E l \in Level : \E i \in 1..Len(runq[l]) :
            /\ runq[l][i] = t
            /\ runq' = [runq EXCEPT ![l] = RemoveIndex(runq[l], i)]
     ELSE UNCHANGED runq
  /\ UNCHANGED <<current, level, quantum, sched_ticks, registered>>

(* TC_DESTROY: sched_exit ends the caller when the target may run.         *)
DestroyRunnable(t) ==
  /\ Running
  /\ t \in registered
  /\ Pager[t] = current
  /\ state[t] \in {"READY", "RUNNING"}
  /\ Switch([state EXCEPT ![current] = "TERMINATED"], runq)
  /\ UNCHANGED <<level, quantum, sched_ticks, registered>>

DestroyIdle(t) ==
  /\ Running
  /\ t \in registered
  /\ Pager[t] = current
  /\ state[t] \notin {"READY", "RUNNING"}
  /\ registered' = registered \ {t}
  /\ UNCHANGED <<state, current, runq, level, quantum, sched_ticks>>

(* SYS_SCHEDULE: any level and any quantum that fit into 32 bits are       *)
(* stored; an argument of -1 keeps the old value.                          *)
SysSchedule(t, l, q) ==
  /\ Running
  /\ t \in registered
  /\ level' = [level EXCEPT ![t] = l]
  /\ quantum' = [quantum EXCEPT ![t] = q]
  /\ UNCHANGED <<state, current, runq, sched_ticks, registered>>

Next ==
  \/ sched_tick
  \/ sched_yield
  \/ sched_block
  \/ \E t \in Thread :
       \/ sched_wakeup(t)
       \/ Activate(t)
       \/ Deactivate(t)
       \/ DestroyRunnable(t)
       \/ DestroyIdle(t)
       \/ \E l \in SetLevels \cup {level[t]}, q \in SetQuanta \cup {quantum[t]} :
            SysSchedule(t, l, q)

Spec == Init /\ [][Next]_vars

(* The timer is periodic, and user code runs with interrupts enabled. *)
FairSpec == Spec /\ WF_vars(sched_tick)

-----------------------------------------------------------------------------
(* Properties. *)

(* Every field keeps to the values its C type stands for; level is any     *)
(* number of 32 bits, not only one that has a queue.                       *)
TypeOK ==
  /\ state \in [Thread -> {"CREATED", "READY", "RUNNING", "BLOCKED", "TERMINATED"}]
  /\ current \in Thread
  /\ runq \in [Level -> Seq(Thread)]
  /\ level \in [Thread -> 0..(UINT32 - 1)]
  /\ quantum \in [Thread -> 0..(UINT32 - 1)]
  /\ sched_ticks \in 0..(BOOST_PERIOD - 1)
  /\ registered \subseteq Thread

(* A queued thread is READY ... *)
QueuedReady ==
  \A l \in Level : \A i \in 1..Len(runq[l]) : state[runq[l][i]] = "READY"

(* ... is queued in one place only, so that list_add_tail never links a    *)
(* sched_list that is linked already ...                                   *)
QueuedOnce ==
  \A l, m \in Level : \A i \in 1..Len(runq[l]), j \in 1..Len(runq[m]) :
    runq[l][i] = runq[m][j] => l = m /\ i = j

(* ... and a READY thread is queued, so that sched_pick will find it and   *)
(* the list_del of sched_dequeue has something to unlink.                  *)
ReadyQueued ==
  \A t \in Thread : state[t] = "READY" =>
    \E l \in Level : \E i \in 1..Len(runq[l]) : runq[l][i] = t

(* "ready (in RunQueue)" (thread.h): READY means linked into exactly one   *)
(* run queue, exactly once, through ticks, boosts, yields, wake-ups,       *)
(* deactivations and SYS_SCHEDULE.                                         *)
ReadyIffQueued == QueuedReady /\ QueuedOnce /\ ReadyQueued

(* Only the current thread is RUNNING. *)
OnlyCurrentRuns == \A t \in Thread : state[t] = "RUNNING" => t = current

(* As long as nobody uses SYS_SCHEDULE a queued thread is in the queue of  *)
(* its own level, and whoever may run has between one tick and its level's *)
(* quantum left: the decrement of sched_tick never meets a zero, and a     *)
(* boost leaves no stale level or quantum behind.                          *)
QuantumInBudget ==
  /\ \A l \in Level : \A i \in 1..Len(runq[l]) : level[runq[l][i]] = l
  /\ \A t \in Thread : state[t] \in {"READY", "RUNNING"} =>
       quantum[t] \in 1..QUANTUM_TICKS[level[t]]

(* A READY thread gets the processor (or is deactivated), however the      *)
(* others yield, block and wake: the boost lifts it out of a low level.    *)
NoStarvation ==
  \A t \in Thread : state[t] = "READY" ~> state[t] # "READY"

D == INSTANCE Dispatch

(* The scheduler implements Dispatch: one thread runs, only READY threads  *)
(* are picked, and the kernel halts only when there is none.               *)
ImplementsDispatch == D!Spec
=============================================================================
