------------------------------ MODULE SpinLock ------------------------------
(***************************************************************************)
(* The ticket spin lock of kernel/misc/lock.c, shared by a set of          *)
(* processors.  Each step is one access to the lock word it shares: the    *)
(* fetch-and-add of spin_lock, a successful read of its spin loop, the     *)
(* reads and the compare-and-swap of spin_trylock, and the load and the    *)
(* store that now_serving++ (a plain volatile increment) is made of.       *)
(* Tickets are W-bit words in the code and wrap around.                    *)
(***************************************************************************)
EXTENDS Naturals, FiniteSets

CONSTANTS
  CPU,       \* the processors
  W,         \* the number of tickets: 2^32 in the code
  TryCpus    \* the processors that use spin_trylock

(* MAX_CPUS is 255, far below 2^32. *)
ASSUME TicketAssumption ==
  /\ IsFiniteSet(CPU)
  /\ W \in Nat
  /\ Cardinality(CPU) < W
  /\ TryCpus \subseteq CPU

VARIABLES
  now_serving,
  next_ticket,
  ticket,      \* `ticket' of a processor in spin_lock, or the one it holds
  seen,        \* the value of now_serving a processor has loaded
  pc

vars == <<now_serving, next_ticket, ticket, seen, pc>>

Ticket == 0..(W - 1)

(* uint32_t increment *)
Inc(x) == IF x = W - 1 THEN 0 ELSE x + 1

(* How many increments lead from a to b. *)
Dist(a, b) == IF a <= b THEN b - a ELSE (b + W) - a

spin_lock_init ==
  /\ now_serving = 0
  /\ next_ticket = 0
  /\ ticket = [c \in CPU |-> 0]
  /\ seen = [c \in CPU |-> 0]
  /\ pc = [c \in CPU |-> "idle"]

Trying(c) == pc[c] \in {"try", "cas"}

(* Fewer than 2^32 tickets are drawn while a processor is between the two  *)
(* loads and the compare-and-swap of spin_trylock (a few instructions).    *)
NoLap == \A c \in CPU : Trying(c) => Inc(next_ticket) # seen[c]

Goto(c, l) == pc' = [pc EXCEPT ![c] = l]

(* spin_lock: __sync_fetch_and_add(&lock->next_ticket, 1) *)
DrawTicket(c) ==
  /\ pc[c] = "idle"
  /\ NoLap
  /\ ticket' = [ticket EXCEPT ![c] = next_ticket]
  /\ next_ticket' = Inc(next_ticket)
  /\ Goto(c, "spin")
  /\ UNCHANGED <<now_serving, seen>>

(* spin_lock: the loop ends *)
SpinDone(c) ==
  /\ pc[c] = "spin"
  /\ now_serving = ticket[c]
  /\ Goto(c, "held")
  /\ UNCHANGED <<now_serving, next_ticket, ticket, seen>>

(* Mutant of TryLoad: the wrong counter is read. *)
TryLoadNext(c) ==
  /\ pc[c] = "idle"
  /\ c \in TryCpus
  /\ seen' = [seen EXCEPT ![c] = next_ticket]
  /\ Goto(c, "try")
  /\ UNCHANGED <<now_serving, next_ticket, ticket>>

(* spin_trylock: serving = lock->now_serving *)
TryLoad(c) ==
  /\ pc[c] = "idle"
  /\ c \in TryCpus
  /\ seen' = [seen EXCEPT ![c] = now_serving]
  /\ Goto(c, "try")
  /\ UNCHANGED <<now_serving, next_ticket, ticket>>

(* spin_trylock: lock->next_ticket != serving returns false *)
TryTest(c) ==
  /\ pc[c] = "try"
  /\ Goto(c, IF next_ticket # seen[c] THEN "idle" ELSE "cas")
  /\ UNCHANGED <<now_serving, next_ticket, ticket, seen>>

(* Mutant of TryCas: a plain store instead of a compare-and-swap. *)
TryStore(c) ==
  /\ pc[c] = "cas"
  /\ next_ticket' = Inc(seen[c])
  /\ ticket' = [ticket EXCEPT ![c] = seen[c]]
  /\ Goto(c, "held")
  /\ UNCHANGED <<now_serving, seen>>

(* spin_trylock: __sync_bool_compare_and_swap on next_ticket *)
TryCas(c) ==
  /\ pc[c] = "cas"
  /\ IF next_ticket = seen[c]
     THEN /\ \A d \in CPU \ {c} : Trying(d) => Inc(next_ticket) # seen[d]
          /\ next_ticket' = Inc(seen[c])
          /\ ticket' = [ticket EXCEPT ![c] = seen[c]]
          /\ Goto(c, "held")
     ELSE /\ Goto(c, "idle")
          /\ UNCHANGED <<next_ticket, ticket>>
  /\ UNCHANGED <<now_serving, seen>>

(* spin_unlock: now_serving++, the load *)
UnlockLoad(c) ==
  /\ pc[c] = "held"
  /\ seen' = [seen EXCEPT ![c] = now_serving]
  /\ Goto(c, "release")
  /\ UNCHANGED <<now_serving, next_ticket, ticket>>

(* Mutant of UnlockStore: the next in line is skipped. *)
UnlockSkip(c) ==
  /\ pc[c] = "release"
  /\ now_serving' = next_ticket
  /\ Goto(c, "idle")
  /\ UNCHANGED <<next_ticket, ticket, seen>>

(* spin_unlock: now_serving++, the store *)
UnlockStore(c) ==
  /\ pc[c] = "release"
  /\ now_serving' = Inc(seen[c])
  /\ Goto(c, "idle")
  /\ UNCHANGED <<next_ticket, ticket, seen>>

Step(c) ==
  \/ SpinDone(c)
  \/ TryTest(c) \/ TryCas(c)
  \/ UnlockLoad(c) \/ UnlockStore(c)

Next == \E c \in CPU : DrawTicket(c) \/ TryLoad(c) \/ Step(c)

Spec == spin_lock_init /\ [][Next]_vars

(* A processor inside the lock code keeps executing: critical sections are *)
(* finite and run with interrupts off.                                     *)
FairSpec == Spec /\ \A c \in CPU : WF_vars(Step(c))

-----------------------------------------------------------------------------
(* Properties. *)

(* Every word keeps to its width. *)
TypeOK ==
  /\ now_serving \in Ticket
  /\ next_ticket \in Ticket
  /\ ticket \in [CPU -> Ticket]
  /\ seen \in [CPU -> Ticket]
  /\ pc \in [CPU -> {"idle", "spin", "try", "cas", "held", "release"}]

Inside(c) == pc[c] \in {"held", "release"}

(* The processors that own a ticket not yet served. *)
Active(c) == pc[c] = "spin" \/ Inside(c)

(* At most one processor is between spin_lock (or a successful             *)
(* spin_trylock) and the store of spin_unlock, also after tickets wrap.    *)
MutualExclusion ==
  \A c, d \in CPU : Inside(c) /\ Inside(d) => c = d

(* A processor that drew a ticket gets the lock. *)
LockGranted ==
  \A c \in CPU : pc[c] = "spin" ~> pc[c] = "held"

(* The tickets from now_serving up to next_ticket, as a queue of owners. *)
ticketQueue ==
  [i \in 1..Dist(now_serving, next_ticket) |->
     CHOOSE c \in CPU : Active(c) /\ Dist(now_serving, ticket[c]) = i - 1]

Abs == INSTANCE FifoLock WITH
         queue <- ticketQueue,
         inside <- {c \in CPU : Inside(c)}

(* The lock is a FIFO lock: it is entered in the order tickets were drawn, *)
(* and a trylock succeeds only on a lock nobody holds or waits for.        *)
ImplementsFifoLock == Abs!Spec

(* The inductive invariant behind mutual exclusion. *)

(* Every owner's ticket lies in the window between the two counters. *)
TicketsInWindow ==
  \A c \in CPU : Active(c) =>
    Dist(now_serving, ticket[c]) < Dist(now_serving, next_ticket)

(* No two owners share a ticket. *)
TicketsDistinct ==
  \A c, d \in CPU : Active(c) /\ Active(d) /\ ticket[c] = ticket[d] => c = d

(* Every ticket of the window has an owner, so the window is no longer     *)
(* than the number of processors and never wraps onto itself.              *)
WindowOwned ==
  \A x \in Ticket : Dist(now_serving, x) < Dist(now_serving, next_ticket) =>
    \E c \in CPU : Active(c) /\ ticket[c] = x

(* The holder's ticket is the one being served. *)
HolderServed ==
  \A c \in CPU :
    /\ Inside(c) => ticket[c] = now_serving
    /\ pc[c] = "release" => seen[c] = now_serving

(* What spin_trylock loaded is not ahead of the counters. *)
TrySeenBehind ==
  \A c \in CPU : Trying(c) =>
    Dist(seen[c], now_serving) <= Dist(seen[c], next_ticket)

IInv ==
  /\ TypeOK
  /\ TicketsInWindow
  /\ TicketsDistinct
  /\ WindowOwned
  /\ HolderServed
  /\ TrySeenBehind
=============================================================================
