--------------------------- MODULE SpinLockProofs ---------------------------
(* Mutual exclusion of the ticket lock, and that it is a FIFO lock, for    *)
(* every number of processors below the number of tickets.                 *)
EXTENDS SpinLock, Sequences, SequenceTheorems, FiniteSetTheorems, TLAPS

(* Increments stay in range and move the window as expected. *)
LEMMA IncType ==
  ASSUME NEW x \in Ticket
  PROVE  Inc(x) \in Ticket
  BY TicketAssumption DEF Inc, Ticket

(* A distance is a ticket, and zero only between equal tickets. *)
LEMMA DistType ==
  ASSUME NEW x \in Ticket, NEW y \in Ticket
  PROVE  /\ Dist(x, y) \in 0..(W - 1)
         /\ Dist(x, y) = 0 <=> x = y
  BY TicketAssumption DEF Dist, Ticket

(* Advancing the far end by one. *)
LEMMA DistIncRight ==
  ASSUME NEW x \in Ticket, NEW y \in Ticket, Inc(y) # x
  PROVE  Dist(x, Inc(y)) = Dist(x, y) + 1
  BY TicketAssumption DEF Dist, Inc, Ticket

(* The window that would close on itself is the longest one. *)
LEMMA DistLap ==
  ASSUME NEW x \in Ticket, NEW y \in Ticket, Inc(y) = x
  PROVE  Dist(x, y) = W - 1
  BY TicketAssumption DEF Dist, Inc, Ticket

(* Advancing the near end by one. *)
LEMMA DistIncLeft ==
  ASSUME NEW x \in Ticket, NEW y \in Ticket, x # y
  PROVE  Dist(Inc(x), y) = Dist(x, y) - 1
  BY TicketAssumption DEF Dist, Inc, Ticket

(* Two tickets equally far from a third are the same. *)
LEMMA DistInjective ==
  ASSUME NEW x \in Ticket, NEW y \in Ticket, NEW z \in Ticket,
         Dist(x, y) = Dist(x, z)
  PROVE  y = z
  BY TicketAssumption DEF Dist, Ticket

(* The ticket at a given distance. *)
LEMMA DistOnto ==
  ASSUME NEW x \in Ticket, NEW k \in 0..(W - 1)
  PROVE  \E y \in Ticket : Dist(x, y) = k
<1>1. CASE x + k < W
  <2>1. x + k \in Ticket /\ Dist(x, x + k) = k
    BY <1>1, TicketAssumption DEF Dist, Ticket
  <2> QED BY <2>1
<1>2. CASE x + k >= W
  <2>1. (x + k) - W \in Ticket /\ Dist(x, (x + k) - W) = k
    BY <1>2, TicketAssumption DEF Dist, Ticket
  <2> QED BY <2>1
<1> QED BY <1>1, <1>2, TicketAssumption DEF Ticket

(* Pigeonhole: while some processor owns no ticket the window has room, so *)
(* the next ticket to be drawn is not the one being served.                *)
LEMMA WindowHasRoom ==
  ASSUME TypeOK, WindowOwned, NEW c \in CPU, ~Active(c)
  PROVE  Inc(next_ticket) # now_serving
<1> SUFFICES ASSUME Inc(next_ticket) = now_serving PROVE FALSE
  OBVIOUS
<1> DEFINE S == Ticket \ {next_ticket}
           T == CPU \ {c}
           f == [x \in S |-> CHOOSE d \in T : Active(d) /\ ticket[d] = x]
<1>1. Dist(now_serving, next_ticket) = W - 1
  BY DistLap DEF TypeOK
<1>2. \A x \in S : \E d \in T : Active(d) /\ ticket[d] = x
  <2> TAKE x \in S
  <2>1. Dist(now_serving, x) # W - 1
    BY <1>1, DistInjective DEF TypeOK
  <2>2. Dist(now_serving, x) < Dist(now_serving, next_ticket)
    BY <1>1, <2>1, DistType, TicketAssumption DEF TypeOK
  <2> QED BY <2>2 DEF WindowOwned
<1>3. \A x \in S : f[x] \in T /\ ticket[f[x]] = x
  BY <1>2
<1>4. f \in Injection(S, T)
  BY <1>3 DEF Injection, IsInjective
<1>5. IsFiniteSet(T) /\ Cardinality(T) = Cardinality(CPU) - 1
  BY FS_RemoveElement, TicketAssumption
<1>6. IsFiniteSet(Ticket) /\ Cardinality(Ticket) = W
  <2>1. Cardinality(CPU) \in Nat
    BY FS_CardinalityType, TicketAssumption
  <2>2. W - 1 \in Nat
    BY <2>1, TicketAssumption
  <2> QED BY <2>2, FS_Interval, TicketAssumption DEF Ticket
<1>7. Cardinality(S) = W - 1
  BY <1>6, FS_RemoveElement DEF TypeOK
<1>8. Cardinality(S) <= Cardinality(T)
  BY <1>4, <1>5, FS_Injection
<1> QED
  BY <1>5, <1>7, <1>8, FS_CardinalityType, TicketAssumption

-----------------------------------------------------------------------------
(* The inductive invariant. *)

(* spin_lock_init establishes the invariant: the window is empty. *)
LEMMA InitInv == spin_lock_init => IInv
<1> SUFFICES ASSUME spin_lock_init PROVE IInv
  OBVIOUS
<1>1. 0 \in Ticket
  <2>1. Cardinality(CPU) \in Nat
    BY FS_CardinalityType, TicketAssumption
  <2> QED BY <2>1, TicketAssumption DEF Ticket
<1>2. TypeOK
  BY <1>1 DEF spin_lock_init, TypeOK
<1>3. \A c \in CPU : ~Active(c) /\ ~Inside(c) /\ ~Trying(c) /\ pc[c] # "release"
  BY DEF spin_lock_init, Active, Inside, Trying
<1>4. Dist(now_serving, next_ticket) = 0
  BY <1>1, DistType DEF spin_lock_init
<1>5. WindowOwned
  BY <1>1, <1>4, DistType, TicketAssumption DEF WindowOwned, spin_lock_init
<1> QED
  BY <1>2, <1>3, <1>5
  DEF IInv, TicketsInWindow, TicketsDistinct, HolderServed, TrySeenBehind

(* A ticket drawn by a processor that had none: the window grows by one.   *)
(* Shared by spin_lock's fetch-and-add and spin_trylock's exchange.        *)
LEMMA DrawInv ==
  ASSUME IInv, NEW c \in CPU, ~Active(c),
         \A d \in CPU \ {c} : Trying(d) => Inc(next_ticket) # seen[d],
         NEW l \in {"spin", "held"},
         l = "held" => next_ticket = now_serving,
         next_ticket' = Inc(next_ticket),
         ticket' = [ticket EXCEPT ![c] = next_ticket],
         pc' = [pc EXCEPT ![c] = l],
         UNCHANGED <<now_serving, seen>>
  PROVE  IInv'
<1> USE DEF IInv
<1>1. TypeOK'
  BY IncType DEF TypeOK
<1>2. Dist(now_serving, Inc(next_ticket)) = Dist(now_serving, next_ticket) + 1
  BY WindowHasRoom, DistIncRight DEF TypeOK
<1>3. Dist(now_serving, next_ticket) \in Nat
  BY DistType, TicketAssumption DEF TypeOK
<1>4. /\ \A d \in CPU : d # c => /\ Active(d)' = Active(d)
                                 /\ Inside(d)' = Inside(d)
                                 /\ Trying(d)' = Trying(d)
                                 /\ ticket'[d] = ticket[d]
                                 /\ pc'[d] = pc[d]
      /\ Active(c)' /\ ~Trying(c)' /\ pc'[c] = l /\ ticket'[c] = next_ticket
  BY DEF TypeOK, Active, Inside, Trying
<1>5. TicketsInWindow'
  <2> SUFFICES ASSUME NEW d \in CPU, Active(d)'
               PROVE  Dist(now_serving, ticket'[d]) < Dist(now_serving, Inc(next_ticket))
    BY DEF TicketsInWindow
  <2>1. CASE d = c
    BY <2>1, <1>2, <1>3, <1>4
  <2>2. CASE d # c
    <3>1. Dist(now_serving, ticket[d]) < Dist(now_serving, next_ticket)
      BY <2>2, <1>4 DEF TicketsInWindow
    <3>2. Dist(now_serving, ticket[d]) \in Nat
      BY DistType, TicketAssumption DEF TypeOK
    <3> QED BY <3>1, <3>2, <2>2, <1>2, <1>3, <1>4
  <2> QED BY <2>1, <2>2
<1>6. TicketsDistinct'
  <2>1. \A d \in CPU : Active(d) => ticket[d] # next_ticket
    BY <1>3 DEF TicketsInWindow
  <2> QED BY <2>1, <1>4 DEF TicketsDistinct
<1>7. WindowOwned'
  <2> SUFFICES ASSUME NEW x \in Ticket,
                      Dist(now_serving, x) < Dist(now_serving, Inc(next_ticket))
               PROVE  \E d \in CPU : Active(d)' /\ ticket'[d] = x
    BY DEF WindowOwned
  <2>1. CASE x = next_ticket
    BY <2>1, <1>4
  <2>2. CASE x # next_ticket
    <3>1. Dist(now_serving, x) # Dist(now_serving, next_ticket)
      BY <2>2, DistInjective DEF TypeOK
    <3>2. Dist(now_serving, x) < Dist(now_serving, next_ticket)
      BY <3>1, <1>2, DistType, TicketAssumption DEF TypeOK
    <3>3. PICK d \in CPU : Active(d) /\ ticket[d] = x
      BY <3>2 DEF WindowOwned
    <3> QED BY <3>3, <1>4
  <2> QED BY <2>1, <2>2
<1>8. HolderServed'
  BY <1>4 DEF HolderServed, Inside
<1>9. TrySeenBehind'
  <2> SUFFICES ASSUME NEW d \in CPU, Trying(d)'
               PROVE  Dist(seen[d], now_serving) <= Dist(seen[d], Inc(next_ticket))
    BY DEF TrySeenBehind
  <2>1. d # c /\ Trying(d)
    BY <1>4
  <2>2. Dist(seen[d], Inc(next_ticket)) = Dist(seen[d], next_ticket) + 1
    BY <2>1, DistIncRight DEF TypeOK
  <2>3. Dist(seen[d], now_serving) <= Dist(seen[d], next_ticket)
    BY <2>1 DEF TrySeenBehind
  <2> QED BY <2>2, <2>3, DistType, TicketAssumption DEF TypeOK
<1> QED BY <1>1, <1>5, <1>6, <1>7, <1>8, <1>9

(* The holder's store into now_serving: the window shrinks by one. *)
LEMMA UnlockInv ==
  ASSUME IInv, NEW c \in CPU, UnlockStore(c)
  PROVE  IInv'
<1> USE DEF IInv
<1>1. /\ Active(c) /\ ticket[c] = now_serving /\ seen[c] = now_serving
      /\ now_serving' = Inc(now_serving)
      /\ UNCHANGED <<next_ticket, ticket, seen>>
  BY DEF UnlockStore, HolderServed, Active, Inside
<1>2. TypeOK'
  BY <1>1, IncType DEF UnlockStore, Goto, TypeOK
<1>3. now_serving # next_ticket
  <2>1. Dist(now_serving, ticket[c]) < Dist(now_serving, next_ticket)
    BY <1>1 DEF TicketsInWindow
  <2> QED BY <2>1, <1>1, DistType, TicketAssumption DEF TypeOK
<1>4. /\ \A d \in CPU : d # c => /\ Active(d)' = Active(d)
                                 /\ Inside(d)' = Inside(d)
                                 /\ Trying(d)' = Trying(d)
                                 /\ pc'[d] = pc[d]
      /\ ~Active(c)' /\ ~Inside(c)' /\ ~Trying(c)' /\ pc'[c] = "idle"
  BY DEF UnlockStore, Goto, TypeOK, Active, Inside, Trying
<1>5. \A x \in Ticket : x # now_serving =>
        Dist(now_serving', x) = Dist(now_serving, x) - 1
  BY <1>1, DistIncLeft DEF TypeOK
<1>6. \A d \in CPU : Active(d)' => d # c /\ Active(d) /\ ticket[d] # now_serving
  BY <1>1, <1>4 DEF TicketsDistinct
<1>7. TicketsInWindow'
  <2> SUFFICES ASSUME NEW d \in CPU, Active(d)'
               PROVE  Dist(now_serving', ticket[d]) < Dist(now_serving', next_ticket)
    BY <1>1 DEF TicketsInWindow
  <2>1. Dist(now_serving, ticket[d]) < Dist(now_serving, next_ticket)
    BY <1>6 DEF TicketsInWindow
  <2> QED BY <2>1, <1>3, <1>5, <1>6, DistType, TicketAssumption DEF TypeOK
<1>8. TicketsDistinct'
  BY <1>1, <1>6 DEF TicketsDistinct
<1>9. WindowOwned'
  <2> SUFFICES ASSUME NEW x \in Ticket,
                      Dist(now_serving', x) < Dist(now_serving', next_ticket)
               PROVE  \E d \in CPU : Active(d)' /\ ticket[d] = x
    BY <1>1 DEF WindowOwned
  <2>1. x # now_serving
    <3> SUFFICES ASSUME x = now_serving PROVE FALSE
      OBVIOUS
    <3>1. Dist(Inc(now_serving), now_serving) = W - 1
      BY DistLap, IncType DEF TypeOK
    <3> QED BY <3>1, <1>1, <1>2, DistType, TicketAssumption DEF TypeOK
  <2>2. Dist(now_serving, x) < Dist(now_serving, next_ticket)
    BY <2>1, <1>3, <1>5, DistType, TicketAssumption DEF TypeOK
  <2>3. PICK d \in CPU : Active(d) /\ ticket[d] = x
    BY <2>2 DEF WindowOwned
  <2>4. d # c
    BY <2>1, <2>3, <1>1
  <2> QED BY <2>3, <2>4, <1>4
<1>10. HolderServed'
  <2>1. \A d \in CPU : ~Inside(d)'
    BY <1>4, <1>6 DEF HolderServed, Active
  <2> QED BY <2>1 DEF HolderServed, Inside
<1>11. TrySeenBehind'
  <2> SUFFICES ASSUME NEW d \in CPU, Trying(d)'
               PROVE  Dist(seen[d], Inc(now_serving)) <= Dist(seen[d], next_ticket)
    BY <1>1 DEF TrySeenBehind
  <2>1. Dist(seen[d], now_serving) <= Dist(seen[d], next_ticket)
    BY <1>4 DEF TrySeenBehind
  <2>2. Dist(seen[d], now_serving) # Dist(seen[d], next_ticket)
    BY <1>3, DistInjective DEF TypeOK
  <2>3. /\ Dist(seen[d], now_serving) \in 0..(W - 1)
        /\ Dist(seen[d], next_ticket) \in 0..(W - 1)
    BY DistType DEF TypeOK
  <2>4. CASE Inc(now_serving) # seen[d]
    <3>1. Dist(seen[d], Inc(now_serving)) = Dist(seen[d], now_serving) + 1
      BY <2>4, DistIncRight DEF TypeOK
    <3> QED BY <3>1, <2>1, <2>2, <2>3, TicketAssumption
  <2>5. CASE Inc(now_serving) = seen[d]
    BY <2>5, <2>3, DistType, IncType, TicketAssumption DEF TypeOK
  <2> QED BY <2>4, <2>5
<1> QED BY <1>2, <1>7, <1>8, <1>9, <1>10, <1>11

(* Every step of every processor preserves the invariant. *)
LEMMA NextInv == IInv /\ [Next]_vars => IInv'
<1> SUFFICES ASSUME IInv, [Next]_vars PROVE IInv'
  OBVIOUS
<1> USE DEF IInv
<1>1. CASE UNCHANGED vars
  BY <1>1 DEF vars, TypeOK, TicketsInWindow, TicketsDistinct, WindowOwned,
              HolderServed, TrySeenBehind, Active, Inside, Trying
<1>2. ASSUME NEW c \in CPU, DrawTicket(c) PROVE IInv'
  <2>1. ~Active(c)
    BY <1>2 DEF DrawTicket, Active, Inside
  <2> QED BY <1>2, <2>1, DrawInv DEF DrawTicket, Goto, NoLap
<1>3. ASSUME NEW c \in CPU, TryCas(c) PROVE IInv'
  <2>1. ~Active(c) /\ Trying(c)
    BY <1>3 DEF TryCas, Active, Inside, Trying
  <2>2. CASE next_ticket = seen[c]
    <3>1. Dist(seen[c], now_serving) = 0
      BY <2>1, <2>2, DistType, TicketAssumption DEF TrySeenBehind, TypeOK
    <3>2. next_ticket = now_serving
      BY <3>1, <2>2, DistType DEF TypeOK
    <3> QED BY <1>3, <2>1, <2>2, <3>2, DrawInv DEF TryCas, Goto
  <2>3. CASE next_ticket # seen[c]
    BY <1>3, <2>1, <2>3
    DEF TryCas, Goto, TypeOK, TicketsInWindow, TicketsDistinct, WindowOwned,
        HolderServed, TrySeenBehind, Active, Inside, Trying
  <2> QED BY <2>2, <2>3
<1>4. ASSUME NEW c \in CPU, TryLoad(c) PROVE IInv'
  <2>1. Dist(now_serving, now_serving) <= Dist(now_serving, next_ticket)
    BY DistType, TicketAssumption DEF TypeOK
  <2> QED BY <1>4, <2>1
          DEF TryLoad, Goto, TypeOK, TicketsInWindow, TicketsDistinct,
              WindowOwned, HolderServed, TrySeenBehind, Active, Inside, Trying
<1>5. ASSUME NEW c \in CPU, TryTest(c) PROVE IInv'
  BY <1>5 DEF TryTest, Goto, TypeOK, TicketsInWindow, TicketsDistinct,
              WindowOwned, HolderServed, TrySeenBehind, Active, Inside, Trying
<1>6. ASSUME NEW c \in CPU, SpinDone(c) PROVE IInv'
  BY <1>6 DEF SpinDone, Goto, TypeOK, TicketsInWindow, TicketsDistinct,
              WindowOwned, HolderServed, TrySeenBehind, Active, Inside, Trying
<1>7. ASSUME NEW c \in CPU, UnlockLoad(c) PROVE IInv'
  BY <1>7 DEF UnlockLoad, Goto, TypeOK, TicketsInWindow, TicketsDistinct,
              WindowOwned, HolderServed, TrySeenBehind, Active, Inside, Trying
<1>8. ASSUME NEW c \in CPU, UnlockStore(c) PROVE IInv'
  BY <1>8, UnlockInv
<1> QED BY <1>1, <1>2, <1>3, <1>4, <1>5, <1>6, <1>7, <1>8 DEF Next, Step

(* The inductive invariant holds in every reachable state. *)
THEOREM Invariant == Spec => []IInv
  BY InitInv, NextInv, PTL DEF Spec

(* spin_lock, spin_trylock and spin_unlock exclude each other, for any     *)
(* number of processors below the number of tickets.                       *)
THEOREM Exclusion == Spec => []MutualExclusion
<1>1. IInv => MutualExclusion
  BY DEF IInv, HolderServed, TicketsDistinct, MutualExclusion, Active
<1> QED BY <1>1, Invariant, PTL
-----------------------------------------------------------------------------
(* The lock implements FifoLock. *)

(* What the refinement mapping makes of the tickets: place i of the queue  *)
(* is the owner of the ticket i - 1 past now_serving, and no other         *)
(* processor is as far from the front.                                     *)
QueueOK ==
  /\ ticketQueue \in [1..Dist(now_serving, next_ticket) -> CPU]
  /\ ticketQueue \in Seq(CPU)
  /\ Len(ticketQueue) = Dist(now_serving, next_ticket)
  /\ \A i \in 1..Len(ticketQueue) :
       Active(ticketQueue[i]) /\ Dist(now_serving, ticket[ticketQueue[i]]) = i - 1
  /\ \A c, d \in CPU :
       /\ Active(c) /\ Active(d)
       /\ Dist(now_serving, ticket[c]) = Dist(now_serving, ticket[d])
       => c = d

(* Every place of the queue has an owner (WindowOwned), and only one       *)
(* (TicketsDistinct).                                                      *)
LEMMA QueueOwners == IInv => QueueOK
<1> SUFFICES ASSUME IInv PROVE QueueOK
  OBVIOUS
<1> DEFINE n == Dist(now_serving, next_ticket)
<1>1. n \in 0..(W - 1) /\ n \in Nat
  BY DistType, TicketAssumption DEF IInv, TypeOK
<1>2. \A i \in 1..n : \E c \in CPU : Active(c) /\ Dist(now_serving, ticket[c]) = i - 1
  <2> TAKE i \in 1..n
  <2>1. i - 1 \in 0..(W - 1) /\ i - 1 < n
    BY <1>1, TicketAssumption
  <2>2. PICK x \in Ticket : Dist(now_serving, x) = i - 1
    BY <2>1, DistOnto DEF IInv, TypeOK
  <2> QED BY <2>1, <2>2 DEF IInv, WindowOwned
<1>3. \A i \in 1..n : /\ ticketQueue[i] \in CPU
                      /\ Active(ticketQueue[i])
                      /\ Dist(now_serving, ticket[ticketQueue[i]]) = i - 1
  BY <1>2 DEF ticketQueue
<1>4. ticketQueue \in [1..n -> CPU]
  BY <1>3 DEF ticketQueue
<1> HIDE DEF n
<1>5. ticketQueue \in Seq(CPU) /\ Len(ticketQueue) = n
  BY <1>1, <1>4
<1>6. ASSUME NEW c \in CPU, NEW d \in CPU, Active(c), Active(d),
             Dist(now_serving, ticket[c]) = Dist(now_serving, ticket[d])
      PROVE  c = d
  <2>1. ticket[c] = ticket[d]
    BY <1>6, DistInjective DEF IInv, TypeOK
  <2> QED BY <1>6, <2>1 DEF IInv, TicketsDistinct
<1> QED BY <1>3, <1>4, <1>5, <1>6 DEF QueueOK, n

(* A step that leaves the tickets and their owners alone does not change   *)
(* the queue.                                                              *)
LEMMA QueueKept ==
  ASSUME QueueOK, QueueOK', UNCHANGED <<now_serving, next_ticket, ticket>>,
         \A c \in CPU : Active(c)' <=> Active(c)
  PROVE  ticketQueue' = ticketQueue
<1>1. \A i \in 1..Len(ticketQueue) : ticketQueue'[i] = ticketQueue[i]
  BY DEF QueueOK
<1> QED BY <1>1 DEF QueueOK

(* Drawing a ticket is asking for the lock: the queue grows at its end. *)
LEMMA QueueDraw ==
  ASSUME IInv, QueueOK, QueueOK', NEW c \in CPU, ~Active(c), Active(c)',
         next_ticket' = Inc(next_ticket), UNCHANGED now_serving,
         ticket' = [ticket EXCEPT ![c] = next_ticket],
         \A d \in CPU \ {c} : Active(d)' <=> Active(d)
  PROVE  ticketQueue' = Append(ticketQueue, c)
<1> DEFINE n == Len(ticketQueue)
<1>1. n \in Nat /\ n = Dist(now_serving, next_ticket)
  BY DistType, TicketAssumption DEF QueueOK, IInv, TypeOK
<1>2. Len(ticketQueue') = n + 1
  BY <1>1, WindowHasRoom, DistIncRight DEF QueueOK, IInv, TypeOK
<1>3. \A d \in CPU : d # c => ticket'[d] = ticket[d]
  BY DEF IInv, TypeOK
<1>4. ticket'[c] = next_ticket
  BY DEF IInv, TypeOK
<1>5. ASSUME NEW i \in 1..(n + 1)
      PROVE  \E d \in CPU : /\ d = ticketQueue'[i] /\ Active(d)'
                            /\ Dist(now_serving, ticket'[d]) = i - 1
  BY <1>2 DEF QueueOK, Active, Inside
<1>6. ticketQueue'[n + 1] = c
  <2>1. PICK d \in CPU : /\ d = ticketQueue'[n + 1] /\ Active(d)'
                         /\ Dist(now_serving, ticket'[d]) = n
    BY <1>1, <1>5
  <2> QED BY <1>1, <1>4, <2>1 DEF QueueOK
<1>7. ASSUME NEW i \in 1..n PROVE ticketQueue'[i] = ticketQueue[i]
  <2>1. PICK d \in CPU : /\ d = ticketQueue[i] /\ Active(d)
                         /\ Dist(now_serving, ticket[d]) = i - 1
    BY DEF QueueOK
  <2>2. Active(d)' /\ ticket'[d] = ticket[d]
    BY <2>1, <1>3
  <2>3. PICK e \in CPU : /\ e = ticketQueue'[i] /\ Active(e)'
                         /\ Dist(now_serving, ticket'[e]) = i - 1
    BY <1>1, <1>5
  <2> QED BY <2>1, <2>2, <2>3 DEF QueueOK
<1> QED BY <1>1, <1>2, <1>6, <1>7 DEF QueueOK

(* The store of spin_unlock takes the holder from the front. *)
LEMMA QueueServe ==
  ASSUME IInv, QueueOK, QueueOK', NEW c \in CPU, UnlockStore(c)
  PROVE  ticketQueue # <<>> /\ ticketQueue' = Tail(ticketQueue)
<1> DEFINE n == Len(ticketQueue)
<1>1. /\ Active(c) /\ ticket[c] = now_serving /\ seen[c] = now_serving
      /\ now_serving' = Inc(now_serving)
      /\ UNCHANGED <<next_ticket, ticket, seen>>
  BY DEF UnlockStore, IInv, HolderServed, Active, Inside
<1>2. n \in Nat /\ n = Dist(now_serving, next_ticket) /\ now_serving # next_ticket /\ n > 0
  <2>1. Dist(now_serving, ticket[c]) < Dist(now_serving, next_ticket)
    BY <1>1 DEF IInv, TicketsInWindow
  <2> QED BY <2>1, <1>1, DistType, TicketAssumption DEF QueueOK, IInv, TypeOK
<1>3. ticketQueue # <<>>
  BY <1>2
<1>4. \A x \in Ticket : x # now_serving =>
        Dist(now_serving', x) = Dist(now_serving, x) - 1
  BY <1>1, DistIncLeft DEF IInv, TypeOK
<1>5. Len(ticketQueue') = n - 1
  BY <1>1, <1>2, <1>4 DEF QueueOK, IInv, TypeOK
<1>6. ASSUME NEW i \in 1..(n - 1) PROVE ticketQueue'[i] = ticketQueue[i + 1]
  <2>1. PICK d \in CPU : /\ d = ticketQueue[i + 1] /\ Active(d)
                         /\ Dist(now_serving, ticket[d]) = i
    BY <1>2 DEF QueueOK
  <2>2. ticket[d] # now_serving /\ ticket[d] \in Ticket
    BY <2>1, DistType, SMTT(30) DEF IInv, TypeOK
  <2>3. d # c
    BY <1>1, <2>2
  <2>4. Active(d)' /\ Dist(now_serving', ticket'[d]) = i - 1
    BY <1>1, <1>4, <2>1, <2>2, <2>3 DEF UnlockStore, Goto, Active, Inside, IInv, TypeOK
  <2>5. PICK e \in CPU : /\ e = ticketQueue'[i] /\ Active(e)'
                         /\ Dist(now_serving', ticket'[e]) = i - 1
    BY <1>5 DEF QueueOK, Active, Inside
  <2> QED BY <2>1, <2>4, <2>5 DEF QueueOK
<1>7. /\ Tail(ticketQueue) \in Seq(CPU) /\ Len(Tail(ticketQueue)) = n - 1
      /\ \A i \in 1..(n - 1) : Tail(ticketQueue)[i] = ticketQueue[i + 1]
  BY <1>2, <1>3 DEF QueueOK
<1>8. ticketQueue' \in Seq(CPU)
  BY DEF QueueOK
<1> QED BY <1>3, <1>5, <1>6, <1>7, <1>8, SeqEqual

(* Every step is a step of the FIFO lock or changes nothing it shows. *)
LEMMA StepIsFifo ==
  ASSUME IInv, IInv', QueueOK, QueueOK', [Next]_vars
  PROVE  [Abs!Next]_(Abs!vars)
<1> DEFINE in == {c \in CPU : Inside(c)}
<1> SUFFICES Abs!Next \/ (ticketQueue' = ticketQueue /\ in' = in)
  BY DEF Abs!vars
<1>1. ASSUME NEW c \in CPU, DrawTicket(c) PROVE Abs!Ask(c)
  <2>1. ~Active(c) /\ Active(c)' /\ in' = in
    BY <1>1 DEF DrawTicket, Goto, Active, Inside, IInv, TypeOK
  <2>2. \A d \in CPU \ {c} : Active(d)' <=> Active(d)
    BY <1>1 DEF DrawTicket, Goto, Active, Inside, IInv, TypeOK
  <2>3. ticketQueue' = Append(ticketQueue, c)
    BY <1>1, <2>1, <2>2, QueueDraw DEF DrawTicket
  <2>4. ~Abs!Waiting(c)
    BY <2>1 DEF Abs!Waiting, QueueOK
  <2> QED BY <2>1, <2>3, <2>4 DEF Abs!Ask
<1>2. ASSUME NEW c \in CPU, SpinDone(c) PROVE Abs!Enter(c)
  <2>1. Active(c) /\ ticket[c] = now_serving
    BY <1>2 DEF SpinDone, Active
  <2>2. in = {}
    BY <1>2, <2>1 DEF SpinDone, IInv, HolderServed, TicketsDistinct, Active, Inside
  <2>3. in' = {c}
    BY <1>2, <2>2 DEF SpinDone, Goto, Inside, IInv, TypeOK
  <2>4. ticketQueue' = ticketQueue
    <3>1. \A d \in CPU : Active(d)' <=> Active(d)
      BY <1>2 DEF SpinDone, Goto, Active, Inside, IInv, TypeOK
    <3> QED BY <1>2, <3>1, QueueKept DEF SpinDone
  <2>5. ticketQueue # <<>> /\ Head(ticketQueue) = c
    <3>1. Dist(now_serving, ticket[c]) = 0
      BY <2>1, DistType DEF IInv, TypeOK
    <3>2. Dist(now_serving, next_ticket) \in Nat /\ Dist(now_serving, next_ticket) > 0
      BY <2>1, <3>1, DistType, TicketAssumption DEF IInv, TicketsInWindow, TypeOK
    <3>3. PICK d \in CPU : /\ d = ticketQueue[1] /\ Active(d)
                           /\ Dist(now_serving, ticket[d]) = 0
      BY <3>2 DEF QueueOK
    <3>4. d = c
      BY <2>1, <3>1, <3>3 DEF QueueOK
    <3> QED BY <3>2, <3>3, <3>4 DEF QueueOK
  <2> QED BY <2>2, <2>3, <2>4, <2>5 DEF Abs!Enter
<1>3. ASSUME NEW c \in CPU, TryCas(c), next_ticket = seen[c] PROVE Abs!TryEnter(c)
  <2>1. ~Active(c) /\ Active(c)' /\ Trying(c)
    BY <1>3 DEF TryCas, Goto, Active, Inside, Trying, IInv, TypeOK
  <2>2. \A d \in CPU \ {c} : (Active(d)' <=> Active(d)) /\ (Inside(d)' <=> Inside(d))
    BY <1>3 DEF TryCas, Goto, Active, Inside, IInv, TypeOK
  <2>3. ticketQueue' = Append(ticketQueue, c)
    BY <1>3, <2>1, <2>2, QueueDraw DEF TryCas
  <2>4. Dist(now_serving, next_ticket) = 0
    <3>1. Dist(seen[c], now_serving) = 0
      BY <1>3, <2>1, DistType, TicketAssumption DEF IInv, TrySeenBehind, TypeOK
    <3> QED BY <1>3, <3>1, DistType DEF IInv, TypeOK
  <2>5. ticketQueue = <<>>
    BY <2>4 DEF QueueOK
  <2>6. \A d \in CPU : ~Active(d)
    BY <2>4, DistType, TicketAssumption DEF IInv, TicketsInWindow, TypeOK
  <2>7. in' = {c}
    BY <1>3, <2>2, <2>6 DEF TryCas, Goto, Active, Inside, IInv, TypeOK
  <2> QED BY <2>3, <2>5, <2>7 DEF Abs!TryEnter
<1>4. ASSUME NEW c \in CPU, UnlockStore(c) PROVE Abs!Leave(c)
  <2>1. in = {c}
    BY <1>4 DEF UnlockStore, IInv, HolderServed, TicketsDistinct, Active, Inside
  <2>2. in' = {}
    BY <1>4, <2>1 DEF UnlockStore, Goto, Inside, IInv, TypeOK
  <2> QED BY <1>4, <2>1, <2>2, QueueServe DEF Abs!Leave
<1>5. ASSUME UNCHANGED <<now_serving, next_ticket, ticket>>,
             \A c \in CPU : (Active(c)' <=> Active(c)) /\ (Inside(c)' <=> Inside(c))
      PROVE  ticketQueue' = ticketQueue /\ in' = in
  BY <1>5, QueueKept
<1>6. ASSUME NEW c \in CPU, \/ TryLoad(c) \/ TryTest(c) \/ UnlockLoad(c)
                            \/ TryCas(c) /\ next_ticket # seen[c]
      PROVE  ticketQueue' = ticketQueue /\ in' = in
  BY <1>5, <1>6 DEF TryLoad, TryTest, UnlockLoad, TryCas, Goto, Active, Inside, IInv, TypeOK
<1>7. CASE UNCHANGED vars
  BY <1>5, <1>7 DEF vars, Active, Inside
<1>8. CASE Next
  <2>1. PICK c \in CPU : DrawTicket(c) \/ TryLoad(c) \/ Step(c)
    BY <1>8 DEF Next
  <2>2. CASE Abs!Ask(c) \/ Abs!Enter(c) \/ Abs!TryEnter(c) \/ Abs!Leave(c)
    BY <2>2 DEF Abs!Next
  <2>3. CASE DrawTicket(c)
    BY <2>2, <2>3, <1>1
  <2>4. CASE SpinDone(c)
    BY <2>2, <2>4, <1>2
  <2>5. CASE TryCas(c) /\ next_ticket = seen[c]
    BY <2>2, <2>5, <1>3
  <2>6. CASE UnlockStore(c)
    BY <2>2, <2>6, <1>4
  <2>7. CASE \/ TryLoad(c) \/ TryTest(c) \/ UnlockLoad(c)
             \/ TryCas(c) /\ next_ticket # seen[c]
    BY <2>7, <1>6
  <2> QED BY <2>1, <2>3, <2>4, <2>5, <2>6, <2>7 DEF Step
<1> QED BY <1>7, <1>8

(* At the start nobody waits and nobody holds the lock. *)
LEMMA InitIsFifo == spin_lock_init /\ QueueOK => Abs!Init
<1> SUFFICES ASSUME spin_lock_init, QueueOK PROVE Abs!Init
  OBVIOUS
<1>1. ticketQueue = <<>>
  BY DEF spin_lock_init, QueueOK, Dist
<1> QED BY <1>1 DEF Abs!Init, spin_lock_init, Inside

(* For any number of processors below the number of tickets, the lock is   *)
(* entered in the order in which tickets were drawn, and spin_trylock      *)
(* succeeds only when nobody holds or waits for it.                        *)
THEOREM ImplementsFifo == Spec => ImplementsFifoLock
<1>1. spin_lock_init => Abs!Init
  BY InitInv, QueueOwners, InitIsFifo
<1>2. IInv /\ IInv' /\ QueueOK /\ QueueOK' /\ [Next]_vars => [Abs!Next]_(Abs!vars)
  BY StepIsFifo
<1>3. Spec => Abs!Spec
  BY <1>1, <1>2, Invariant, QueueOwners, PTL DEF Spec, Abs!Spec
<1> QED BY <1>3 DEF ImplementsFifoLock
=============================================================================
