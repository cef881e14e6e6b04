---------------------------- MODULE SchedProofs -----------------------------
(* The run queues hold exactly the READY threads, each once, for every set *)
(* of threads, every table of quanta and every boost period.               *)
EXTENDS SchedHeld, SequenceTheorems, TLAPS

ThreadState == {"CREATED", "READY", "RUNNING", "BLOCKED", "TERMINATED"}

(* Thread t is the i-th of queue l. *)
At(q, l, i, t) == i \in 1..Len(q[l]) /\ q[l][i] = t

(* The parts of ReadyIffQueued, of given states and queues. *)
AtReady(st, q) ==
  \A l \in Level, i \in Nat, t \in Thread : At(q, l, i, t) => st[t] = "READY"

AtOnce(q) ==
  \A l, m \in Level, i, j \in Nat, t \in Thread :
    At(q, l, i, t) /\ At(q, m, j, t) => l = m /\ i = j

ReadyAt(st, q) ==
  \A t \in Thread : st[t] = "READY" => \E l \in Level, i \in Nat : At(q, l, i, t)

QOK(st, q) ==
  /\ st \in [Thread -> ThreadState]
  /\ q \in [Level -> Seq(Thread)]
  /\ AtReady(st, q)
  /\ AtOnce(q)
  /\ ReadyAt(st, q)

(* This is the property checked, read at the state variables. *)
LEMMA QOKIsProperty ==
  ASSUME state \in [Thread -> ThreadState], runq \in [Level -> Seq(Thread)]
  PROVE  QOK(state, runq) <=> ReadyIffQueued
<1>1. \A l \in Level : \A i \in 1..Len(runq[l]) : i \in Nat /\ runq[l][i] \in Thread
  OBVIOUS
<1>2. AtReady(state, runq) <=> QueuedReady
  BY <1>1 DEF AtReady, QueuedReady, At
<1>3. AtOnce(runq) <=> QueuedOnce
  BY <1>1 DEF AtOnce, QueuedOnce, At
<1>4. ReadyAt(state, runq) <=> ReadyQueued
  BY <1>1 DEF ReadyAt, ReadyQueued, At
<1> QED BY <1>2, <1>3, <1>4 DEF QOK, ReadyIffQueued

(* Appending a thread that was not READY (sched_enqueue, sched_yield,      *)
(* the expiry of a quantum).                                               *)
LEMMA AddTailOK ==
  ASSUME NEW st, NEW q, QOK(st, q), NEW t \in Thread, st[t] # "READY",
         NEW l \in Level
  PROVE  QOK([st EXCEPT ![t] = "READY"], AddTail(q, l, t))
<1> DEFINE s2 == [st EXCEPT ![t] = "READY"]
           q2 == AddTail(q, l, t)
           n  == Len(q[l]) + 1
<1>1. q \in [Level -> Seq(Thread)] /\ q[l] \in Seq(Thread) /\ n \in Nat
  BY DEF QOK
<1>2. /\ Append(q[l], t) \in Seq(Thread)
      /\ Len(Append(q[l], t)) = n
      /\ \A i \in 1..Len(q[l]) : Append(q[l], t)[i] = q[l][i]
      /\ Append(q[l], t)[n] = t
  BY <1>1, AppendProperties
<1>3. /\ q2 \in [Level -> Seq(Thread)]
      /\ q2[l] = Append(q[l], t)
      /\ \A m \in Level : m # l => q2[m] = q[m]
  BY <1>1, <1>2 DEF AddTail
<1>4. /\ s2 \in [Thread -> ThreadState] /\ s2[t] = "READY"
      /\ \A u \in Thread : u # t => s2[u] = st[u]
  BY DEF QOK, ThreadState
<1>5. \A m \in Level, i \in Nat, u \in Thread :
        At(q2, m, i, u) <=> At(q, m, i, u) \/ (m = l /\ i = n /\ u = t)
  <2> SUFFICES ASSUME NEW m \in Level, NEW i \in Nat, NEW u \in Thread
               PROVE  At(q2, m, i, u) <=> At(q, m, i, u) \/ (m = l /\ i = n /\ u = t)
    OBVIOUS
  <2>1. CASE m = l
    BY <2>1, <1>1, <1>2, <1>3 DEF At
  <2>2. CASE m # l
    BY <2>2, <1>3 DEF At
  <2> QED BY <2>1, <2>2
<1>6. \A m \in Level, i \in Nat : ~At(q, m, i, t)
  BY DEF QOK, AtReady
<1> HIDE DEF s2, q2, n
<1>7. AtReady(s2, q2)
  BY <1>4, <1>5 DEF QOK, AtReady
<1>8. AtOnce(q2)
  BY <1>5, <1>6 DEF QOK, AtOnce
<1>9. ReadyAt(s2, q2)
  BY <1>1, <1>4, <1>5 DEF QOK, ReadyAt
<1>10. QOK(s2, q2)
  BY <1>3, <1>4, <1>7, <1>8, <1>9 DEF QOK
<1> QED BY <1>10 DEF s2, q2

(* Unlinking a thread wherever it is queued, when it stops being READY. *)
LEMMA RemoveOK ==
  ASSUME NEW st, NEW q, QOK(st, q), NEW l \in Level, NEW i \in 1..Len(q[l]),
         NEW s \in ThreadState \ {"READY"}
  PROVE  QOK([st EXCEPT ![q[l][i]] = s], [q EXCEPT ![l] = RemoveIndex(q[l], i)])
<1> DEFINE t  == q[l][i]
           R  == RemoveIndex(q[l], i)
           s2 == [st EXCEPT ![t] = s]
           q2 == [q EXCEPT ![l] = R]
<1>1. /\ q \in [Level -> Seq(Thread)] /\ q[l] \in Seq(Thread)
      /\ Len(q[l]) \in Nat /\ i \in Nat /\ i >= 1 /\ i <= Len(q[l])
      /\ t \in Thread
  BY DEF QOK
<1>2. R \in [1..(Len(q[l]) - 1) -> Thread]
  BY <1>1 DEF RemoveIndex
<1>3. R \in Seq(Thread) /\ Len(R) = Len(q[l]) - 1
  <2>1. Len(q[l]) - 1 \in Nat
    BY <1>1
  <2> HIDE DEF R
  <2>2. R \in Seq(Thread)
    BY <1>2, <2>1, SeqDef
  <2>3. Len(R) \in Nat /\ 1..Len(R) = 1..(Len(q[l]) - 1)
    BY <1>2, <2>2, LenProperties
  <2> QED BY <2>1, <2>2, <2>3
<1>4. \A k \in 1..Len(R) : R[k] = IF k < i THEN q[l][k] ELSE q[l][k + 1]
  BY <1>1, <1>3 DEF RemoveIndex
<1>5. /\ q2 \in [Level -> Seq(Thread)]
      /\ q2[l] = R
      /\ \A m \in Level : m # l => q2[m] = q[m]
  BY <1>1, <1>3
<1>6. /\ s2 \in [Thread -> ThreadState] /\ s2[t] = s
      /\ \A u \in Thread : u # t => s2[u] = st[u]
  BY <1>1 DEF QOK
<1>7. At(q, l, i, t)
  BY DEF At
<1> HIDE DEF R, s2, q2, t
<1>8. \A m \in Level \ {l}, k \in Nat, u \in Thread : At(q2, m, k, u) <=> At(q, m, k, u)
  BY <1>5 DEF At
<1>9. \A k \in Nat, u \in Thread :
        At(q2, l, k, u) => \/ k < i /\ At(q, l, k, u)
                           \/ k >= i /\ At(q, l, k + 1, u)
  BY <1>1, <1>3, <1>4, <1>5 DEF At
<1>10. \A k \in Nat, u \in Thread : At(q, l, k, u) /\ k # i =>
         \E j \in Nat : At(q2, l, j, u)
  <2> SUFFICES ASSUME NEW k \in Nat, NEW u \in Thread, At(q, l, k, u), k # i
               PROVE  \E j \in Nat : At(q2, l, j, u)
    OBVIOUS
  <2>1. CASE k < i
    <3>1. At(q2, l, k, u)
      BY <2>1, <1>1, <1>3, <1>4, <1>5 DEF At
    <3> QED BY <3>1
  <2>2. CASE k > i
    <3>1. k - 1 \in Nat /\ At(q2, l, k - 1, u)
      BY <2>2, <1>1, <1>3, <1>4, <1>5 DEF At
    <3> QED BY <3>1
  <2> QED BY <2>1, <2>2, <1>1
<1>11. \A m \in Level, k \in Nat : ~At(q2, m, k, t)
  <2> SUFFICES ASSUME NEW m \in Level, NEW k \in Nat, At(q2, m, k, t) PROVE FALSE
    OBVIOUS
  <2>1. CASE m # l
    BY <2>1, <1>1, <1>7, <1>8 DEF QOK, AtOnce
  <2>2. CASE m = l
    <3>1. \A j \in Nat : At(q, l, j, t) => j = i
      BY <1>1, <1>7 DEF QOK, AtOnce
    <3> QED BY <2>2, <3>1, <1>1, <1>9
  <2> QED BY <2>1, <2>2
<1>12. AtReady(s2, q2)
  <2> SUFFICES ASSUME NEW m \in Level, NEW k \in Nat, NEW u \in Thread, At(q2, m, k, u)
               PROVE  s2[u] = "READY"
    BY DEF AtReady
  <2>1. u # t
    BY <1>11
  <2>2. \E j \in Nat : At(q, m, j, u)
    BY <1>8, <1>9
  <2> QED BY <2>1, <2>2, <1>6 DEF QOK, AtReady
<1>13. AtOnce(q2)
  <2> SUFFICES ASSUME NEW m \in Level, NEW n \in Level, NEW k \in Nat, NEW j \in Nat,
                      NEW u \in Thread, At(q2, m, k, u), At(q2, n, j, u)
               PROVE  m = n /\ k = j
    BY DEF AtOnce
  <2> DEFINE a == IF m = l /\ k >= i THEN k + 1 ELSE k
             b == IF n = l /\ j >= i THEN j + 1 ELSE j
  <2>1. a \in Nat /\ At(q, m, a, u)
    BY <1>8, <1>9, <1>1
  <2>2. b \in Nat /\ At(q, n, b, u)
    BY <1>8, <1>9, <1>1
  <2>3. m = n /\ a = b
    BY <2>1, <2>2 DEF QOK, AtOnce
  <2> QED BY <2>3, <1>1
<1>14. ReadyAt(s2, q2)
  <2> SUFFICES ASSUME NEW u \in Thread, s2[u] = "READY"
               PROVE  \E m \in Level, k \in Nat : At(q2, m, k, u)
    BY DEF ReadyAt
  <2>1. u # t /\ st[u] = "READY"
    BY <1>6
  <2>2. PICK m \in Level, k \in Nat : At(q, m, k, u)
    BY <2>1 DEF QOK, ReadyAt
  <2>3. m = l => k # i
    BY <2>1, <2>2, <1>7 DEF At
  <2> QED BY <2>2, <2>3, <1>8, <1>10
<1>15. QOK(s2, q2)
  BY <1>5, <1>6, <1>12, <1>13, <1>14 DEF QOK
<1> QED BY <1>15 DEF s2, q2, t, R

(* A change between two states that are not READY. *)
LEMMA SetOK ==
  ASSUME NEW st, NEW q, QOK(st, q), NEW t \in Thread, st[t] # "READY",
         NEW s \in ThreadState \ {"READY"}
  PROVE  QOK([st EXCEPT ![t] = s], q)
<1> DEFINE s2 == [st EXCEPT ![t] = s]
<1>1. /\ s2 \in [Thread -> ThreadState]
      /\ \A u \in Thread : s2[u] = "READY" <=> st[u] = "READY"
  BY DEF QOK
<1> HIDE DEF s2
<1>2. QOK(s2, q)
  BY <1>1 DEF QOK, AtReady, ReadyAt
<1> QED BY <1>2 DEF s2

(* The queue of level l moved to the end of queue 0. *)
Move(q, l) ==
  [m \in Level |-> IF m = 0 THEN q[0] \o q[l] ELSE IF m = l THEN <<>> ELSE q[m]]

(* One round of sched_boost's loop. *)
LEMMA MoveOK ==
  ASSUME NEW st, NEW q, QOK(st, q), NEW l \in Level \ {0}
  PROVE  QOK(st, Move(q, l))
<1> DEFINE q2 == Move(q, l)
           n  == Len(q[0])
<1>1. /\ q \in [Level -> Seq(Thread)] /\ q[0] \in Seq(Thread) /\ q[l] \in Seq(Thread)
      /\ 0 \in Level /\ n \in Nat /\ Len(q[l]) \in Nat
  BY DEF QOK, Level
<1>2. /\ q[0] \o q[l] \in Seq(Thread)
      /\ Len(q[0] \o q[l]) = n + Len(q[l])
      /\ \A i \in 1..(n + Len(q[l])) :
           (q[0] \o q[l])[i] = IF i <= n THEN q[0][i] ELSE q[l][i - n]
  BY <1>1, ConcatProperties
<1>3. /\ q2 \in [Level -> Seq(Thread)]
      /\ q2[0] = q[0] \o q[l] /\ q2[l] = <<>>
      /\ \A m \in Level \ {0, l} : q2[m] = q[m]
  <2>1. <<>> \in Seq(Thread)
    BY EmptySeq
  <2>2. \A m \in Level : Move(q, l)[m] \in Seq(Thread)
    BY <2>1, <1>1, <1>2 DEF Move
  <2> QED BY <2>2, <1>1 DEF Move
<1> HIDE DEF q2
<1>4. \A m \in Level \ {0, l}, i \in Nat, u \in Thread : At(q2, m, i, u) <=> At(q, m, i, u)
  BY <1>3 DEF At
<1>5. \A i \in Nat, u \in Thread : ~At(q2, l, i, u)
  BY <1>3 DEF At
<1>6. \A i \in Nat, u \in Thread :
        At(q2, 0, i, u) => \/ i <= n /\ At(q, 0, i, u)
                           \/ i > n /\ i - n \in Nat /\ At(q, l, i - n, u)
  BY <1>1, <1>2, <1>3 DEF At
<1>7. \A i \in Nat, u \in Thread :
        /\ At(q, 0, i, u) => At(q2, 0, i, u)
        /\ At(q, l, i, u) => At(q2, 0, n + i, u)
  BY <1>1, <1>2, <1>3, SMTT(30) DEF At
<1> HIDE DEF n
<1>8. AtReady(st, q2)
  <2> SUFFICES ASSUME NEW m \in Level, NEW i \in Nat, NEW u \in Thread, At(q2, m, i, u)
               PROVE  st[u] = "READY"
    BY DEF AtReady
  <2>1. \E k \in Level, j \in Nat : At(q, k, j, u)
    <3>1. CASE m = 0
      BY <3>1, <1>1, <1>6
    <3>2. CASE m # 0
      BY <3>2, <1>4, <1>5
    <3> QED BY <3>1, <3>2
  <2> QED BY <2>1 DEF QOK, AtReady
<1>9. AtOnce(q2)
  <2> SUFFICES ASSUME NEW m \in Level, NEW k \in Level, NEW i \in Nat, NEW j \in Nat,
                      NEW u \in Thread, At(q2, m, i, u), At(q2, k, j, u)
               PROVE  m = k /\ i = j
    BY DEF AtOnce
  <2>1. m # l /\ k # l
    BY <1>5
  <2> DEFINE a == IF m = 0 /\ i > n THEN l ELSE m
             x == IF m = 0 /\ i > n THEN i - n ELSE i
             b == IF k = 0 /\ j > n THEN l ELSE k
             y == IF k = 0 /\ j > n THEN j - n ELSE j
  <2>2. a \in Level /\ x \in Nat /\ At(q, a, x, u)
    BY <2>1, <1>1, <1>4, <1>6
  <2>3. b \in Level /\ y \in Nat /\ At(q, b, y, u)
    BY <2>1, <1>1, <1>4, <1>6
  <2>4. a = b /\ x = y
    BY <2>2, <2>3 DEF QOK, AtOnce
  <2> QED BY <2>1, <2>4, <1>1
<1>10. ReadyAt(st, q2)
  <2> SUFFICES ASSUME NEW u \in Thread, st[u] = "READY"
               PROVE  \E m \in Level, i \in Nat : At(q2, m, i, u)
    BY DEF ReadyAt
  <2>1. PICK m \in Level, i \in Nat : At(q, m, i, u)
    BY DEF QOK, ReadyAt
  <2>2. n + i \in Nat
    BY <1>1
  <2> QED BY <2>1, <2>2, <1>1, <1>4, <1>7
<1>11. QOK(st, q2)
  BY <1>3, <1>8, <1>9, <1>10 DEF QOK
<1> QED BY <1>11 DEF q2

(* sched_boost is three rounds. *)
LEMMA BoostedOK ==
  ASSUME NEW st, NEW q, QOK(st, q)
  PROVE  QOK(st, Boosted(q))
<1> DEFINE a == Move(q, 1)
           b == Move(a, 2)
           c == Move(b, 3)
<1>1. Level = {0, 1, 2, 3}
  BY DEF Level
<1>2. /\ QOK(st, a) /\ a[0] = q[0] \o q[1] /\ a[1] = <<>>
      /\ a[2] = q[2] /\ a[3] = q[3]
  <2>1. 1 \in Level \ {0} /\ 2 \in Level \ {0, 1} /\ 3 \in Level \ {0, 1}
    BY DEF Level
  <2>2. QOK(st, a)
    BY <2>1, MoveOK
  <2>3. a = [m \in Level |-> IF m = 0 THEN q[0] \o q[1]
                              ELSE IF m = 1 THEN <<>> ELSE q[m]]
    BY DEF Move
  <2>4. 0 \in Level
    BY DEF Level
  <2> HIDE DEF a
  <2> QED BY <2>1, <2>2, <2>3, <2>4
<1> HIDE DEF a
<1>3. /\ QOK(st, b) /\ b[0] = a[0] \o a[2] /\ b[2] = <<>>
      /\ b[1] = a[1] /\ b[3] = a[3]
  <2>1. 2 \in Level \ {0} /\ 1 \in Level \ {0, 2} /\ 3 \in Level \ {0, 2}
    BY DEF Level
  <2>2. QOK(st, b)
    BY <2>1, <1>2, MoveOK
  <2>3. b = [m \in Level |-> IF m = 0 THEN a[0] \o a[2]
                              ELSE IF m = 2 THEN <<>> ELSE a[m]]
    BY DEF Move
  <2>4. 0 \in Level
    BY DEF Level
  <2> HIDE DEF b
  <2> QED BY <2>1, <2>2, <2>3, <2>4
<1> HIDE DEF b
<1>4. /\ QOK(st, c) /\ c[0] = b[0] \o b[3] /\ c[3] = <<>>
      /\ c[1] = b[1] /\ c[2] = b[2]
  <2>1. 3 \in Level \ {0} /\ 1 \in Level \ {0, 3} /\ 2 \in Level \ {0, 3}
    BY DEF Level
  <2>2. QOK(st, c)
    BY <2>1, <1>3, MoveOK
  <2>3. c = [m \in Level |-> IF m = 0 THEN b[0] \o b[3]
                              ELSE IF m = 3 THEN <<>> ELSE b[m]]
    BY DEF Move
  <2>4. 0 \in Level
    BY DEF Level
  <2> HIDE DEF c
  <2> QED BY <2>1, <2>2, <2>3, <2>4
<1> HIDE DEF c
<1>5. c = Boosted(q)
  <2>1. c \in [Level -> Seq(Thread)]
    BY <1>4 DEF QOK
  <2>2. c = [l \in Level |-> c[l]]
    BY <2>1
  <2>3. \A l \in Level : c[l] = Boosted(q)[l]
    BY <1>1, <1>2, <1>3, <1>4 DEF Boosted
  <2> QED BY <2>2, <2>3 DEF Boosted
<1> QED BY <1>4, <1>5

(* sched_pick takes its thread from a queue that has one. *)
LEMMA PickOK ==
  ASSUME NEW q, ~AllEmpty(q)
  PROVE  PickLevel(q) \in Level /\ q[PickLevel(q)] # <<>>
<1>1. Level = {0, 1, 2, 3}
  BY DEF Level
<1>2. \E l \in Level : q[l] # <<>> /\ \A m \in Level : m < l => q[m] = <<>>
  <2>1. CASE q[0] # <<>>
    BY <2>1, <1>1
  <2>2. CASE q[0] = <<>> /\ q[1] # <<>>
    BY <2>2, <1>1
  <2>3. CASE q[0] = <<>> /\ q[1] = <<>> /\ q[2] # <<>>
    BY <2>3, <1>1
  <2>4. CASE q[0] = <<>> /\ q[1] = <<>> /\ q[2] = <<>> /\ q[3] # <<>>
    BY <2>4, <1>1
  <2> QED BY <2>1, <2>2, <2>3, <2>4, <1>1 DEF AllEmpty
<1> QED BY <1>2 DEF PickLevel

(* The first of a queue is removed by RemoveIndex at 1. *)
LEMMA TailIsRemove ==
  ASSUME NEW s \in Seq(Thread), s # <<>>
  PROVE  /\ 1 \in 1..Len(s) /\ Head(s) = s[1] /\ s[1] \in Thread
         /\ Tail(s) = RemoveIndex(s, 1)
<1>1. Len(s) \in Nat \ {0}
  BY EmptySeq
<1>2. Tail(s) \in Seq(Thread) /\ Len(Tail(s)) = Len(s) - 1
  BY <1>1
<1>3. \A k \in 1..(Len(s) - 1) : Tail(s)[k] = s[k + 1]
  BY <1>2, HeadTailProperties
<1>4. Tail(s) = [k \in 1..(Len(s) - 1) |-> Tail(s)[k]]
  BY <1>2, LenProperties
<1>5. Tail(s) = RemoveIndex(s, 1)
  BY <1>1, <1>3, <1>4 DEF RemoveIndex
<1> QED BY <1>1, <1>5

(* Once the current thread has left the processor, switching to the next   *)
(* keeps the queues and leaves one thread RUNNING.                         *)
LEMMA SwitchOK ==
  ASSUME NEW st, NEW q, QOK(st, q), \A t \in Thread : st[t] # "RUNNING",
         current \in Thread, Switch(st, q)
  PROVE  /\ QOK(state', runq') /\ current' \in Thread
         /\ \A t \in Thread : state'[t] = "RUNNING" => t = current'
<1>1. CASE AllEmpty(q)
  BY <1>1 DEF Switch
<1>2. CASE ~AllEmpty(q)
  <2> DEFINE l == PickLevel(q)
  <2>1. l \in Level /\ q[l] # <<>> /\ q[l] \in Seq(Thread)
    BY <1>2, PickOK DEF QOK
  <2>2. /\ current' = Head(q[l])
        /\ state' = [st EXCEPT ![Head(q[l])] = "RUNNING"]
        /\ runq' = [q EXCEPT ![l] = Tail(q[l])]
    BY <1>2 DEF Switch
  <2> HIDE DEF l
  <2>3. /\ 1 \in 1..Len(q[l]) /\ Head(q[l]) = q[l][1] /\ q[l][1] \in Thread
        /\ Tail(q[l]) = RemoveIndex(q[l], 1)
    BY <2>1, TailIsRemove
  <2>4. "RUNNING" \in ThreadState \ {"READY"}
    BY DEF ThreadState
  <2>5. QOK([st EXCEPT ![q[l][1]] = "RUNNING"], [q EXCEPT ![l] = RemoveIndex(q[l], 1)])
    BY <2>1, <2>3, <2>4, RemoveOK
  <2>6. QOK(state', runq')
    BY <2>2, <2>3, <2>5
  <2>7. \A t \in Thread : state'[t] = "RUNNING" => t = current'
    BY <2>2, <2>3 DEF QOK
  <2> QED BY <2>2, <2>3, <2>6, <2>7
<1> QED BY <1>1, <1>2

-----------------------------------------------------------------------------
(* The numbers a thread is scheduled by. *)
NumbersOK ==
  /\ level \in [Thread -> 0..(UINT32 - 1)]
  /\ quantum \in [Thread -> 0..(UINT32 - 1)]
  /\ sched_ticks \in 0..(BOOST_PERIOD - 1)
  /\ registered \subseteq Thread

(* The inductive invariant. *)
SInv ==
  /\ QOK(state, runq)
  /\ current \in Thread
  /\ OnlyCurrentRuns
  /\ NumbersOK

(* It implies the two properties checked. *)
LEMMA SInvImplies == SInv => TypeOK /\ ReadyIffQueued
  BY QOKIsProperty DEF SInv, QOK, NumbersOK, TypeOK, ThreadState

(* After sched_boot only the root thread is not CREATED. *)
LEMMA InitOK == Init => SInv
<1> SUFFICES ASSUME Init PROVE SInv
  OBVIOUS
<1>1. /\ state \in [Thread -> ThreadState]
      /\ \A t \in Thread : state[t] # "READY" /\ (state[t] = "RUNNING" => t = current)
  BY DEF Init, ThreadState
<1>2. runq \in [Level -> Seq(Thread)] /\ \A l \in Level : runq[l] = <<>>
  BY EmptySeq DEF Init
<1>3. \A l \in Level, i \in Nat, t \in Thread : ~At(runq, l, i, t)
  BY <1>2, EmptySeq DEF At
<1>4. QOK(state, runq)
  BY <1>1, <1>2, <1>3 DEF QOK, AtReady, AtOnce, ReadyAt
<1>5. NumbersOK
  BY SchedAssumption DEF Init, NumbersOK, Level
<1> QED BY <1>1, <1>4, <1>5, SchedAssumption DEF SInv, OnlyCurrentRuns, Init

(* A boost keeps the numbers in range and the queues intact. *)
LEMMA BoostOK ==
  ASSUME NEW st, NEW q, QOK(st, q), NEW S, 0 \in S, NEW lv \in [Thread -> S],
         NEW qu \in [Thread -> 0..(UINT32 - 1)]
  PROVE  /\ QOK(st, Boost(lv, qu, q).runq)
         /\ Boost(lv, qu, q).level \in [Thread -> S]
         /\ Boost(lv, qu, q).quantum \in [Thread -> 0..(UINT32 - 1)]
<1>1. QUANTUM_TICKS[0] \in 0..(UINT32 - 1)
  BY SchedAssumption DEF Level
<1> QED BY <1>1, BoostedOK DEF Boost

(* A level fits into 32 bits, and so does 0. *)
LEMMA LevelFits == Level \subseteq 0..(UINT32 - 1) /\ 0 \in 0..(UINT32 - 1)
  BY SchedAssumption DEF Level

(* The states once the current thread has left the processor. *)
LEMMA LeaveOK ==
  ASSUME SInv, Running, NEW s \in {"READY", "BLOCKED", "TERMINATED"}
  PROVE  \A t \in Thread : [state EXCEPT ![current] = s][t] # "RUNNING"
  BY DEF SInv, QOK, OnlyCurrentRuns

(* sched_tick. *)
LEMMA TickOK ==
  ASSUME SInv, sched_tick
  PROVE  SInv'
<1>1. sched_ticks' \in 0..(BOOST_PERIOD - 1) /\ registered' \subseteq Thread
  BY SchedAssumption DEF SInv, NumbersOK, sched_tick
<1>2. CASE TickStay
  <2> DEFINE left == IF quantum[current] = 0 THEN UINT32 - 1 ELSE quantum[current] - 1
             qu   == [quantum EXCEPT ![current] = left]
             B    == Boost(level, qu, runq)
  <2>1. left \in 0..(UINT32 - 1)
    BY SchedAssumption DEF SInv, NumbersOK
  <2>2. qu \in [Thread -> 0..(UINT32 - 1)]
    BY <2>1 DEF SInv, NumbersOK
  <2>3. /\ level' = B.level /\ quantum' = B.quantum /\ runq' = B.runq
        /\ UNCHANGED <<state, current>>
    BY <1>2 DEF TickStay
  <2> HIDE DEF qu
  <2>4. /\ QOK(state, B.runq) /\ B.level \in [Thread -> 0..(UINT32 - 1)]
        /\ B.quantum \in [Thread -> 0..(UINT32 - 1)]
    BY <2>2, BoostOK, LevelFits DEF SInv, NumbersOK
  <2> QED BY <1>1, <2>3, <2>4 DEF SInv, NumbersOK, OnlyCurrentRuns
<1>3. CASE TickExpire
  <2> DEFINE down == IF level[current] < 3 THEN level[current] + 1 ELSE level[current]
             lv   == [level EXCEPT ![current] = down]
             qu   == [quantum EXCEPT ![current] = QUANTUM_TICKS[down]]
             st   == [state EXCEPT ![current] = "READY"]
             q    == AddTail(runq, down, current)
             B    == Boost(lv, qu, q)
  <2>1. down \in Level
    BY <1>3 DEF TickExpire
  <2>2. QUANTUM_TICKS[down] \in 0..(UINT32 - 1)
    BY <2>1, SchedAssumption
  <2> HIDE DEF down
  <2>3. lv \in [Thread -> 0..(UINT32 - 1)] /\ qu \in [Thread -> 0..(UINT32 - 1)]
    BY <2>1, <2>2, LevelFits DEF SInv, NumbersOK
  <2>4. QOK(st, q)
    BY <1>3, <2>1, AddTailOK, SMTT(30) DEF SInv, TickExpire, Running
  <2>5. \A t \in Thread : st[t] # "RUNNING"
    BY <1>3, LeaveOK DEF TickExpire
  <2>6. level' = B.level /\ quantum' = B.quantum /\ Switch(st, B.runq)
    BY <1>3 DEF TickExpire, down
  <2> HIDE DEF lv, qu, st, q
  <2>7. /\ QOK(st, B.runq) /\ B.level \in [Thread -> 0..(UINT32 - 1)]
        /\ B.quantum \in [Thread -> 0..(UINT32 - 1)]
    BY <2>3, <2>4, BoostOK, LevelFits
  <2> HIDE DEF B
  <2>8. /\ QOK(state', runq') /\ current' \in Thread
        /\ \A t \in Thread : state'[t] = "RUNNING" => t = current'
    BY <2>5, <2>6, <2>7, SwitchOK DEF SInv
  <2> QED BY <1>1, <2>6, <2>7, <2>8 DEF SInv, NumbersOK, OnlyCurrentRuns
<1> QED BY <1>2, <1>3 DEF sched_tick

(* SYS_THREAD_SWITCH. *)
LEMMA YieldOK ==
  ASSUME SInv, sched_yield
  PROVE  SInv'
<1> DEFINE st == [state EXCEPT ![current] = "READY"]
           q  == AddTail(runq, level[current], current)
<1>1. level[current] \in Level
  BY DEF sched_yield
<1>2. QOK(st, q)
  BY <1>1, AddTailOK DEF SInv, sched_yield, Running
<1>3. \A t \in Thread : st[t] # "RUNNING"
  BY LeaveOK DEF sched_yield
<1>4. Switch(st, q)
  BY DEF sched_yield
<1> HIDE DEF st, q
<1>5. /\ QOK(state', runq') /\ current' \in Thread
      /\ \A t \in Thread : state'[t] = "RUNNING" => t = current'
  BY <1>2, <1>3, <1>4, SwitchOK DEF SInv
<1>6. QUANTUM_TICKS[level[current]] \in 0..(UINT32 - 1)
  BY <1>1, SchedAssumption
<1>7. NumbersOK'
  BY <1>6 DEF SInv, NumbersOK, sched_yield
<1> QED BY <1>5, <1>7 DEF SInv, OnlyCurrentRuns

(* The current thread blocks or ends, and the next one runs. *)
LEMMA StopOK ==
  ASSUME SInv, Running, NEW s \in {"BLOCKED", "TERMINATED"},
         Switch([state EXCEPT ![current] = s], runq),
         UNCHANGED <<level, quantum, sched_ticks, registered>>
  PROVE  SInv'
<1> DEFINE st == [state EXCEPT ![current] = s]
<1>1. QOK(st, runq)
  BY SetOK DEF SInv, Running, ThreadState
<1>2. \A t \in Thread : st[t] # "RUNNING"
  BY LeaveOK
<1>3. Switch(st, runq)
  OBVIOUS
<1> HIDE DEF st
<1>4. /\ QOK(state', runq') /\ current' \in Thread
      /\ \A t \in Thread : state'[t] = "RUNNING" => t = current'
  BY <1>1, <1>2, <1>3, SwitchOK DEF SInv
<1> QED BY <1>4 DEF SInv, NumbersOK, OnlyCurrentRuns

(* sched_wakeup and EXR_ACTIVATE. *)
LEMMA EnqueueOK ==
  ASSUME SInv, NEW t \in Thread, state[t] \in {"BLOCKED", "CREATED"},
         sched_enqueue(t)
  PROVE  SInv'
<1>1. 0 \in Level /\ QUANTUM_TICKS[0] \in 0..(UINT32 - 1)
  BY SchedAssumption DEF Level
<1>2. QOK([state EXCEPT ![t] = "READY"], AddTail(runq, 0, t))
  BY <1>1, AddTailOK DEF SInv
<1>3. QOK(state', runq')
  BY <1>2 DEF sched_enqueue
<1>4. OnlyCurrentRuns'
  BY DEF SInv, QOK, OnlyCurrentRuns, sched_enqueue
<1>5. NumbersOK'
  BY <1>1, LevelFits DEF SInv, NumbersOK, sched_enqueue
<1> QED BY <1>3, <1>4, <1>5 DEF SInv, sched_enqueue

(* EXR_DEACTIVATE. *)
LEMMA DeactivateOK ==
  ASSUME SInv, NEW t \in Thread, Deactivate(t)
  PROVE  SInv'
<1>1. "CREATED" \in ThreadState \ {"READY"}
  BY DEF ThreadState
<1>2. QOK(state', runq')
  <2>1. CASE state[t] = "READY"
    <3>1. PICK l \in Level : \E i \in 1..Len(runq[l]) :
            /\ runq[l][i] = t
            /\ runq' = [runq EXCEPT ![l] = RemoveIndex(runq[l], i)]
      BY <2>1 DEF Deactivate
    <3>2. PICK i \in 1..Len(runq[l]) :
            /\ runq[l][i] = t
            /\ runq' = [runq EXCEPT ![l] = RemoveIndex(runq[l], i)]
      BY <3>1
    <3>3. QOK([state EXCEPT ![runq[l][i]] = "CREATED"],
              [runq EXCEPT ![l] = RemoveIndex(runq[l], i)])
      BY <1>1, RemoveOK DEF SInv
    <3> QED BY <3>2, <3>3 DEF Deactivate
  <2>2. CASE state[t] # "READY"
    <3>1. QOK([state EXCEPT ![t] = "CREATED"], runq)
      BY <1>1, <2>2, SetOK DEF SInv
    <3> QED BY <2>2, <3>1 DEF Deactivate
  <2> QED BY <2>1, <2>2
<1>3. OnlyCurrentRuns'
  BY DEF SInv, QOK, OnlyCurrentRuns, Deactivate
<1> QED BY <1>2, <1>3 DEF SInv, NumbersOK, Deactivate

(* SYS_SCHEDULE changes the numbers only, whatever level the thread is     *)
(* queued at.                                                              *)
LEMMA ScheduleOK ==
  ASSUME SInv, NEW t \in Thread, NEW l \in 0..(UINT32 - 1), NEW q \in 0..(UINT32 - 1),
         SysSchedule(t, l, q)
  PROVE  SInv'
  BY DEF SInv, NumbersOK, OnlyCurrentRuns, SysSchedule

-----------------------------------------------------------------------------
(* Every step of the scheduler keeps the inductive invariant. *)
LEMMA StepOK ==
  ASSUME SInv, [Next]_vars
  PROVE  SInv'
<1>1. CASE sched_tick
  BY <1>1, TickOK
<1>2. CASE sched_yield
  BY <1>2, YieldOK
<1>3. CASE sched_block
  BY <1>3, StopOK DEF sched_block
<1>4. ASSUME NEW t \in Thread, sched_wakeup(t) PROVE SInv'
  BY <1>4, EnqueueOK DEF sched_wakeup
<1>5. ASSUME NEW t \in Thread, Activate(t) PROVE SInv'
  BY <1>5, EnqueueOK DEF Activate
<1>6. ASSUME NEW t \in Thread, Deactivate(t) PROVE SInv'
  BY <1>6, DeactivateOK
<1>7. ASSUME NEW t \in Thread, DestroyRunnable(t) PROVE SInv'
  BY <1>7, StopOK DEF DestroyRunnable
<1>8. ASSUME NEW t \in Thread, DestroyIdle(t) PROVE SInv'
  BY <1>8 DEF SInv, NumbersOK, OnlyCurrentRuns, DestroyIdle
<1>9. ASSUME NEW t \in Thread, NEW l \in SetLevels \cup {level[t]},
             NEW q \in SetQuanta \cup {quantum[t]}, SysSchedule(t, l, q)
      PROVE  SInv'
  <2>1. l \in 0..(UINT32 - 1) /\ q \in 0..(UINT32 - 1)
    BY SchedAssumption DEF SInv, NumbersOK
  <2> QED BY <1>9, <2>1, ScheduleOK
<1>10. CASE UNCHANGED vars
  BY <1>10 DEF SInv, NumbersOK, OnlyCurrentRuns, vars
<1> QED BY <1>1, <1>2, <1>3, <1>4, <1>5, <1>6, <1>7, <1>8, <1>9, <1>10 DEF Next

(* The inductive invariant holds in every behaviour. *)
THEOREM SchedInvariant == Spec => []SInv
<1>1. SInv /\ [Next]_vars => SInv'
  BY StepOK
<1> QED BY <1>1, InitOK, PTL DEF Spec

(* Levels and quanta are numbers of 32 bits, whatever SYS_SCHEDULE stores, *)
(* the wrap of a quantum of 0 (sched_tick) included.                       *)
THEOREM SchedTypeCorrect == Spec => []TypeOK
  BY SchedInvariant, SInvImplies, PTL

(* The run queues hold exactly the READY threads, each in one place of one *)
(* queue: nobody runnable is lost by a demotion, a boost, a switch or a    *)
(* deactivation, and list_add never links a node twice.                    *)
THEOREM RunQueuesExact == Spec => []ReadyIffQueued
  BY SchedInvariant, SInvImplies, PTL

(* Only the thread current_tcb names is RUNNING, across every switch. *)
THEOREM OneRuns == Spec => []OnlyCurrentRuns
  BY SchedInvariant, PTL DEF SInv

-----------------------------------------------------------------------------
(* The scheduler implements Dispatch.  ReadyIffQueued is what it takes: a  *)
(* thread found in a queue is READY, and none found means none is.         *)

(* The current thread leaves the processor in state s. *)
LEMMA SwitchDispatches ==
  ASSUME SInv, Running, NEW s \in {"READY", "BLOCKED", "TERMINATED"}, NEW q,
         QOK([state EXCEPT ![current] = s], q), Switch([state EXCEPT ![current] = s], q)
  PROVE  D!Next
<1> DEFINE st == [state EXCEPT ![current] = s]
<1>1. state \in [Thread -> ThreadState] /\ current \in Thread
  BY DEF SInv, QOK
<1>2. D!After({}, s) = st
  BY <1>1 DEF D!After
<1>3. QOK(st, q) /\ Switch(st, q) /\ st \in [Thread -> ThreadState]
  BY DEF QOK
<1> HIDE DEF st
<1>4. CASE AllEmpty(q)
  <2>1. \A l \in Level, i \in Nat, t \in Thread : ~At(q, l, i, t)
    BY <1>4, EmptySeq DEF AllEmpty, At
  <2>2. \A t \in Thread : st[t] # "READY"
    BY <1>3, <2>1 DEF QOK, ReadyAt
  <2>3. D!Halt({}, s)
    BY <1>2, <1>3, <1>4, <2>2 DEF D!Halt, Switch
  <2> QED BY <2>3 DEF D!Next, Running
<1>5. CASE ~AllEmpty(q)
  <2> DEFINE l == PickLevel(q)
             n == Head(q[l])
  <2>1. l \in Level /\ q[l] # <<>> /\ q[l] \in Seq(Thread)
    BY <1>3, <1>5, PickOK DEF QOK
  <2>2. current' = n /\ state' = [st EXCEPT ![n] = "RUNNING"]
    BY <1>3, <1>5 DEF Switch
  <2> HIDE DEF l
  <2>3. n \in Thread /\ At(q, l, 1, n)
    BY <2>1, TailIsRemove DEF At
  <2> HIDE DEF n
  <2>4. st[n] = "READY"
    BY <1>3, <2>1, <2>3 DEF QOK, AtReady
  <2>5. state' = [t \in Thread |-> IF t = n THEN "RUNNING" ELSE st[t]]
    BY <1>3, <2>2
  <2>6. D!GiveUp({}, s)
    BY <1>2, <2>2, <2>3, <2>4, <2>5 DEF D!GiveUp
  <2> QED BY <2>6 DEF D!Next, Running
<1> QED BY <1>4, <1>5

(* sched_tick: the quantum's end is a switch, any other tick a stutter. *)
LEMMA TickDispatches ==
  ASSUME SInv, sched_tick
  PROVE  D!Next \/ UNCHANGED <<state, current>>
<1>1. CASE TickStay
  BY <1>1 DEF TickStay
<1>2. CASE TickExpire
  <2> DEFINE down == IF level[current] < 3 THEN level[current] + 1 ELSE level[current]
             lv   == [level EXCEPT ![current] = down]
             qu   == [quantum EXCEPT ![current] = QUANTUM_TICKS[down]]
             st   == [state EXCEPT ![current] = "READY"]
             q    == AddTail(runq, down, current)
             B    == Boost(lv, qu, q)
  <2>1. down \in Level
    BY <1>2 DEF TickExpire
  <2>2. QUANTUM_TICKS[down] \in 0..(UINT32 - 1)
    BY <2>1, SchedAssumption
  <2> HIDE DEF down
  <2>3. lv \in [Thread -> 0..(UINT32 - 1)] /\ qu \in [Thread -> 0..(UINT32 - 1)]
    BY <2>1, <2>2, LevelFits DEF SInv, NumbersOK
  <2>4. QOK(st, q)
    BY <1>2, <2>1, AddTailOK DEF SInv, TickExpire, Running
  <2>5. Switch(st, B.runq) /\ Running
    BY <1>2 DEF TickExpire, down
  <2> HIDE DEF lv, qu, q
  <2>6. QOK(st, B.runq)
    BY <2>3, <2>4, BoostOK, LevelFits
  <2> HIDE DEF B
  <2> QED BY <2>5, <2>6, SwitchDispatches
<1> QED BY <1>1, <1>2 DEF sched_tick

(* sched_wakeup and EXR_ACTIVATE. *)
LEMMA EnqueueDispatches ==
  ASSUME SInv, Running, NEW t \in Thread, state[t] \in {"BLOCKED", "CREATED"}, sched_enqueue(t)
  PROVE  D!Next
<1>1. t \in D!Startable /\ t # current
  BY DEF D!Startable, Running
<1>2. state \in [Thread -> ThreadState] /\ state' = [state EXCEPT ![t] = "READY"] /\ current' = current
  BY DEF SInv, QOK, sched_enqueue
<1>3. D!Continue({t})
  BY <1>1, <1>2 DEF D!Continue, D!After, Running
<1>4. {t} \in SUBSET D!Startable
  BY <1>1
<1> QED BY <1>3, <1>4 DEF D!Next, Running

LEMMA StepDispatches == SInv /\ [Next]_vars => [D!Next]_(D!vars)
<1> SUFFICES ASSUME SInv, [Next]_vars PROVE D!Next \/ UNCHANGED <<state, current>>
  BY DEF D!vars
<1>1. CASE sched_tick
  BY <1>1, TickDispatches
<1>2. CASE sched_yield
  <2>1. level[current] \in Level
    BY <1>2 DEF sched_yield
  <2>2. QOK([state EXCEPT ![current] = "READY"], AddTail(runq, level[current], current))
    BY <1>2, <2>1, AddTailOK DEF SInv, sched_yield, Running
  <2> QED BY <1>2, <2>2, SwitchDispatches DEF sched_yield
<1>3. ASSUME Running, NEW s \in {"BLOCKED", "TERMINATED"}, Switch([state EXCEPT ![current] = s], runq)
      PROVE  D!Next
  <2>1. QOK([state EXCEPT ![current] = s], runq)
    BY <1>3, SetOK DEF SInv, Running, ThreadState
  <2> QED BY <1>3, <2>1, SwitchDispatches
<1>4. CASE sched_block
  BY <1>3, <1>4 DEF sched_block
<1>5. ASSUME NEW t \in Thread, sched_wakeup(t) PROVE D!Next
  BY <1>5, EnqueueDispatches DEF sched_wakeup
<1>6. ASSUME NEW t \in Thread, Activate(t) PROVE D!Next
  BY <1>6, EnqueueDispatches DEF Activate
<1>7. ASSUME NEW t \in Thread, Deactivate(t) PROVE D!Next
  <2>1. D!Deactivate(t)
    BY <1>7 DEF Deactivate, D!Deactivate
  <2> QED BY <1>7, <2>1 DEF D!Next, Deactivate, Running
<1>8. ASSUME NEW t \in Thread, DestroyRunnable(t) PROVE D!Next
  BY <1>3, <1>8 DEF DestroyRunnable
<1>9. ASSUME NEW t \in Thread, DestroyIdle(t) PROVE UNCHANGED <<state, current>>
  BY <1>9 DEF DestroyIdle
<1>10. ASSUME NEW t \in Thread, NEW l, NEW q, SysSchedule(t, l, q) PROVE UNCHANGED <<state, current>>
  BY <1>10 DEF SysSchedule
<1>11. CASE UNCHANGED vars
  BY <1>11 DEF vars
<1> QED BY <1>1, <1>2, <1>4, <1>5, <1>6, <1>7, <1>8, <1>9, <1>10, <1>11 DEF Next

LEMMA InitDispatches == Init => D!Init
  BY SchedAssumption DEF Init, D!Init

(* For every set of threads, quantum table and boost period the scheduler  *)
(* runs one thread, picks only READY ones, and halts only when there is    *)
(* none.                                                                   *)
THEOREM SchedImplementsDispatch == Spec => ImplementsDispatch
<1>1. Spec => D!Spec
  BY SchedInvariant, StepDispatches, InitDispatches, PTL DEF Spec, D!Spec
<1> QED BY <1>1 DEF ImplementsDispatch

-----------------------------------------------------------------------------
(* How long a thread keeps the processor. *)

(* No longer than the ticks since the last boost, or it is in its last     *)
(* tick, which that boost has given it.                                    *)
HInv ==
  /\ held \in Nat
  /\ held <= sched_ticks \/ (quantum[current] = 1 /\ held <= BOOST_PERIOD)

(* Only sched_tick counts ticks. *)
LEMMA OtherSteps ==
  ASSUME Next, ~sched_tick
  PROVE  sched_ticks' = sched_ticks
<1>1. CASE sched_yield
  BY <1>1 DEF sched_yield
<1>2. CASE sched_block
  BY <1>2 DEF sched_block
<1>3. ASSUME NEW t \in Thread, \/ sched_wakeup(t) \/ Activate(t) \/ Deactivate(t)
                               \/ DestroyRunnable(t) \/ DestroyIdle(t)
      PROVE  sched_ticks' = sched_ticks
  BY <1>3 DEF sched_wakeup, Activate, sched_enqueue, Deactivate, DestroyRunnable, DestroyIdle
<1>4. ASSUME NEW t, NEW l, NEW q, SysSchedule(t, l, q) PROVE sched_ticks' = sched_ticks
  BY <1>4 DEF SysSchedule
<1> QED BY <1>1, <1>2, <1>3, <1>4 DEF Next

LEMMA HeldStep ==
  ASSUME SInv, HInv, HeldNext
  PROVE  HInv'
<1>1. /\ BOOST_PERIOD \in Nat /\ BOOST_PERIOD > 1 /\ sched_ticks \in 0..(BOOST_PERIOD - 1)
      /\ held \in Nat /\ current \in Thread
  BY SchedAssumption, HeldAssumption DEF SInv, NumbersOK, HInv
<1>2. CASE ~sched_tick
  <2>1. sched_ticks' = sched_ticks
    BY <1>2, OtherSteps DEF HeldNext
  <2>2. CASE current' = current /\ quantum'[current] = quantum[current]
    BY <2>1, <2>2 DEF HeldNext, HInv
  <2>3. CASE ~(current' = current /\ quantum'[current] = quantum[current])
    <3>1. held' = 0
      BY <2>1, <2>3 DEF HeldNext
    <3> QED BY <1>1, <2>1, <3>1 DEF HInv
  <2> QED BY <2>2, <2>3
<1>3. CASE sched_tick
  <2>1. sched_ticks' = (IF sched_ticks = BOOST_PERIOD - 1 THEN 0 ELSE sched_ticks + 1)
    BY <1>3 DEF sched_tick
  <2>2. sched_ticks' # sched_ticks /\ sched_ticks' \in Nat
    BY <1>1, <2>1
  <2>3. CASE quantum[current] = 1
    <3>1. held' = 0
      BY <2>2, <2>3 DEF HeldNext
    <3> QED BY <2>2, <3>1 DEF HInv
  <2>4. CASE quantum[current] # 1
    <3>1. held' = held + 1 /\ held <= sched_ticks
      BY <2>2, <2>4 DEF HeldNext, HInv
    <3>2. TickStay
      BY <1>3, <2>4 DEF sched_tick, TickExpire
    <3>3. CASE sched_ticks = BOOST_PERIOD - 1
      <4>1. quantum'[current'] = 1
        <5> DEFINE left == IF quantum[current] = 0 THEN UINT32 - 1 ELSE quantum[current] - 1
                   qu   == [quantum EXCEPT ![current] = left]
        <5>1. current' = current /\ quantum' = Boost(level, qu, runq).quantum
          BY <3>2 DEF TickStay
        <5> HIDE DEF qu
        <5>2. Boost(level, qu, runq).quantum[current] = QUANTUM_TICKS[0]
          BY <1>1, <3>3 DEF Boost
        <5> QED BY <5>1, <5>2, HeldAssumption
      <4>2. held' \in Nat /\ held' <= BOOST_PERIOD
        BY <1>1, <3>1, <3>3
      <4> QED BY <4>1, <4>2 DEF HInv
    <3>4. CASE sched_ticks # BOOST_PERIOD - 1
      <4>1. held' \in Nat /\ held' <= sched_ticks'
        BY <1>1, <2>1, <3>1, <3>4
      <4> QED BY <4>1 DEF HInv
    <3> QED BY <3>3, <3>4
  <2> QED BY <2>3, <2>4
<1> QED BY <1>2, <1>3

(* However SYS_SCHEDULE sets levels and quanta, a quantum of 0 that wraps  *)
(* included: without a further call for it no thread is past a boost and   *)
(* one more tick on the processor.                                         *)
THEOREM BoostEndsQuantum == HeldSpec => []LongQuantumEnds
<1>1. HeldInit => SInv /\ HInv
  <2> SUFFICES ASSUME HeldInit PROVE SInv /\ HInv
    OBVIOUS
  <2>1. SInv /\ held = 0 /\ sched_ticks = 0
    BY InitOK DEF HeldInit, Init
  <2> QED BY <2>1 DEF HInv
<1>2. SInv /\ HInv /\ [HeldNext]_<<vars, held>> => SInv' /\ HInv'
  <2> SUFFICES ASSUME SInv, HInv, [HeldNext]_<<vars, held>> PROVE SInv' /\ HInv'
    OBVIOUS
  <2>1. SInv'
    BY StepOK DEF HeldNext
  <2>2. CASE HeldNext
    BY <2>1, <2>2, HeldStep
  <2>3. CASE UNCHANGED <<vars, held>>
    BY <2>1, <2>3 DEF HInv, vars
  <2> QED BY <2>2, <2>3
<1>3. SInv /\ HInv => LongQuantumEnds
  BY SchedAssumption DEF SInv, NumbersOK, HInv, LongQuantumEnds
<1> QED BY <1>1, <1>2, <1>3, PTL DEF HeldSpec
=============================================================================
