-------------------------- MODULE SchedWaitProofs ---------------------------
(* How long a READY thread waits, for every finite set of threads, every   *)
(* table of quanta that begins with one tick and every boost period.       *)
EXTENDS SchedWait, SchedProofs, FiniteSetTheorems

USE ZenonT(40)

-----------------------------------------------------------------------------
(* Levels and quanta that agree with the queues: the parts of              *)
(* QuantumInBudget, of given states, levels, quanta and queues.            *)

Placed(lv, q) ==
  \A l \in Level, i \in Nat, t \in Thread : At(q, l, i, t) => lv[t] = l

Funded(st, lv, qu) ==
  \A t \in Thread : st[t] \in {"READY", "RUNNING"} => qu[t] \in 1..QUANTUM_TICKS[lv[t]]

(* This is the property checked, read at the state variables. *)
LEMMA BudgetIsProperty ==
  ASSUME runq \in [Level -> Seq(Thread)]
  PROVE  QuantumInBudget <=> Placed(level, runq) /\ Funded(state, level, quantum)
<1>1. \A l \in Level : \A i \in 1..Len(runq[l]) : i \in Nat /\ runq[l][i] \in Thread
  BY SMTT(30)
<1>2. Placed(level, runq) <=> \A l \in Level : \A i \in 1..Len(runq[l]) : level[runq[l][i]] = l
  BY <1>1 DEF Placed, At
<1> QED BY <1>2 DEF Funded, QuantumInBudget

-----------------------------------------------------------------------------
(* Where the threads of a queue go. *)

(* The others stay where they are when a thread joins a queue. *)
LEMMA TailAt ==
  ASSUME NEW st, NEW q, QOK(st, q), NEW t \in Thread, st[t] # "READY", NEW l \in Level
  PROVE  /\ \A m \in Level, i \in Nat, u \in Thread \ {t} :
              At(AddTail(q, l, t), m, i, u) <=> At(q, m, i, u)
         /\ \A m \in Level, i \in Nat : At(AddTail(q, l, t), m, i, t) => m = l
<1>1. q \in [Level -> Seq(Thread)] /\ q[l] \in Seq(Thread)
  BY DEF QOK
<1>2. /\ Len(Append(q[l], t)) = Len(q[l]) + 1
      /\ \A i \in 1..Len(q[l]) : Append(q[l], t)[i] = q[l][i]
      /\ Append(q[l], t)[Len(q[l]) + 1] = t
      /\ Len(q[l]) \in Nat
  BY <1>1, AppendProperties, SMTT(30)
<1>3. /\ AddTail(q, l, t)[l] = Append(q[l], t)
      /\ \A m \in Level : m # l => AddTail(q, l, t)[m] = q[m]
  BY <1>1 DEF AddTail
<1>4. \A i \in Nat, u \in Thread \ {t} : At(AddTail(q, l, t), l, i, u) <=> At(q, l, i, u)
  BY <1>2, <1>3, SMTT(30) DEF At
<1>5. \A m \in Level, i \in Nat, u \in Thread :
        m # l => (At(AddTail(q, l, t), m, i, u) <=> At(q, m, i, u))
  BY <1>3 DEF At
<1>6. \A m \in Level, i \in Nat : ~At(q, m, i, t)
  BY DEF QOK, AtReady
<1> QED BY <1>4, <1>5, <1>6

(* The others keep their order when a thread is taken out of a queue. *)
LEMMA RemoveAt ==
  ASSUME NEW st, NEW q, QOK(st, q), NEW l \in Level, NEW i \in 1..Len(q[l])
  PROVE  LET q2 == [q EXCEPT ![l] = RemoveIndex(q[l], i)] IN
         \A m \in Level, k \in Nat, u \in Thread :
           At(q2, m, k, u) => \/ At(q, m, k, u) /\ (m = l => k < i)
                              \/ At(q, m, k + 1, u) /\ m = l
<1> DEFINE R  == RemoveIndex(q[l], i)
           q2 == [q EXCEPT ![l] = R]
<1>1. q \in [Level -> Seq(Thread)] /\ q[l] \in Seq(Thread) /\ Len(q[l]) - 1 \in Nat
  BY SMTT(30) DEF QOK
<1>2. R \in [1..(Len(q[l]) - 1) -> Thread]
  BY <1>1, SMTT(30) DEF RemoveIndex
<1>3. \A k \in 1..(Len(q[l]) - 1) : R[k] = IF k < i THEN q[l][k] ELSE q[l][k + 1]
  BY <1>1, SMTT(30) DEF RemoveIndex
<1>4. q2[l] = R /\ \A m \in Level : m # l => q2[m] = q[m]
  BY <1>1
<1> HIDE DEF R
<1>5. Len(R) = Len(q[l]) - 1
  <2>1. R \in Seq(Thread)
    BY <1>1, <1>2, SeqDef, SMTT(30)
  <2> QED BY <1>1, <1>2, <2>1, LenProperties, SMTT(30)
<1> HIDE DEF q2
<1>6. \A k \in Nat, u \in Thread : At(q2, l, k, u) =>
        (At(q, l, k, u) /\ k < i) \/ At(q, l, k + 1, u)
  BY <1>1, <1>3, <1>4, <1>5, SMTT(30) DEF At
<1>7. \A m \in Level, k \in Nat, u \in Thread : m # l => (At(q2, m, k, u) => At(q, m, k, u))
  BY <1>4 DEF At
<1>8. \A m \in Level, k \in Nat, u \in Thread :
        At(q2, m, k, u) => \/ At(q, m, k, u) /\ (m = l => k < i)
                           \/ At(q, m, k + 1, u) /\ m = l
  BY <1>6, <1>7
<1> QED BY <1>8 DEF q2, R

(* The first of two lists is the beginning of the two joined. *)
LEMMA Joined ==
  ASSUME NEW s \in Seq(Thread), NEW t \in Seq(Thread)
  PROVE  /\ s \o t \in Seq(Thread) /\ Len(s \o t) >= Len(s)
         /\ \A i \in 1..Len(s) : (s \o t)[i] = s[i]
<1>1. PICK j : j = s \o t
  OBVIOUS
<1>2. /\ j \in Seq(Thread) /\ Len(j) = Len(s) + Len(t)
      /\ \A i \in 1..(Len(s) + Len(t)) : j[i] = IF i <= Len(s) THEN s[i] ELSE t[i - Len(s)]
  BY <1>1, ConcatProperties
<1>3. Len(s) \in Nat /\ Len(t) \in Nat
  BY SMTT(30)
<1>4. /\ j \in Seq(Thread) /\ Len(j) >= Len(s)
      /\ \A i \in 1..Len(s) : j[i] = s[i]
  BY <1>2, <1>3, SMTT(30)
<1> QED BY <1>1, <1>4

(* Those of queue 0 stay where they are in a boost. *)
LEMMA BoostedAt ==
  ASSUME NEW st, NEW q, QOK(st, q)
  PROVE  /\ \A m \in Level, i \in Nat, u \in Thread : At(Boosted(q), m, i, u) => m = 0
         /\ \A i \in Nat, u \in Thread : At(q, 0, i, u) => At(Boosted(q), 0, i, u)
<1>1. /\ 0 \in Level
      /\ q[0] \in Seq(Thread) /\ q[1] \in Seq(Thread)
      /\ q[2] \in Seq(Thread) /\ q[3] \in Seq(Thread)
  <2>1. 0 \in Level /\ 1 \in Level /\ 2 \in Level /\ 3 \in Level
    BY SMTT(30) DEF Level
  <2> QED BY <2>1 DEF QOK
<1>2. \A m \in Level : m # 0 => Boosted(q)[m] = <<>>
  BY DEF Boosted
<1>3. \A m \in Level, i \in Nat, u \in Thread : At(Boosted(q), m, i, u) => m = 0
  BY <1>2, SMTT(30) DEF At
<1>4. Boosted(q)[0] = ((q[0] \o q[1]) \o q[2]) \o q[3]
  BY <1>1 DEF Boosted
<1>5. \A i \in 1..Len(q[0]) : /\ i \in 1..Len(((q[0] \o q[1]) \o q[2]) \o q[3])
                              /\ (((q[0] \o q[1]) \o q[2]) \o q[3])[i] = q[0][i]
  <2>1. PICK a : a = q[0] \o q[1]
    OBVIOUS
  <2>2. a \in Seq(Thread) /\ Len(a) >= Len(q[0]) /\ \A i \in 1..Len(q[0]) : a[i] = q[0][i]
    BY <1>1, <2>1, Joined
  <2>3. PICK b : b = a \o q[2]
    OBVIOUS
  <2>4. b \in Seq(Thread) /\ Len(b) >= Len(a) /\ \A i \in 1..Len(a) : b[i] = a[i]
    BY <1>1, <2>2, <2>3, Joined
  <2>5. PICK c : c = b \o q[3]
    OBVIOUS
  <2>6. c \in Seq(Thread) /\ Len(c) >= Len(b) /\ \A i \in 1..Len(b) : c[i] = b[i]
    BY <1>1, <2>4, <2>5, Joined
  <2>7. \A i \in 1..Len(q[0]) : i \in 1..Len(c) /\ c[i] = q[0][i]
    BY <1>1, <2>2, <2>4, <2>6, SMTT(30)
  <2> QED BY <2>1, <2>3, <2>5, <2>7
<1> QED BY <1>3, <1>4, <1>5 DEF At

(* With someone in queue 0, sched_pick takes its first thread. *)
LEMMA PickFirst ==
  ASSUME NEW q, q[0] # <<>>
  PROVE  ~AllEmpty(q) /\ PickLevel(q) = 0
<1>1. 0 \in Level
  BY SMTT(30) DEF Level
<1>2. ~AllEmpty(q)
  BY <1>1 DEF AllEmpty
<1>3. \A l \in Level : (\A m \in Level : m < l => q[m] = <<>>) => l = 0
  BY <1>1, SMTT(30) DEF Level
<1>4. /\ q[0] # <<>>
      /\ \A m \in Level : m < 0 => q[m] = <<>>
  BY SMTT(30) DEF Level
<1> QED BY <1>1, <1>2, <1>3, <1>4 DEF PickLevel

LEMMA SwitchAt ==
  ASSUME NEW st, NEW q, QOK(st, q), Switch(st, q)
  PROVE  /\ \A m \in Level, i \in Nat, u \in Thread :
              At(runq', m, i, u) => At(q, m, i, u) \/ At(q, m, i + 1, u)
         /\ \A i \in Nat, u \in Thread : At(runq', 0, i, u) =>
              At(q, 0, i + 1, u) /\ current' \in Thread /\ At(q, 0, 1, current')
<1>1. CASE AllEmpty(q)
  <2>1. \A m \in Level : q[m] = <<>>
    BY <1>1 DEF AllEmpty
  <2>2. runq' = q /\ 0 \in Level
    BY <1>1, SMTT(30) DEF Switch, Level
  <2>3. \A m \in Level, i \in Nat, u \in Thread : ~At(runq', m, i, u)
    BY <2>1, <2>2, SMTT(30) DEF At
  <2> QED BY <2>2, <2>3
<1>2. CASE ~AllEmpty(q)
  <2>1. PICK l : l = PickLevel(q)
    OBVIOUS
  <2>2. l \in Level /\ q[l] # <<>> /\ q[l] \in Seq(Thread)
    BY <1>2, <2>1, PickOK DEF QOK
  <2>3. current' = Head(q[l]) /\ runq' = [q EXCEPT ![l] = Tail(q[l])]
    BY <1>2, <2>1 DEF Switch
  <2>4. /\ 1 \in 1..Len(q[l]) /\ Head(q[l]) = q[l][1] /\ q[l][1] \in Thread
        /\ Tail(q[l]) = RemoveIndex(q[l], 1)
    BY <2>2, TailIsRemove
  <2>5. runq' = [q EXCEPT ![l] = RemoveIndex(q[l], 1)]
    BY <2>3, <2>4
  <2>6. \A m \in Level, k \in Nat, u \in Thread :
          At(runq', m, k, u) => \/ At(q, m, k, u) /\ (m = l => k < 1)
                                \/ At(q, m, k + 1, u) /\ m = l
    BY <2>2, <2>4, <2>5, RemoveAt
  <2>7. \A m \in Level, k \in Nat, u \in Thread : At(q, m, k, u) => ~(k < 1) /\ q[m] # <<>>
    BY SMTT(30) DEF At
  <2>8. 0 \in Level /\ \A k \in Nat : k + 1 \in Nat
    BY SMTT(30) DEF Level
  <2>9. ASSUME NEW k \in Nat, NEW u \in Thread, At(runq', 0, k, u)
        PROVE  At(q, 0, k + 1, u) /\ current' \in Thread /\ At(q, 0, 1, current')
    <3>1. q[0] # <<>>
      BY <2>6, <2>7, <2>8, <2>9
    <3>2. l = 0
      BY <3>1, <2>1, PickFirst
    <3>3. At(q, 0, k + 1, u)
      BY <3>2, <2>6, <2>7, <2>8, <2>9
    <3> QED BY <3>2, <3>3, <2>3, <2>4 DEF At
  <2> QED BY <2>6, <2>9
<1> QED BY <1>1, <1>2

-----------------------------------------------------------------------------
(* Every change of the queues keeps the budget. *)

(* sched_enqueue, sched_yield and the expiry of a quantum give a thread    *)
(* that joins a queue the level and the quantum of the queue.              *)
LEMMA TailBudget ==
  ASSUME NEW st, NEW q, QOK(st, q), NEW t \in Thread, st[t] # "READY", NEW l \in Level,
         NEW lv \in [Thread -> Level], NEW qu \in [Thread -> 0..(UINT32 - 1)],
         Placed(lv, q), Funded(st, lv, qu)
  PROVE  /\ Placed([lv EXCEPT ![t] = l], AddTail(q, l, t))
         /\ Funded([st EXCEPT ![t] = "READY"], [lv EXCEPT ![t] = l],
                   [qu EXCEPT ![t] = QUANTUM_TICKS[l]])
<1>1. PICK lv2, qu2, st2 : /\ lv2 = [lv EXCEPT ![t] = l]
                           /\ qu2 = [qu EXCEPT ![t] = QUANTUM_TICKS[l]]
                           /\ st2 = [st EXCEPT ![t] = "READY"]
  OBVIOUS
<1>2. /\ lv2[t] = l /\ qu2[t] = QUANTUM_TICKS[l]
      /\ \A u \in Thread \ {t} : lv2[u] = lv[u] /\ qu2[u] = qu[u] /\ st2[u] = st[u]
  BY <1>1 DEF QOK
<1>3. QUANTUM_TICKS[l] \in 1..QUANTUM_TICKS[l]
  BY SchedAssumption, SMTT(30)
<1>4. Placed(lv2, AddTail(q, l, t))
  <2>1. /\ \A m \in Level, i \in Nat, u \in Thread \ {t} :
             At(AddTail(q, l, t), m, i, u) <=> At(q, m, i, u)
        /\ \A m \in Level, i \in Nat : At(AddTail(q, l, t), m, i, t) => m = l
    BY TailAt
  <2> SUFFICES ASSUME NEW m \in Level, NEW i \in Nat, NEW u \in Thread,
                      At(AddTail(q, l, t), m, i, u)
               PROVE  lv2[u] = m
    BY DEF Placed
  <2>2. CASE u = t
    <3>1. At(AddTail(q, l, t), m, i, t)
      BY <2>2
    <3>2. m = l
      BY <3>1, <2>1
    <3> QED BY <3>2, <2>2, <1>2
  <2>3. CASE u # t
    <3>1. u \in Thread \ {t}
      BY <2>3
    <3>2. At(q, m, i, u)
      BY <3>1, <2>1
    <3>3. lv[u] = m
      BY <3>2 DEF Placed
    <3> QED BY <3>1, <3>3, <1>2
  <2> QED BY <2>2, <2>3
<1>5. Funded(st2, lv2, qu2)
  BY <1>2, <1>3 DEF Funded
<1> QED BY <1>1, <1>4, <1>5

(* sched_boost changes the level and the quantum of those it moves. *)
LEMMA BoostBudget ==
  ASSUME NEW st, NEW q, QOK(st, q), NEW lv \in [Thread -> Level], NEW qu,
         Placed(lv, q), Funded(st, lv, qu), NEW B, B = Boost(lv, qu, q)
  PROVE  Placed(B.level, B.runq) /\ Funded(st, B.level, B.quantum)
<1>1. CASE sched_ticks # BOOST_PERIOD - 1
  <2>1. B.level = lv /\ B.quantum = qu /\ B.runq = q
    BY <1>1 DEF Boost
  <2> QED BY <2>1
<1>2. CASE sched_ticks = BOOST_PERIOD - 1
  <2>1. PICK up : up = Lowered(q) \cup {current}
    OBVIOUS
  <2>2. /\ B.level = [t \in Thread |-> IF t \in up THEN 0 ELSE lv[t]]
        /\ B.quantum = [t \in Thread |-> IF t \in up THEN QUANTUM_TICKS[0] ELSE qu[t]]
        /\ B.runq = Boosted(q)
    BY <1>2, <2>1 DEF Boost
  <2>3. QUANTUM_TICKS[0] \in 1..QUANTUM_TICKS[0]
    <3>1. 0 \in Level
      BY SMTT(30) DEF Level
    <3> QED BY <3>1, SchedAssumption, SMTT(30)
  <2>4. Funded(st, B.level, B.quantum)
    BY <2>2, <2>3 DEF Funded
  <2>5. ASSUME NEW l \in Level, NEW i \in Nat, NEW t \in Thread, At(Boosted(q), l, i, t)
        PROVE  B.level[t] = l
    <3>1. l = 0 /\ st[t] = "READY"
      BY <2>5, BoostedAt, BoostedOK DEF QOK, AtReady
    <3>2. PICK m \in Level, j \in Nat : At(q, m, j, t)
      BY <3>1 DEF QOK, ReadyAt
    <3>3. CASE m = 0
      BY <3>1, <3>2, <3>3, <2>2 DEF Placed
    <3>4. CASE m # 0
      <4>1. t \in up
        BY <3>2, <3>4, <2>1 DEF Lowered, At
      <4> QED BY <4>1, <3>1, <2>2
    <3> QED BY <3>3, <3>4
  <2>6. Placed(B.level, Boosted(q))
    BY <2>5 DEF Placed
  <2> QED BY <2>2, <2>4, <2>6
<1> QED BY <1>1, <1>2

(* The thread sched_pick finds was READY. *)
LEMMA SwitchBudget ==
  ASSUME NEW st, NEW q, QOK(st, q), Switch(st, q), current \in Thread,
         \A t \in Thread : st[t] # "RUNNING",
         NEW lv \in [Thread -> Level], NEW qu, Placed(lv, q), Funded(st, lv, qu)
  PROVE  /\ Placed(lv, runq') /\ Funded(state', lv, qu)
         /\ state'[current'] # "READY"
<1>0. \A i \in Nat : i + 1 \in Nat
  BY SMTT(30)
<1>1. Placed(lv, runq')
  BY <1>0, SwitchAt DEF Placed
<1>2. CASE AllEmpty(q)
  <2>0. \A l \in Level : q[l] = <<>>
    BY <1>2 DEF AllEmpty
  <2>1. \A l \in Level, i \in Nat, t \in Thread : ~At(q, l, i, t)
    BY ONLY <2>0, SMTT(30) DEF At
  <2>2. \A t \in Thread : st[t] # "READY"
    BY <2>1 DEF QOK, ReadyAt
  <2>3. state' = st /\ current' = current
    BY <1>2 DEF Switch
  <2> QED BY <1>1, <2>2, <2>3 DEF Funded
<1>3. CASE ~AllEmpty(q)
  <2>1. PICK l : l = PickLevel(q)
    OBVIOUS
  <2>2. l \in Level /\ q[l] # <<>> /\ q[l] \in Seq(Thread)
    BY <1>3, <2>1, PickOK DEF QOK
  <2>3. current' = Head(q[l]) /\ state' = [st EXCEPT ![Head(q[l])] = "RUNNING"]
    BY <1>3, <2>1 DEF Switch
  <2>4. 1 \in 1..Len(q[l]) /\ Head(q[l]) = q[l][1] /\ q[l][1] \in Thread /\ 1 \in Nat
    BY <2>2, TailIsRemove, SMTT(30)
  <2>5. current' \in Thread /\ st[current'] = "READY"
    BY <2>2, <2>3, <2>4 DEF QOK, AtReady, At
  <2>6. /\ state'[current'] = "RUNNING"
        /\ \A t \in Thread : t # current' => state'[t] = st[t]
    BY <2>3, <2>5 DEF QOK
  <2>7. Funded(state', lv, qu)
    BY <2>5, <2>6 DEF Funded
  <2> QED BY <1>1, <2>6, <2>7
<1> QED BY <1>2, <1>3

(* A boost leaves every level one that has a queue. *)
LEMMA BoostLevels ==
  ASSUME NEW lv \in [Thread -> Level], NEW qu, NEW q
  PROVE  Boost(lv, qu, q).level \in [Thread -> Level]
<1>1. 0 \in Level
  BY SMTT(30) DEF Level
<1> QED BY <1>1, SMTT(30) DEF Boost

(* The inductive invariant of the budget.  Without SYS_SCHEDULE a level    *)
(* always has a queue.                                                     *)
BInv ==
  /\ SInv
  /\ level \in [Thread -> Level]
  /\ Placed(level, runq)
  /\ Funded(state, level, quantum)
  /\ state[current] # "READY"

(* Watched is READY before and after the step. *)
Waiting == state[Watched] = "READY" /\ state'[Watched] = "READY"

(* Watched and the current thread are at level 0: from here on Watched     *)
(* only moves towards the front of queue 0.                                *)
Settled == level[Watched] = 0 /\ level[current] = 0

(* What a step does for Watched: it does not unsettle it, and the step     *)
(* that boosts settles it; once it is settled every tick brings it a place *)
(* nearer to the front, and no other step takes it back.                   *)
Progress ==
  /\ ~Settled' => ~Settled /\ sched_ticks' \in {sched_ticks, sched_ticks + 1}
  /\ Settled => \A i \in Nat : At(runq', 0, i, Watched) =>
       \E j \in Nat : /\ At(runq, 0, j, Watched)
                      /\ j >= i /\ (sched_ticks' # sched_ticks => j >= i + 1)

-----------------------------------------------------------------------------
(* A boost leaves every READY thread at level 0. *)
LEMMA BoostedLevel ==
  ASSUME NEW st, NEW q, QOK(st, q), NEW lv, NEW qu, NEW B, B = Boost(lv, qu, q),
         Placed(B.level, B.runq), sched_ticks = BOOST_PERIOD - 1
  PROVE  \A t \in Thread : st[t] = "READY" => B.level[t] = 0
<1> SUFFICES ASSUME NEW t \in Thread, st[t] = "READY" PROVE B.level[t] = 0
  OBVIOUS
<1>1. B.runq = Boosted(q)
  BY DEF Boost
<1>2. PICK l \in Level, i \in Nat : At(Boosted(q), l, i, t)
  BY BoostedOK DEF QOK, ReadyAt
<1>3. l = 0
  BY <1>2, BoostedAt
<1> QED BY <1>1, <1>2, <1>3 DEF Placed

(* A switch to another thread: it is one of level 0 if Watched is in that  *)
(* queue, and was in front of it.                                          *)
LEMMA SwitchProgress ==
  ASSUME BInv', Waiting, NEW st, NEW q, QOK(st, q), Switch(st, q), Placed(level', q),
         level[Watched] = 0 => level'[Watched] = 0,
         sched_ticks' \in {sched_ticks, sched_ticks + 1} \/ level'[Watched] = 0,
         Settled => \A i \in Nat : At(q, 0, i, Watched) => At(runq, 0, i, Watched)
  PROVE  Progress
<1>1. Watched \in Thread /\ 0 \in Level
  BY WatchedAssumption, SMTT(30) DEF Level
<1>2. \A i \in Nat : i + 1 \in Nat /\ i + 1 >= i /\ i + 1 >= i + 1
  BY SMTT(30)
<1>3. 1 \in Nat
  BY SMTT(30)
<1>4. level'[Watched] = 0 => Settled'
  <2> SUFFICES ASSUME level'[Watched] = 0 PROVE level'[current'] = 0
    BY DEF Settled
  <2>1. PICK l \in Level, i \in Nat : At(runq', l, i, Watched)
    BY <1>1 DEF BInv, SInv, QOK, ReadyAt, Waiting
  <2>2. l = 0
    BY <2>1, <1>1 DEF BInv, Placed
  <2>3. current' \in Thread /\ At(q, 0, 1, current')
    BY <2>1, <2>2, <1>1, SwitchAt
  <2> QED BY <2>3, <1>1, <1>3 DEF Placed
<1>5. ASSUME Settled, NEW i \in Nat, At(runq', 0, i, Watched)
      PROVE  At(runq, 0, i + 1, Watched)
  <2>1. At(q, 0, i + 1, Watched)
    BY <1>1, <1>5, SwitchAt
  <2> QED BY <2>1, <1>2, <1>5
<1>6. ~Settled' => ~Settled /\ sched_ticks' \in {sched_ticks, sched_ticks + 1}
  BY <1>4 DEF Settled
<1>7. Settled => \A i \in Nat : At(runq', 0, i, Watched) =>
        \E j \in Nat : /\ At(runq, 0, j, Watched)
                       /\ j >= i /\ (sched_ticks' # sched_ticks => j >= i + 1)
  BY <1>2, <1>5
<1> QED BY <1>6, <1>7 DEF Progress

(* The current thread blocks or ends. *)
LEMMA StopStep ==
  ASSUME BInv, Running, NEW s \in {"BLOCKED", "TERMINATED"},
         Switch([state EXCEPT ![current] = s], runq),
         UNCHANGED <<level, quantum, sched_ticks, registered>>
  PROVE  BInv' /\ (Waiting => Progress)
<1>1. PICK st : st = [state EXCEPT ![current] = s]
  OBVIOUS
<1>2. QOK(st, runq) /\ \A t \in Thread : st[t] # "RUNNING"
  BY <1>1, SetOK, LeaveOK DEF BInv, SInv, Running, ThreadState
<1>3. current \in Thread /\ \A t \in Thread : t # current => st[t] = state[t]
  BY <1>1 DEF BInv, SInv, QOK
<1>4. st[current] \notin {"READY", "RUNNING"}
  BY <1>1, <1>3 DEF BInv, SInv, QOK
<1>5. Funded(st, level, quantum)
  BY <1>3, <1>4 DEF BInv, Funded
<1>6. /\ Placed(level, runq') /\ Funded(state', level, quantum)
      /\ state'[current'] # "READY"
  BY <1>1, <1>2, <1>3, <1>5, SwitchBudget DEF BInv, SInv, NumbersOK
<1>7. SInv'
  BY StopOK DEF BInv
<1>8. BInv'
  BY <1>6, <1>7 DEF BInv
<1>9. Waiting => Progress
  BY <1>1, <1>2, <1>8, SwitchProgress DEF BInv
<1> QED BY <1>8, <1>9

(* SYS_THREAD_SWITCH. *)
LEMMA YieldStep ==
  ASSUME BInv, sched_yield
  PROVE  BInv' /\ (Waiting => Progress)
<1>1. PICK st, q, qu : /\ st = [state EXCEPT ![current] = "READY"]
                       /\ q = AddTail(runq, level[current], current)
                       /\ qu = [quantum EXCEPT ![current] = QUANTUM_TICKS[level[current]]]
  OBVIOUS
<1>2. /\ SInv /\ Running /\ current \in Thread /\ level[current] \in Level
      /\ level \in [Thread -> Level] /\ quantum \in [Thread -> 0..(UINT32 - 1)]
      /\ QOK(state, runq) /\ state[current] # "READY"
      /\ Placed(level, runq) /\ Funded(state, level, quantum)
  BY DEF BInv, SInv, NumbersOK, sched_yield
<1>3. QOK(st, q) /\ \A t \in Thread : st[t] # "RUNNING"
  BY <1>1, <1>2, AddTailOK, LeaveOK
<1>4. [level EXCEPT ![current] = level[current]] = level
  BY <1>2, SMTT(30)
<1>5. Placed(level, q) /\ Funded(st, level, qu)
  <2>1. /\ Placed([level EXCEPT ![current] = level[current]], q)
        /\ Funded(st, [level EXCEPT ![current] = level[current]], qu)
    BY <1>1, <1>2, TailBudget
  <2> QED BY <2>1, <1>4
<1>6. Switch(st, q) /\ quantum' = qu /\ UNCHANGED <<level, sched_ticks>>
  BY <1>1 DEF sched_yield
<1>7. /\ Placed(level, runq') /\ Funded(state', level, qu)
      /\ state'[current'] # "READY"
  BY <1>2, <1>3, <1>5, <1>6, SwitchBudget
<1>8. BInv'
  BY <1>2, <1>6, <1>7, YieldOK DEF BInv
<1>9. ASSUME Waiting PROVE Progress
  <2>1. Watched \in Thread \ {current} /\ 0 \in Level
    BY <1>2, <1>9, WatchedAssumption, SMTT(30) DEF Waiting, Level
  <2>2. \A i \in Nat : At(q, 0, i, Watched) => At(runq, 0, i, Watched)
    <3>1. \A m \in Level, i \in Nat, u \in Thread \ {current} :
            At(q, m, i, u) <=> At(runq, m, i, u)
      BY <1>1, <1>2, TailAt
    <3> QED BY <3>1, <2>1
  <2> QED BY <1>3, <1>5, <1>6, <1>8, <1>9, <2>2, SwitchProgress
<1> QED BY <1>8, <1>9

(* sched_wakeup and EXR_ACTIVATE. *)
LEMMA EnqueueStep ==
  ASSUME BInv, Running, NEW t \in Thread, state[t] \in {"BLOCKED", "CREATED"},
         sched_enqueue(t)
  PROVE  BInv' /\ (Waiting => Progress)
<1>1. 0 \in Level
  BY SMTT(30) DEF Level
<1>2. /\ SInv /\ current \in Thread /\ current # t /\ state[t] # "READY"
      /\ level \in [Thread -> Level] /\ quantum \in [Thread -> 0..(UINT32 - 1)]
      /\ QOK(state, runq) /\ Placed(level, runq) /\ Funded(state, level, quantum)
  BY DEF BInv, SInv, NumbersOK, Running
<1>3. /\ level' = [level EXCEPT ![t] = 0]
      /\ state' = [state EXCEPT ![t] = "READY"]
      /\ quantum' = [quantum EXCEPT ![t] = QUANTUM_TICKS[0]]
      /\ runq' = AddTail(runq, 0, t)
      /\ current' = current /\ sched_ticks' = sched_ticks
  BY DEF sched_enqueue
<1>4. Placed(level', runq') /\ Funded(state', level', quantum')
  BY <1>1, <1>2, <1>3, TailBudget
<1>5. state'[current'] # "READY"
  BY <1>2, <1>3 DEF QOK, Running
<1>6. BInv'
  <2>1. level' \in [Thread -> Level]
    BY <1>1, <1>2, <1>3
  <2> QED BY <1>2, <1>4, <1>5, <2>1, EnqueueOK DEF BInv
<1>7. ASSUME Waiting PROVE Progress
  <2>1. Watched \in Thread \ {t}
    BY <1>2, <1>7, WatchedAssumption DEF Waiting
  <2>2. Settled' <=> Settled
    BY <1>2, <1>3, <2>1 DEF Settled
  <2>3. \A i \in Nat : At(runq', 0, i, Watched) => At(runq, 0, i, Watched)
    BY <1>1, <1>2, <1>3, <2>1, TailAt
  <2>4. \A i \in Nat : i >= i
    BY SMTT(30)
  <2> QED BY <1>3, <2>2, <2>3, <2>4 DEF Progress
<1> QED BY <1>6, <1>7

(* EXR_DEACTIVATE. *)
LEMMA DeactivateStep ==
  ASSUME BInv, NEW t \in Thread, Deactivate(t)
  PROVE  BInv' /\ (Waiting => Progress)
<1>1. /\ SInv /\ current \in Thread /\ current # t
      /\ QOK(state, runq) /\ Placed(level, runq) /\ Funded(state, level, quantum)
  BY DEF BInv, SInv, Running, Deactivate
<1>2. /\ state' = [state EXCEPT ![t] = "CREATED"]
      /\ UNCHANGED <<current, level, quantum, sched_ticks>>
  BY DEF Deactivate
<1>3. state'[t] = "CREATED" /\ \A u \in Thread : u # t => state'[u] = state[u]
  BY <1>2, <1>1 DEF QOK
<1>4. \A m \in Level, k \in Nat, u \in Thread :
        At(runq', m, k, u) => At(runq, m, k, u) \/ At(runq, m, k + 1, u)
  <2>1. CASE state[t] = "READY"
    <3>1. PICK l \in Level : \E i \in 1..Len(runq[l]) :
            /\ runq[l][i] = t
            /\ runq' = [runq EXCEPT ![l] = RemoveIndex(runq[l], i)]
      BY <2>1 DEF Deactivate
    <3>2. PICK i \in 1..Len(runq[l]) :
            runq' = [runq EXCEPT ![l] = RemoveIndex(runq[l], i)]
      BY <3>1
    <3> QED BY <1>1, <3>2, RemoveAt
  <2>2. CASE state[t] # "READY"
    BY <2>2 DEF Deactivate
  <2> QED BY <2>1, <2>2
<1>5. \A k \in Nat : k + 1 \in Nat /\ k + 1 >= k /\ k >= k
  BY SMTT(30)
<1>6. Placed(level', runq')
  <2> SUFFICES ASSUME NEW m \in Level, NEW k \in Nat, NEW u \in Thread, At(runq', m, k, u)
               PROVE  level[u] = m
    BY <1>2 DEF Placed
  <2>1. k + 1 \in Nat
    BY <1>5
  <2>2. At(runq, m, k, u) \/ At(runq, m, k + 1, u)
    BY <1>4
  <2> QED BY ONLY <1>1, <2>1, <2>2 DEF Placed
<1>7. Funded(state', level', quantum')
  BY <1>1, <1>2, <1>3 DEF Funded
<1>8. BInv'
  BY <1>1, <1>2, <1>3, <1>6, <1>7, DeactivateOK DEF BInv
<1>9. 0 \in Level /\ Watched \in Thread
  BY WatchedAssumption, SMTT(30) DEF Level
<1>10. Settled' <=> Settled
  BY <1>2 DEF Settled
<1>11. Progress
  BY <1>2, <1>4, <1>5, <1>9, <1>10 DEF Progress
<1> QED BY <1>8, <1>11

(* A tick within a quantum: the current thread is below level 0, where a   *)
(* quantum is one tick.                                                    *)
LEMMA StayStep ==
  ASSUME BInv, SInv', sched_tick, TickStay
  PROVE  BInv' /\ (Waiting => Progress)
<1>1. PICK left : left = IF quantum[current] = 0 THEN UINT32 - 1 ELSE quantum[current] - 1
  OBVIOUS
<1>2. PICK qu : qu = [quantum EXCEPT ![current] = left]
  OBVIOUS
<1>3. PICK B : B = Boost(level, qu, runq)
  OBVIOUS
<1>4. /\ Running /\ left # 0 /\ level' = B.level /\ quantum' = B.quantum /\ runq' = B.runq
      /\ UNCHANGED <<state, current>>
  BY <1>1, <1>2, <1>3 DEF TickStay
<1>5. /\ SInv /\ current \in Thread /\ QOK(state, runq) /\ state[current] = "RUNNING"
      /\ level \in [Thread -> Level] /\ quantum \in [Thread -> 0..(UINT32 - 1)]
      /\ Placed(level, runq) /\ Funded(state, level, quantum)
  BY <1>4 DEF BInv, SInv, NumbersOK, Running
<1>6. quantum[current] \in 1..QUANTUM_TICKS[level[current]]
  BY <1>5 DEF Funded
<1>7. QUANTUM_TICKS[level[current]] \in Nat
  <2>1. level[current] \in Level
    BY <1>5
  <2> QED BY <2>1, SchedAssumption, SMTT(30)
<1>8. left \in 1..QUANTUM_TICKS[level[current]] /\ quantum[current] # 1
  BY <1>1, <1>4, <1>6, <1>7, SMTT(30)
<1>9. qu[current] = left /\ \A t \in Thread : t # current => qu[t] = quantum[t]
  BY <1>2, <1>5
<1>10. Funded(state, level, qu)
  BY <1>5, <1>8, <1>9 DEF Funded
<1>11. Placed(B.level, B.runq) /\ Funded(state, B.level, B.quantum)
  BY <1>3, <1>5, <1>10, BoostBudget
<1>12. BInv'
  <2>1. level' \in [Thread -> Level]
    BY <1>3, <1>4, <1>5, BoostLevels
  <2> QED BY <1>4, <1>5, <1>11, <2>1 DEF BInv
<1>13. ~Settled
  <2>1. level[current] # 0
    BY <1>6, <1>8, WatchedAssumption, SMTT(30)
  <2> QED BY <2>1 DEF Settled
<1>14. ASSUME Waiting, ~Settled' PROVE sched_ticks' = sched_ticks + 1
  <2>1. CASE sched_ticks # BOOST_PERIOD - 1
    BY <2>1 DEF sched_tick
  <2>2. CASE sched_ticks = BOOST_PERIOD - 1
    <3>1. B.level[Watched] = 0
      <4>1. \A t \in Thread : state[t] = "READY" => B.level[t] = 0
        BY <1>3, <1>5, <1>11, <2>2, BoostedLevel
      <4> QED BY <4>1, <1>14, WatchedAssumption DEF Waiting
    <3>2. B.level[current] = 0
      <4>1. B.level = [t \in Thread |-> IF t \in Lowered(runq) \cup {current} THEN 0 ELSE level[t]]
        BY <1>3, <2>2 DEF Boost
      <4> QED BY <4>1, <1>5
    <3> QED BY <3>1, <3>2, <1>4, <1>14 DEF Settled
  <2> QED BY <2>1, <2>2
<1> QED BY <1>12, <1>13, <1>14 DEF Progress

(* The end of a quantum. *)
LEMMA ExpireStep ==
  ASSUME BInv, SInv', sched_tick, TickExpire
  PROVE  BInv' /\ (Waiting => Progress)
<1>1. PICK down : down = IF level[current] < 3 THEN level[current] + 1 ELSE level[current]
  OBVIOUS
<1>2. PICK st, q, lv, qu : /\ st = [state EXCEPT ![current] = "READY"]
                           /\ q = AddTail(runq, down, current)
                           /\ lv = [level EXCEPT ![current] = down]
                           /\ qu = [quantum EXCEPT ![current] = QUANTUM_TICKS[down]]
  OBVIOUS
<1>3. PICK B : B = Boost(lv, qu, q)
  OBVIOUS
<1>4. Running /\ level' = B.level /\ quantum' = B.quantum /\ Switch(st, B.runq)
  BY <1>1, <1>2, <1>3 DEF TickExpire
<1>5. /\ SInv /\ current \in Thread /\ QOK(state, runq) /\ state[current] # "READY"
      /\ level \in [Thread -> Level] /\ quantum \in [Thread -> 0..(UINT32 - 1)]
      /\ Placed(level, runq) /\ Funded(state, level, quantum)
  BY DEF BInv, SInv, NumbersOK
<1>6. down \in Level /\ QUANTUM_TICKS[down] \in 0..(UINT32 - 1)
  <2>1. level[current] \in Level
    BY <1>5
  <2>2. down \in Level
    BY <1>1, <2>1, SMTT(30) DEF Level
  <2> QED BY <2>2, SchedAssumption, SMTT(30)
<1>7. lv \in [Thread -> Level] /\ qu \in [Thread -> 0..(UINT32 - 1)]
  BY <1>2, <1>5, <1>6, SMTT(30)
<1>8. QOK(st, q) /\ \A t \in Thread : st[t] # "RUNNING"
  BY <1>2, <1>4, <1>5, <1>6, AddTailOK, LeaveOK
<1>9. Placed(lv, q) /\ Funded(st, lv, qu)
  BY <1>2, <1>5, <1>6, TailBudget
<1>10. Placed(B.level, B.runq) /\ Funded(st, B.level, B.quantum)
  BY <1>3, <1>7, <1>8, <1>9, BoostBudget
<1>11. QOK(st, B.runq) /\ B.level \in [Thread -> Level]
  <2>1. 0 \in Level
    BY SMTT(30) DEF Level
  <2> QED BY <1>3, <1>7, <1>8, <2>1, BoostOK
<1>12. /\ Placed(B.level, runq') /\ Funded(state', B.level, B.quantum)
       /\ state'[current'] # "READY"
  BY <1>4, <1>5, <1>8, <1>10, <1>11, SwitchBudget
<1>13. BInv'
  BY <1>4, <1>11, <1>12 DEF BInv
<1>14. ASSUME Waiting PROVE Progress
  <2>1. Watched \in Thread \ {current} /\ 0 \in Level
    BY <1>5, <1>14, WatchedAssumption, SMTT(30) DEF Waiting, Level
  <2>2. lv[Watched] = level[Watched] /\ st[Watched] = "READY"
    BY <1>2, <1>5, <1>14, <2>1 DEF QOK, Waiting
  <2>3. \A i \in Nat : At(runq, 0, i, Watched) => At(q, 0, i, Watched)
    <3>1. \A m \in Level, i \in Nat, u \in Thread \ {current} :
            At(q, m, i, u) <=> At(runq, m, i, u)
      BY <1>2, <1>5, <1>6, TailAt
    <3> QED BY <3>1, <2>1
  <2>4. \A i \in Nat : At(q, 0, i, Watched) => At(B.runq, 0, i, Watched)
    <3>1. CASE sched_ticks # BOOST_PERIOD - 1
      <4>1. B.runq = q
        BY <3>1, <1>3 DEF Boost
      <4> QED BY <4>1
    <3>2. CASE sched_ticks = BOOST_PERIOD - 1
      <4>1. B.runq = Boosted(q)
        BY <3>2, <1>3 DEF Boost
      <4> QED BY <4>1, <1>8, <2>1, BoostedAt
    <3> QED BY <3>1, <3>2
  <2>5. ASSUME Settled, NEW i \in Nat, At(B.runq, 0, i, Watched)
        PROVE  At(runq, 0, i, Watched)
    <3>1. PICK m \in Level, j \in Nat : At(runq, m, j, Watched)
      BY <1>5, <1>14, <2>1 DEF QOK, ReadyAt, Waiting
    <3>2. m = 0
      BY <3>1, <2>1, <2>5, <1>5 DEF Placed, Settled
    <3>3. At(B.runq, 0, j, Watched)
      BY <3>1, <3>2, <2>3, <2>4
    <3>4. i = j
      BY <3>3, <2>1, <2>5, <1>11 DEF QOK, AtOnce
    <3> QED BY <3>1, <3>2, <3>4
  <2>6. level[Watched] = 0 => level'[Watched] = 0
    <3>1. B.level[Watched] \in {0, lv[Watched]}
      <4>1. CASE sched_ticks # BOOST_PERIOD - 1
        BY <4>1, <1>3 DEF Boost
      <4>2. CASE sched_ticks = BOOST_PERIOD - 1
        <5>1. B.level = [t \in Thread |-> IF t \in Lowered(q) \cup {current} THEN 0 ELSE lv[t]]
          BY <4>2, <1>3 DEF Boost
        <5> QED BY <5>1, <2>1
      <4> QED BY <4>1, <4>2
    <3> QED BY <3>1, <2>2, <1>4
  <2>7. sched_ticks' \in {sched_ticks, sched_ticks + 1} \/ level'[Watched] = 0
    <3>1. CASE sched_ticks # BOOST_PERIOD - 1
      BY <3>1 DEF sched_tick
    <3>2. CASE sched_ticks = BOOST_PERIOD - 1
      <4>1. \A t \in Thread : st[t] = "READY" => B.level[t] = 0
        BY <1>3, <1>8, <1>10, <3>2, BoostedLevel
      <4> QED BY <4>1, <1>4, <2>1, <2>2
    <3> QED BY <3>1, <3>2
  <2> QED BY <1>4, <1>10, <1>11, <1>13, <1>14, <2>5, <2>6, <2>7, SwitchProgress
<1> QED BY <1>13, <1>14

(* Every step keeps the budget, and does not hold Watched up. *)
LEMMA BudgetStep ==
  ASSUME BInv, Next
  PROVE  BInv' /\ (Waiting => Progress)
<1>1. CASE sched_tick
  <2>1. SInv'
    BY <1>1, TickOK DEF BInv
  <2> QED BY <1>1, <2>1, StayStep, ExpireStep DEF sched_tick
<1>2. CASE sched_yield
  BY <1>2, YieldStep
<1>3. CASE sched_block
  BY <1>3, StopStep DEF sched_block
<1>4. ASSUME NEW t \in Thread, sched_wakeup(t) PROVE BInv' /\ (Waiting => Progress)
  BY <1>4, EnqueueStep DEF sched_wakeup
<1>5. ASSUME NEW t \in Thread, Activate(t) PROVE BInv' /\ (Waiting => Progress)
  BY <1>5, EnqueueStep DEF Activate
<1>6. ASSUME NEW t \in Thread, Deactivate(t) PROVE BInv' /\ (Waiting => Progress)
  BY <1>6, DeactivateStep
<1>7. ASSUME NEW t \in Thread, DestroyRunnable(t) PROVE BInv' /\ (Waiting => Progress)
  BY <1>7, StopStep DEF DestroyRunnable
<1>8. ASSUME UNCHANGED <<state, current, runq, level, quantum, sched_ticks>>,
             registered' \subseteq Thread
      PROVE  BInv' /\ (Waiting => Progress)
  <2>1. BInv'
    BY <1>8 DEF BInv, SInv, NumbersOK, OnlyCurrentRuns
  <2>2. Settled' <=> Settled
    BY <1>8 DEF Settled
  <2>3. \A i \in Nat : i >= i
    BY SMTT(30)
  <2> QED BY <1>8, <2>1, <2>2, <2>3 DEF Progress
<1>9. ASSUME NEW t \in Thread, DestroyIdle(t) PROVE BInv' /\ (Waiting => Progress)
  BY <1>8, <1>9 DEF DestroyIdle, BInv, SInv, NumbersOK
<1>10. ASSUME NEW t \in Thread, SysSchedule(t, level[t], quantum[t])
       PROVE  BInv' /\ (Waiting => Progress)
  <2>1. level \in [Thread -> Level] /\ quantum \in [Thread -> 0..(UINT32 - 1)]
    BY DEF BInv, SInv, NumbersOK
  <2>2. level' = level /\ quantum' = quantum
    <3>1. level' = [level EXCEPT ![t] = level[t]] /\ quantum' = [quantum EXCEPT ![t] = quantum[t]]
      BY <1>10 DEF SysSchedule
    <3> QED BY <2>1, <3>1, SMTT(30)
  <2> QED BY <1>8, <1>10, <2>2 DEF SysSchedule, BInv, SInv, NumbersOK
<1> QED BY <1>1, <1>2, <1>3, <1>4, <1>5, <1>6, <1>7, <1>9, <1>10, WatchedAssumption DEF Next

-----------------------------------------------------------------------------
(* The wait. *)

(* The first i of a queue are i different threads, and the thread that     *)
(* runs is not among them.                                                 *)
LEMMA QueueShort ==
  ASSUME NEW st, NEW q, QOK(st, q), NEW c \in Thread, st[c] # "READY",
         NEW w \in Thread, NEW i \in Nat, At(q, 0, i, w)
  PROVE  i + 1 <= Cardinality(Thread)
<1>1. PICK f : f = [k \in 1..i |-> q[0][k]]
  OBVIOUS
<1>2. 0 \in Level /\ \A k \in 1..i : k \in Nat
  BY SMTT(30) DEF Level
<1>3. q[0] \in Seq(Thread)
  BY <1>2 DEF QOK
<1>4. \A k \in 1..i : k \in 1..Len(q[0]) /\ q[0][k] \in Thread
  BY <1>3, SMTT(30) DEF At
<1>5. \A k \in 1..i : At(q, 0, k, q[0][k]) /\ q[0][k] # c
  BY <1>2, <1>4 DEF QOK, AtReady, At
<1>6. ASSUME NEW k \in 1..i, NEW m \in 1..i, q[0][k] = q[0][m] PROVE k = m
  BY <1>2, <1>4, <1>5, <1>6 DEF QOK, AtOnce
<1>7. f \in Injection(1..i, Thread \ {c})
  BY <1>1, <1>4, <1>5, <1>6 DEF Injection, IsInjective
<1>8. IsFiniteSet(Thread \ {c}) /\ Cardinality(Thread \ {c}) = Cardinality(Thread) - 1
  BY FS_RemoveElement, WatchedAssumption
<1>9. Cardinality(1..i) <= Cardinality(Thread \ {c})
  BY <1>7, <1>8, FS_Injection
<1>10. Cardinality(1..i) = i
  BY FS_Interval, SMTT(30)
<1>11. Cardinality(Thread) \in Nat
  BY FS_CardinalityType, WatchedAssumption
<1> QED BY <1>8, <1>9, <1>10, <1>11, SMTT(30)

(* The inductive invariant of the wait: before Watched is settled it has   *)
(* waited since the last boost at most; once it is, what it has waited and *)
(* its place in the queue stay below the bound together.                   *)
Waits ==
  /\ waited \in Nat
  /\ state[Watched] # "READY" => waited = 0
  /\ state[Watched] = "READY" /\ ~Settled => waited <= sched_ticks
  /\ Settled => \A i \in Nat : At(runq, 0, i, Watched) =>
       waited + i < BOOST_PERIOD + Cardinality(Thread)

LEMMA WaitsStep ==
  ASSUME BInv, BInv', Waits, Waiting, Progress,
         waited' = IF sched_ticks' = sched_ticks THEN waited ELSE waited + 1
  PROVE  Waits'
<1>1. /\ sched_ticks \in 0..(BOOST_PERIOD - 1) /\ sched_ticks' \in 0..(BOOST_PERIOD - 1)
      /\ waited \in Nat /\ BOOST_PERIOD \in Nat /\ Cardinality(Thread) \in Nat
  BY SchedAssumption, FS_CardinalityType, WatchedAssumption DEF BInv, SInv, NumbersOK, Waits
<1>2. waited' \in Nat /\ waited' <= waited + 1
  BY <1>1, SMTT(30)
<1>3. Watched \in Thread
  BY WatchedAssumption
<1>4. ASSUME ~Settled' PROVE waited' <= sched_ticks'
  <2>1. waited <= sched_ticks /\ sched_ticks' \in {sched_ticks, sched_ticks + 1}
    BY <1>4 DEF Progress, Waits, Waiting
  <2> QED BY <2>1, <1>1, SMTT(30)
<1>5. ASSUME NEW i \in Nat, At(runq', 0, i, Watched)
      PROVE  waited' + i < BOOST_PERIOD + Cardinality(Thread)
  <2>1. CASE ~Settled
    <3>1. waited <= sched_ticks
      BY <2>1 DEF Waits, Waiting
    <3>2. i + 1 <= Cardinality(Thread)
      BY <1>3, <1>5, QueueShort DEF BInv, SInv
    <3> QED BY <3>1, <3>2, <1>1, <1>2, SMTT(30)
  <2>2. CASE Settled
    <3>1. PICK j \in Nat : /\ At(runq, 0, j, Watched)
                           /\ j >= i /\ (sched_ticks' # sched_ticks => j >= i + 1)
      BY <2>2, <1>5 DEF Progress
    <3>2. waited + j < BOOST_PERIOD + Cardinality(Thread)
      BY <2>2, <3>1 DEF Waits
    <3> QED BY <3>1, <3>2, <1>1, <1>2, SMTT(30)
  <2> QED BY <2>1, <2>2
<1> QED BY <1>2, <1>4, <1>5 DEF Waits, Waiting

(* A wait begins with 0. *)
LEMMA WaitsBegin ==
  ASSUME BInv', waited' = 0
  PROVE  Waits'
<1>1. /\ sched_ticks' \in 0..(BOOST_PERIOD - 1) /\ BOOST_PERIOD \in Nat \ {0}
      /\ Cardinality(Thread) \in Nat /\ Watched \in Thread
  BY SchedAssumption, FS_CardinalityType, WatchedAssumption DEF BInv, SInv, NumbersOK
<1>2. ASSUME NEW i \in Nat, At(runq', 0, i, Watched)
      PROVE  waited' + i < BOOST_PERIOD + Cardinality(Thread)
  <2>1. i + 1 <= Cardinality(Thread)
    BY <1>1, <1>2, QueueShort DEF BInv, SInv
  <2> QED BY <2>1, <1>1, SMTT(30)
<1>3. waited' \in Nat /\ waited' <= sched_ticks'
  BY <1>1, SMTT(30)
<1> QED BY <1>2, <1>3 DEF Waits

(* After sched_boot nobody waits. *)
LEMMA WaitInitOK ==
  ASSUME WaitInit
  PROVE  BInv /\ Waits
<1>1. SInv
  BY InitOK DEF WaitInit
<1>2. /\ \A t \in Thread : state[t] # "READY" /\ (state[t] = "RUNNING" => t = Root)
      /\ current = Root /\ level = [t \in Thread |-> 0]
      /\ quantum = [t \in Thread |-> IF t = Root THEN QUANTUM_TICKS[0] ELSE 0]
      /\ waited = 0
  BY DEF WaitInit, Init
<1>3. \A l \in Level, i \in Nat, t \in Thread : ~At(runq, l, i, t)
  BY <1>1, <1>2 DEF SInv, QOK, AtReady
<1>4. Root \in Thread /\ Watched \in Thread /\ 0 \in Level
  BY SchedAssumption, WatchedAssumption, SMTT(30) DEF Level
<1>5. QUANTUM_TICKS[0] \in 1..QUANTUM_TICKS[0]
  BY WatchedAssumption, SMTT(30)
<1>6. Funded(state, level, quantum)
  BY <1>2, <1>5 DEF Funded
<1>7. BInv
  BY <1>1, <1>2, <1>3, <1>4, <1>6 DEF BInv, Placed
<1>8. waited \in Nat
  BY <1>2, SMTT(30)
<1> QED BY <1>2, <1>3, <1>4, <1>7, <1>8 DEF Waits

(* The invariant gives the bound. *)
LEMMA WaitsBounded ==
  ASSUME BInv, Waits
  PROVE  BoundedWait
<1>1. /\ sched_ticks \in 0..(BOOST_PERIOD - 1) /\ BOOST_PERIOD \in Nat \ {0}
      /\ Cardinality(Thread) \in Nat /\ Watched \in Thread /\ waited \in Nat
  BY SchedAssumption, FS_CardinalityType, WatchedAssumption DEF BInv, SInv, NumbersOK, Waits
<1>2. Cardinality(Thread) # 0
  BY <1>1, FS_EmptySet, WatchedAssumption
<1>3. waited < BOOST_PERIOD + (Cardinality(Thread) - 1)
  <2>1. CASE state[Watched] # "READY"
    BY <2>1, <1>1, <1>2, SMTT(30) DEF Waits
  <2>2. CASE state[Watched] = "READY" /\ ~Settled
    <3>1. waited <= sched_ticks
      BY <2>2 DEF Waits
    <3> QED BY <3>1, <1>1, <1>2, SMTT(30)
  <2>3. CASE state[Watched] = "READY" /\ Settled
    <3>1. PICK l \in Level, i \in Nat : At(runq, l, i, Watched)
      BY <2>3, <1>1 DEF BInv, SInv, QOK, ReadyAt
    <3>2. l = 0
      BY <2>3, <3>1, <1>1 DEF BInv, Placed, Settled
    <3>3. i >= 1
      BY <3>1, SMTT(30) DEF At
    <3>4. waited + i < BOOST_PERIOD + Cardinality(Thread)
      BY <2>3, <3>1, <3>2 DEF Waits
    <3> QED BY <3>3, <3>4, <1>1, SMTT(30)
  <2> QED BY <2>1, <2>2, <2>3
<1>4. (Cardinality(Thread) - 1) * QUANTUM_TICKS[0] = Cardinality(Thread) - 1
  BY <1>1, WatchedAssumption, SMTT(30)
<1>5. QuantumInBudget
  BY BudgetIsProperty DEF BInv, SInv, QOK
<1> QED BY <1>3, <1>4, <1>5 DEF BoundedWait

(* A READY thread runs before the next boost and one tick of each other    *)
(* thread have gone by, and levels and quanta agree with the queues, as    *)
(* long as nobody uses SYS_SCHEDULE.                                       *)
THEOREM WaitsAreBounded == WaitSpec => []BoundedWait
<1>1. WaitInit => BInv /\ Waits
  BY WaitInitOK
<1>2. BInv /\ Waits /\ [WaitNext]_<<vars, waited>> => (BInv /\ Waits)'
  <2> SUFFICES ASSUME BInv, Waits, [WaitNext]_<<vars, waited>> PROVE (BInv /\ Waits)'
    OBVIOUS
  <2>1. CASE WaitNext
    <3>1. BInv' /\ (Waiting => Progress)
      BY <2>1, BudgetStep DEF WaitNext
    <3>2. CASE Waiting
      <4>1. waited' = IF sched_ticks' = sched_ticks THEN waited ELSE waited + 1
        BY <2>1, <3>2 DEF WaitNext, Waiting
      <4> QED BY <3>1, <3>2, <4>1, WaitsStep
    <3>3. CASE ~Waiting
      <4>1. waited' = 0
        BY <2>1, <3>3 DEF WaitNext, Waiting
      <4> QED BY <3>1, <4>1, WaitsBegin
    <3> QED BY <3>2, <3>3
  <2>2. CASE UNCHANGED <<vars, waited>>
    <3>1. UNCHANGED <<state, current, runq, level, quantum, sched_ticks, registered, waited>>
      BY <2>2 DEF vars
    <3>2. SInv'
      BY <3>1 DEF BInv, SInv, NumbersOK, OnlyCurrentRuns
    <3> QED BY <3>1, <3>2 DEF BInv, Waits, Settled
  <2> QED BY <2>1, <2>2
<1>3. BInv /\ Waits => BoundedWait
  BY WaitsBounded
<1> QED BY <1>1, <1>2, <1>3, PTL DEF WaitSpec
=============================================================================
