----------------------------- MODULE TaskProofs -----------------------------
(***************************************************************************)
(* Futexes: the wait queues are exact, and futex_wake wakes exactly whom   *)
(* it should, for every set of threads and words, every mapping of         *)
(* addresses to words and every number of buckets (FutexInv).              *)
(*                                                                         *)
(* The thread table: lookups are exact and a failed TC_CREATE is undone,   *)
(* for every supply of memory and every first size of the table            *)
(* (ThreadsInv).                                                           *)
(***************************************************************************)
EXTENDS Futex, Threads, TLAPS

USE ZenonT(40)

(* Futexes. *)

Waitq == [phys : Phys, waiters : Seq(FutexThread)]

(* A queue of bucket b whose waiters are those that, by w, wait on its     *)
(* word, each once ...                                                     *)
HoldsOK(wq, b, w) ==
  /\ \A j, k \in 1..Len(wq.waiters) : wq.waiters[j] = wq.waiters[k] => j = k
  /\ b = futex_hash(wq.phys)
  /\ \A t \in FutexThread : WaitsIn(wq, t) <=> w[t] = wq.phys

(* ... and one at least. *)
QueueOK(wq, b, w) == wq.waiters # <<>> /\ HoldsOK(wq, b, w)

(* The chain of bucket b: one queue for each word of the bucket that       *)
(* somebody waits on.                                                      *)
ChainOK(c, b, w) ==
  /\ c \in Seq(Waitq)
  /\ \A i \in 1..Len(c) : QueueOK(c[i], b, w)
  /\ \A i, j \in 1..Len(c) : c[i].phys = c[j].phys => i = j
  /\ \A t \in FutexThread : w[t] # 0 /\ b = futex_hash(w[t]) =>
       \E i \in 1..Len(c) : c[i].phys = w[t]

ChainsOK(B, w) ==
  /\ B \in [Bucket -> Seq(Waitq)]
  /\ w \in [FutexThread -> Phys \cup {0}]
  /\ \A b \in Bucket : ChainOK(B[b], b, w)

(* The inductive invariant. *)
FutexInv ==
  /\ tstate \in [FutexThread -> {"READY", "RUNNING", "BLOCKED"}]
  /\ \A t \in FutexThread : tstate[t] = "BLOCKED" <=> waits[t] # 0
  /\ ChainsOK(buckets, waits)

LEMMA PhysType ==
  /\ Phys \subseteq Nat \ {0}
  /\ \A p \in Phys : futex_hash(p) \in Bucket
<1>1. Phys \subseteq Nat \ {0}
  BY FutexAssumption, SMTT(30) DEF Phys
<1>2. ASSUME NEW p \in Nat PROVE futex_hash(p) \in Bucket
  <2>1. p \div 4 \in Nat
    BY SMTT(30)
  <2> QED BY <2>1, FutexAssumption, SMTT(30) DEF futex_hash, Bucket
<1> QED BY <1>1, <1>2

-----------------------------------------------------------------------------
(* Chains. *)

(* From w to w2 threads begin or end to wait on word p only. *)
Moved(w, w2, p) ==
  \A t \in FutexThread : w2[t] = w[t] \/ {w[t], w2[t]} \subseteq {0, p}

(* A waiter of one word that comes or goes changes nothing for the others. *)
LEMMA QueueKept ==
  ASSUME NEW wq \in Waitq, NEW b, NEW w, NEW w2, NEW p, QueueOK(wq, b, w), wq.phys # p,
         Moved(w, w2, p)
  PROVE  QueueOK(wq, b, w2)
<1>1. wq.phys # 0
  BY PhysType, SMTT(30) DEF Waitq
<1>2. \A t \in FutexThread : w2[t] = wq.phys <=> w[t] = wq.phys
  BY <1>1 DEF Moved
<1> QED BY <1>2 DEF QueueOK, HoldsOK

LEMMA ChainKept ==
  ASSUME NEW c, NEW b, NEW w, NEW w2, NEW p, ChainOK(c, b, w), b # futex_hash(p),
         Moved(w, w2, p)
  PROVE  ChainOK(c, b, w2)
<1>1. \A i \in 1..Len(c) : c[i] \in Waitq /\ QueueOK(c[i], b, w)
  BY SMTT(30) DEF ChainOK
<1>2. \A i \in 1..Len(c) : c[i].phys # p
  BY <1>1 DEF QueueOK, HoldsOK
<1>3. \A i \in 1..Len(c) : QueueOK(c[i], b, w2)
  BY <1>1, <1>2, QueueKept
<1>4. \A t \in FutexThread : w2[t] # 0 /\ b = futex_hash(w2[t]) => w2[t] = w[t]
  BY DEF Moved
<1> QED BY <1>3, <1>4 DEF ChainOK

(* Only the chain of the word has to be looked at. *)
LEMMA OneChain ==
  ASSUME NEW B, NEW w, ChainsOK(B, w), NEW p \in Phys, NEW c2,
         NEW w2 \in [FutexThread -> Phys \cup {0}],
         Moved(w, w2, p),
         ChainOK(c2, futex_hash(p), w2)
  PROVE  ChainsOK([B EXCEPT ![futex_hash(p)] = c2], w2)
<1>1. PICK h, B2 : h = futex_hash(p) /\ B2 = [B EXCEPT ![h] = c2]
  OBVIOUS
<1>2. h \in Bucket
  BY <1>1, PhysType
<1>3. /\ B2 \in [Bucket -> Seq(Waitq)] /\ B2[h] = c2
      /\ \A b \in Bucket : b # h => B2[b] = B[b]
  BY <1>1, <1>2 DEF ChainsOK, ChainOK
<1>4. \A b \in Bucket : ChainOK(B2[b], b, w2)
  <2> SUFFICES ASSUME NEW b \in Bucket PROVE ChainOK(B2[b], b, w2)
    OBVIOUS
  <2>1. CASE b = h
    BY <2>1, <1>1, <1>3
  <2>2. CASE b # h
    <3>1. ChainOK(B[b], b, w)
      BY DEF ChainsOK
    <3>2. ChainOK(B[b], b, w2)
      BY <3>1, <2>2, <1>1, ChainKept
    <3> QED BY <3>2, <2>2, <1>3
  <2> QED BY <2>1, <2>2
<1>5. ChainsOK(B2, w2)
  BY <1>3, <1>4 DEF ChainsOK
<1> QED BY <1>1, <1>5

(* What futex_find finds. *)
LEMMA FindOK ==
  ASSUME NEW B, NEW w, ChainsOK(B, w), NEW p \in Phys
  PROVE  LET c == B[futex_hash(p)]
             i == futex_find(B, p)
         IN \/ i = 0 /\ \A j \in 1..Len(c) : c[j].phys # p
            \/ i \in 1..Len(c) /\ c[i].phys = p /\ i # 0
<1>1. PICK c, found, i : /\ c = B[futex_hash(p)]
                         /\ found = {j \in 1..Len(c) : c[j].phys = p}
                         /\ i = futex_find(B, p)
  OBVIOUS
<1>2. ChainOK(c, futex_hash(p), w)
  BY <1>1, PhysType DEF ChainsOK
<1>3. i = IF found = {} THEN 0 ELSE CHOOSE k \in found : \A j \in found : k <= j
  BY <1>1, SMTT(30) DEF futex_find, SameWord
<1>4. CASE found = {}
  BY <1>1, <1>3, <1>4
<1>5. CASE found # {}
  <2>1. PICK k : k \in found
    BY <1>5
  <2>2. \A j \in found : j = k
    BY <1>1, <1>2, <2>1 DEF ChainOK
  <2>3. k <= k /\ k # 0
    BY <1>1, <2>1, SMTT(30)
  <2>4. i \in found
    BY <1>3, <1>5, <2>1, <2>2, <2>3
  <2> QED BY <1>1, <2>2, <2>3, <2>4
<1> QED BY <1>1, <1>4, <1>5

(* One queue of a chain is changed, for the waiters of its word only. *)
LEMMA QueueChanged ==
  ASSUME NEW c, NEW p \in Phys, NEW w, ChainOK(c, futex_hash(p), w),
         NEW i \in 1..Len(c), c[i].phys = p, NEW q \in Waitq, q.phys = p, NEW w2,
         Moved(w, w2, p),
         QueueOK(q, futex_hash(p), w2)
  PROVE  ChainOK([c EXCEPT ![i] = q], futex_hash(p), w2)
<1>1. PICK c2 : c2 = [c EXCEPT ![i] = q]
  OBVIOUS
<1>2. c \in Seq(Waitq)
  BY DEF ChainOK
<1>3. /\ c2 \in Seq(Waitq) /\ Len(c2) = Len(c) /\ c2[i] = q
      /\ \A j \in 1..Len(c) : c[j] \in Waitq /\ (j # i => c2[j] = c[j])
  BY <1>1, <1>2, SMTT(30)
<1>4. \A j \in 1..Len(c) : c2[j].phys = c[j].phys
  BY <1>3
<1>5. \A j \in 1..Len(c) : j # i => QueueOK(c[j], futex_hash(p), w2)
  <2> SUFFICES ASSUME NEW j \in 1..Len(c), j # i PROVE QueueOK(c[j], futex_hash(p), w2)
    OBVIOUS
  <2>1. c[j].phys # p
    BY DEF ChainOK
  <2>2. c[j] \in Waitq /\ QueueOK(c[j], futex_hash(p), w)
    BY <1>3 DEF ChainOK
  <2>3. Moved(w, w2, p)
    OBVIOUS
  <2> QED BY ONLY <2>1, <2>2, <2>3, QueueKept
<1>6. \A j \in 1..Len(c) : QueueOK(c2[j], futex_hash(p), w2)
  BY <1>3, <1>5
<1>7. \A j, k \in 1..Len(c) : c2[j].phys = c2[k].phys => j = k
  BY <1>4 DEF ChainOK
<1>8. ASSUME NEW t \in FutexThread, w2[t] # 0, futex_hash(p) = futex_hash(w2[t])
      PROVE  \E j \in 1..Len(c) : c2[j].phys = w2[t]
  <2>1. CASE w2[t] = p
    BY <2>1, <1>3
  <2>2. CASE w2[t] # p
    <3>1. w2[t] = w[t]
      BY <2>2, <1>8 DEF Moved
    <3>2. PICK j \in 1..Len(c) : c[j].phys = w[t]
      BY <3>1, <1>8 DEF ChainOK
    <3> QED BY <3>1, <3>2, <1>4
  <2> QED BY <2>1, <2>2
<1>9. ChainOK(c2, futex_hash(p), w2)
  BY <1>3, <1>6, <1>7, <1>8 DEF ChainOK
<1> QED BY <1>1, <1>9

(* A queue with one waiter more. *)
LEMMA AddWaiterOK ==
  ASSUME NEW b, NEW wq \in Waitq, NEW t \in FutexThread, NEW w, NEW w2,
         HoldsOK(wq, b, w), ~WaitsIn(wq, t),
         w2[t] = wq.phys, \A u \in FutexThread : u # t => w2[u] = w[u]
  PROVE  /\ AddWaiter(wq, t) \in Waitq /\ AddWaiter(wq, t).phys = wq.phys
         /\ QueueOK(AddWaiter(wq, t), b, w2)
<1>1. PICK q, a : q = wq.waiters /\ a = Append(q, t)
  OBVIOUS
<1>2. PICK r : r = AddWaiter(wq, t)
  OBVIOUS
<1>3. q \in Seq(FutexThread) /\ wq.phys \in Phys
  BY <1>1, SMTT(30) DEF Waitq
<1>4. r.phys = wq.phys /\ r.waiters = a /\ r = [phys |-> wq.phys, waiters |-> a]
  BY <1>1, <1>2 DEF AddWaiter
<1>5. /\ a \in Seq(FutexThread) /\ a # <<>> /\ Len(a) = Len(q) + 1
      /\ a[Len(a)] = t /\ \A k \in 1..Len(q) : a[k] = q[k]
  BY <1>1, <1>3, SMTT(30)
<1>6. r \in Waitq
  BY <1>3, <1>4, <1>5 DEF Waitq
<1>7. \A k \in 1..Len(q) : q[k] # t
  BY <1>1 DEF WaitsIn
<1>8. Len(q) \in Nat
  BY <1>3, SMTT(30)
<1>9. \A j, k \in 1..Len(q) : q[j] = q[k] => j = k
  BY <1>1 DEF HoldsOK
<1>10. \A j, k \in 1..Len(a) : a[j] = a[k] => j = k
  BY ONLY <1>5, <1>7, <1>8, <1>9, SMTT(30)
<1>11. \A u \in FutexThread : WaitsIn(r, u) <=> WaitsIn(wq, u) \/ u = t
  <2>1. \A u : (\E k \in 1..Len(a) : a[k] = u) <=> (\E k \in 1..Len(q) : q[k] = u) \/ u = t
    BY ONLY <1>5, <1>8, SMTT(30)
  <2>2. \A u : WaitsIn(r, u) <=> \E k \in 1..Len(a) : a[k] = u
    BY ONLY <1>4 DEF WaitsIn
  <2>3. \A u : WaitsIn(wq, u) <=> \E k \in 1..Len(q) : q[k] = u
    BY ONLY <1>1 DEF WaitsIn
  <2> QED BY ONLY <2>1, <2>2, <2>3
<1>12. \A u \in FutexThread : WaitsIn(r, u) <=> w2[u] = r.phys
  BY <1>4, <1>11 DEF HoldsOK
<1>13. QueueOK(r, b, w2)
  BY <1>4, <1>5, <1>10, <1>12 DEF QueueOK, HoldsOK
<1> QED BY <1>2, <1>4, <1>6, <1>13

(* A word gets its first waiter: its queue joins the chain. *)
LEMMA QueueAppended ==
  ASSUME NEW c, NEW p \in Phys, NEW w, ChainOK(c, futex_hash(p), w),
         \A j \in 1..Len(c) : c[j].phys # p, NEW q \in Waitq, q.phys = p, NEW w2,
         Moved(w, w2, p),
         QueueOK(q, futex_hash(p), w2)
  PROVE  ChainOK(Append(c, q), futex_hash(p), w2)
<1>1. PICK c2 : c2 = Append(c, q)
  OBVIOUS
<1>2. c \in Seq(Waitq) /\ Len(c) \in Nat
  BY SMTT(30) DEF ChainOK
<1>3. /\ c2 \in Seq(Waitq) /\ Len(c2) = Len(c) + 1 /\ c2[Len(c2)] = q
      /\ \A j \in 1..Len(c) : c[j] \in Waitq /\ c2[j] = c[j]
  BY <1>1, <1>2, SMTT(30)
<1>4. \A j \in 1..Len(c2) : j \in 1..Len(c) \/ j = Len(c2)
  BY <1>2, <1>3, SMTT(30)
<1>5. \A j \in 1..Len(c) : j \in 1..Len(c2)
  BY <1>2, <1>3, SMTT(30)
<1>6. \A j \in 1..Len(c) : QueueOK(c[j], futex_hash(p), w2)
  <2> SUFFICES ASSUME NEW j \in 1..Len(c) PROVE QueueOK(c[j], futex_hash(p), w2)
    OBVIOUS
  <2>1. c[j].phys # p
    OBVIOUS
  <2>2. c[j] \in Waitq /\ QueueOK(c[j], futex_hash(p), w)
    BY <1>3 DEF ChainOK
  <2>3. Moved(w, w2, p)
    OBVIOUS
  <2> QED BY ONLY <2>1, <2>2, <2>3, QueueKept
<1>7. \A j \in 1..Len(c2) : QueueOK(c2[j], futex_hash(p), w2)
  BY <1>3, <1>4, <1>6
<1>8. ASSUME NEW j \in 1..Len(c2), NEW k \in 1..Len(c2), c2[j].phys = c2[k].phys
      PROVE  j = k
  <2>1. CASE j \in 1..Len(c) /\ k \in 1..Len(c)
    BY <2>1, <1>3, <1>8 DEF ChainOK
  <2>2. CASE ~(j \in 1..Len(c) /\ k \in 1..Len(c))
    BY <2>2, <1>3, <1>4, <1>8
  <2> QED BY <2>1, <2>2
<1>9. ASSUME NEW t \in FutexThread, w2[t] # 0, futex_hash(p) = futex_hash(w2[t])
      PROVE  \E j \in 1..Len(c2) : c2[j].phys = w2[t]
  <2>1. CASE w2[t] = p
    <3>1. Len(c2) \in 1..Len(c2)
      BY <1>2, <1>3, SMTT(30)
    <3> QED BY <2>1, <3>1, <1>3
  <2>2. CASE w2[t] # p
    <3>1. w2[t] = w[t]
      BY <2>2, <1>9 DEF Moved
    <3>2. PICK j \in 1..Len(c) : c[j].phys = w[t]
      BY <3>1, <1>9 DEF ChainOK
    <3> QED BY <3>1, <3>2, <1>3, <1>5
  <2> QED BY <2>1, <2>2
<1>10. ChainOK(c2, futex_hash(p), w2)
  BY <1>3, <1>7, <1>8, <1>9 DEF ChainOK
<1> QED BY <1>1, <1>10

(* The last waiters of a word go: its queue leaves the chain. *)
LEMMA QueueUnlinked ==
  ASSUME NEW c, NEW p \in Phys, NEW w, ChainOK(c, futex_hash(p), w),
         NEW i \in 1..Len(c), c[i].phys = p, NEW w2, \A t \in FutexThread : w2[t] # p,
         Moved(w, w2, p)
  PROVE  ChainOK(Unlinked(c, i), futex_hash(p), w2)
<1>1. PICK c2 : c2 = Unlinked(c, i)
  OBVIOUS
<1>2. c \in Seq(Waitq) /\ Len(c) \in Nat /\ i \in Nat /\ 1 <= i /\ i <= Len(c)
  BY SMTT(30) DEF ChainOK
<1>3. /\ c2 \in Seq(Waitq) /\ Len(c2) = Len(c) - 1
      /\ \A j \in 1..(Len(c) - 1) : c2[j] = IF j < i THEN c[j] ELSE c[j + 1]
  <2>1. PICK a, d : a = SubSeq(c, 1, i - 1) /\ d = SubSeq(c, i + 1, Len(c))
    OBVIOUS
  <2>2. /\ a \in Seq(Waitq) /\ Len(a) = i - 1 /\ \A j \in 1..(i - 1) : a[j] = c[j]
        /\ d \in Seq(Waitq) /\ Len(d) = Len(c) - i
        /\ \A j \in 1..(Len(c) - i) : d[j] = c[i + j]
    <3>1. a \in Seq(Waitq) /\ Len(a) = i - 1
      BY ONLY <1>2, <2>1, SMTT(30)
    <3>2. \A j \in 1..(i - 1) : a[j] = c[j]
      BY ONLY <1>2, <2>1, SMTT(30)
    <3>3. d \in Seq(Waitq) /\ Len(d) = Len(c) - i
      BY ONLY <1>2, <2>1, SMTT(30)
    <3>4. \A j \in 1..(Len(c) - i) : d[j] = c[i + j]
      BY ONLY <1>2, <2>1, SMTT(30)
    <3> QED BY <3>1, <3>2, <3>3, <3>4
  <2>3. c2 = a \o d
    BY <1>1, <2>1 DEF Unlinked
  <2>4. /\ c2 \in Seq(Waitq) /\ Len(c2) = Len(a) + Len(d)
        /\ \A j \in 1..Len(a) : c2[j] = a[j]
        /\ \A j \in 1..Len(d) : c2[Len(a) + j] = d[j]
    <3>1. a \in Seq(Waitq) /\ d \in Seq(Waitq)
      BY <2>2
    <3>2. c2 \in Seq(Waitq) /\ Len(c2) = Len(a) + Len(d)
      BY ONLY <3>1, <2>3, SMTT(30)
    <3>3. \A j \in 1..Len(a) : c2[j] = a[j]
      BY ONLY <3>1, <2>3, SMTT(30)
    <3>4. \A j \in 1..Len(d) : c2[Len(a) + j] = d[j]
      BY ONLY <3>1, <2>3, SMTT(30)
    <3> QED BY <3>2, <3>3, <3>4
  <2>5. \A j \in 1..(Len(c) - 1) : j < i => j \in 1..(i - 1)
    BY ONLY <1>2, SMTT(30)
  <2>6. \A j \in 1..(Len(c) - 1) : ~(j < i) =>
          /\ j - (i - 1) \in 1..(Len(c) - i) /\ (i - 1) + (j - (i - 1)) = j
          /\ i + (j - (i - 1)) = j + 1
    BY ONLY <1>2, SMTT(30)
  <2>7. Len(c2) = Len(c) - 1
    BY ONLY <1>2, <2>2, <2>4, SMTT(30)
  <2>8. ASSUME NEW j \in 1..(Len(c) - 1)
        PROVE  c2[j] = IF j < i THEN c[j] ELSE c[j + 1]
    <3>1. CASE j < i
      BY <3>1, <2>2, <2>4, <2>5
    <3>2. CASE ~(j < i)
      <4>1. PICK m : m = j - (i - 1)
        OBVIOUS
      <4>2. m \in 1..(Len(c) - i) /\ (i - 1) + m = j /\ i + m = j + 1
        BY <3>2, <4>1, <2>6
      <4>3. d[m] = c[j + 1] /\ c2[(i - 1) + m] = d[m]
        BY <4>2, <2>2, <2>4
      <4> QED BY <3>2, <4>2, <4>3
    <3> QED BY <3>1, <3>2
  <2> QED BY <2>4, <2>7, <2>8
<1>4. \A j \in 1..Len(c2) : \E k \in 1..Len(c) :
        k # i /\ c2[j] = c[k] /\ (j < i => k = j) /\ (~(j < i) => k = j + 1)
  BY ONLY <1>2, <1>3, SMTT(30)
<1>5. \A k \in 1..Len(c) : k # i => \E j \in 1..Len(c2) : c2[j] = c[k]
  <2> SUFFICES ASSUME NEW k \in 1..Len(c), k # i PROVE \E j \in 1..Len(c2) : c2[j] = c[k]
    OBVIOUS
  <2>1. CASE k < i
    <3>1. k \in 1..Len(c2) /\ c2[k] = c[k]
      BY ONLY <2>1, <1>2, <1>3, k \in 1..Len(c), SMTT(30)
    <3> QED BY <3>1
  <2>2. CASE ~(k < i)
    <3>1. k - 1 \in 1..Len(c2) /\ c2[k - 1] = c[k]
      BY ONLY <2>2, <1>2, <1>3, k \in 1..Len(c), k # i, SMTT(30)
    <3> QED BY <3>1
  <2> QED BY <2>1, <2>2
<1>6. \A k \in 1..Len(c) : k # i => QueueOK(c[k], futex_hash(p), w2)
  <2> SUFFICES ASSUME NEW k \in 1..Len(c), k # i PROVE QueueOK(c[k], futex_hash(p), w2)
    OBVIOUS
  <2>1. c[k].phys # p
    BY DEF ChainOK
  <2>2. c[k] \in Waitq /\ QueueOK(c[k], futex_hash(p), w)
    BY <1>2, SMTT(30) DEF ChainOK
  <2>3. Moved(w, w2, p)
    OBVIOUS
  <2> QED BY ONLY <2>1, <2>2, <2>3, QueueKept
<1>7. \A j \in 1..Len(c2) : QueueOK(c2[j], futex_hash(p), w2)
  BY <1>4, <1>6
<1>8. ASSUME NEW j \in 1..Len(c2), NEW m \in 1..Len(c2), c2[j].phys = c2[m].phys
      PROVE  j = m
  <2>1. PICK k \in 1..Len(c) :
          c2[j] = c[k] /\ (j < i => k = j) /\ (~(j < i) => k = j + 1)
    BY <1>4
  <2>2. PICK l \in 1..Len(c) :
          c2[m] = c[l] /\ (m < i => l = m) /\ (~(m < i) => l = m + 1)
    BY <1>4
  <2>3. k = l
    BY <1>8, <2>1, <2>2 DEF ChainOK
  <2> QED BY ONLY <2>1, <2>2, <2>3, <1>2, <1>3, j \in 1..Len(c2), m \in 1..Len(c2), SMTT(30)
<1>9. ASSUME NEW t \in FutexThread, w2[t] # 0, futex_hash(p) = futex_hash(w2[t])
      PROVE  \E j \in 1..Len(c2) : c2[j].phys = w2[t]
  <2>1. w2[t] = w[t]
    BY <1>9 DEF Moved
  <2>2. PICK k \in 1..Len(c) : c[k].phys = w[t]
    BY <2>1, <1>9 DEF ChainOK
  <2>3. k # i
    BY <2>1, <2>2
  <2> QED BY <2>1, <2>2, <2>3, <1>5
<1>10. ChainOK(c2, futex_hash(p), w2)
  BY <1>3, <1>7, <1>8, <1>9 DEF ChainOK
<1> QED BY <1>1, <1>10

-----------------------------------------------------------------------------
(* futex_wait. *)
LEMMA JoinOK ==
  ASSUME NEW B, NEW w, ChainsOK(B, w), NEW p \in Phys, NEW t \in FutexThread, w[t] = 0
  PROVE  ChainsOK([B EXCEPT ![futex_hash(p)] =
                     Joined(B[futex_hash(p)], futex_find(B, p), p, t)],
                  [w EXCEPT ![t] = p])
<1>1. PICK h, i, w2 : h = futex_hash(p) /\ i = futex_find(B, p) /\ w2 = [w EXCEPT ![t] = p]
  OBVIOUS
<1>2. PICK c : c = B[h]
  OBVIOUS
<1>3. h \in Bucket /\ p # 0
  BY <1>1, PhysType, SMTT(30)
<1>4. ChainOK(c, h, w) /\ w \in [FutexThread -> Phys \cup {0}]
  BY <1>2, <1>3 DEF ChainsOK
<1>5. /\ w2 \in [FutexThread -> Phys \cup {0}] /\ w2[t] = p
      /\ \A u \in FutexThread : u # t => w2[u] = w[u]
  BY <1>1, <1>4
<1>6. Moved(w, w2, p)
  BY <1>5 DEF Moved
<1>7. \/ i = 0 /\ \A j \in 1..Len(c) : c[j].phys # p
      \/ i \in 1..Len(c) /\ c[i].phys = p /\ i # 0
  BY <1>1, <1>2, FindOK
<1>8. ChainOK(Joined(c, i, p, t), h, w2)
  <2>1. CASE i = 0 /\ \A j \in 1..Len(c) : c[j].phys # p
    <3>1. PICK e : e = [phys |-> p, waiters |-> <<>>]
      OBVIOUS
    <3>2. e \in Waitq /\ e.phys = p /\ e.waiters = <<>>
      BY <3>1, SMTT(30) DEF Waitq
    <3>3. \A u : ~WaitsIn(e, u)
      BY <3>2, SMTT(30) DEF WaitsIn
    <3>4. \A j, k \in 1..Len(e.waiters) : e.waiters[j] = e.waiters[k] => j = k
      BY <3>2, SMTT(30)
    <3>5. \A u \in FutexThread : w[u] # p
      <4> SUFFICES ASSUME NEW u \in FutexThread, w[u] = p PROVE FALSE
        OBVIOUS
      <4>1. w[u] # 0 /\ h = futex_hash(w[u])
        BY <1>1, <1>3
      <4> QED BY <4>1, <1>4, <2>1 DEF ChainOK
    <3>6. /\ AddWaiter(e, t) \in Waitq /\ AddWaiter(e, t).phys = p
          /\ QueueOK(AddWaiter(e, t), h, w2)
      <4>1. HoldsOK(e, h, w) /\ ~WaitsIn(e, t) /\ w2[t] = e.phys
        BY <1>1, <1>5, <3>2, <3>3, <3>4, <3>5 DEF HoldsOK
      <4>2. /\ AddWaiter(e, t) \in Waitq /\ AddWaiter(e, t).phys = e.phys
            /\ QueueOK(AddWaiter(e, t), h, w2)
        BY <1>5, <3>2, <4>1, AddWaiterOK
      <4> QED BY <3>2, <4>2
    <3>7. ChainOK(Append(c, AddWaiter(e, t)), h, w2)
      BY <1>1, <1>4, <1>6, <2>1, <3>6, QueueAppended
    <3> QED BY <2>1, <3>1, <3>7 DEF Joined
  <2>2. CASE i \in 1..Len(c) /\ c[i].phys = p /\ i # 0
    <3>1. PICK q : q = c[i]
      OBVIOUS
    <3>2. q \in Waitq /\ QueueOK(q, h, w) /\ q.phys = p
      BY <2>2, <3>1, <1>4, SMTT(30) DEF ChainOK
    <3>3. ~WaitsIn(q, t) /\ HoldsOK(q, h, w) /\ w2[t] = q.phys
      BY <1>3, <1>5, <3>2 DEF QueueOK, HoldsOK
    <3>5. /\ AddWaiter(q, t) \in Waitq /\ AddWaiter(q, t).phys = q.phys
          /\ QueueOK(AddWaiter(q, t), h, w2)
      BY <1>5, <3>2, <3>3, AddWaiterOK
    <3>6. ChainOK([c EXCEPT ![i] = AddWaiter(q, t)], h, w2)
      BY <1>1, <1>4, <1>6, <2>2, <3>2, <3>5, QueueChanged
    <3> QED BY <2>2, <3>1, <3>6 DEF Joined
  <2> QED BY <1>7, <2>1, <2>2
<1>9. ChainsOK([B EXCEPT ![futex_hash(p)] = Joined(c, i, p, t)], w2)
  <2>1. ChainOK(Joined(c, i, p, t), futex_hash(p), w2)
    BY <1>1, <1>8
  <2> QED BY <1>5, <1>6, <2>1, OneChain
<1> QED BY <1>1, <1>2, <1>9

Distinct(q) == \A j, k \in 1..Len(q) : q[j] = q[k] => j = k

(* l are the waiters of q but the first n. *)
Behind(l, q, n) ==
  /\ l \in Seq(FutexThread)
  /\ \A j, k \in 1..Len(l) : l[j] = l[k] => j = k
  /\ \A u : (\E k \in 1..Len(l) : l[k] = u) <=>
              (\E k \in 1..Len(q) : q[k] = u) /\ ~\E k \in 1..n : q[k] = u

LEMMA LeftOver ==
  ASSUME NEW q \in Seq(FutexThread), NEW n \in 1..Len(q), Distinct(q)
  PROVE  Behind(SubSeq(q, n + 1, Len(q)), q, n)
<1> PICK l : l = SubSeq(q, n + 1, Len(q))
  OBVIOUS
<1>1. Len(q) \in Nat /\ n \in Nat /\ 1 <= n /\ n <= Len(q)
  BY SMTT(30)
<1>2. l \in Seq(FutexThread) /\ Len(l) = Len(q) - n
  BY <1>1, SMTT(30)
<1>3. \A k \in 1..Len(l) : l[k] = q[n + k]
  BY <1>1, <1>2, SMTT(30)
<1>4. \A k \in 1..Len(l) : n + k \in 1..Len(q) /\ ~(n + k \in 1..n)
  BY ONLY <1>1, <1>2, SMTT(30)
<1>5. \A k \in 1..Len(q) : k \in 1..n \/ (k - n \in 1..Len(l) /\ n + (k - n) = k)
  BY ONLY <1>1, <1>2, SMTT(30)
<1>6. \A k \in 1..n : k \in 1..Len(q)
  BY ONLY <1>1, SMTT(30)
<1>7. \A j, k \in 1..Len(l) : n + j = n + k => j = k
  BY ONLY <1>1, SMTT(30)
<1>8. \A j, k \in 1..Len(l) : l[j] = l[k] => j = k
  <2> SUFFICES ASSUME NEW j \in 1..Len(l), NEW k \in 1..Len(l), l[j] = l[k] PROVE j = k
    OBVIOUS
  <2>1. q[n + j] = q[n + k]
    BY <1>3
  <2>2. n + j = n + k
    BY <2>1, <1>4 DEF Distinct
  <2> QED BY <2>2, <1>7
<1>9. ASSUME NEW k \in 1..Len(l)
      PROVE  (\E j \in 1..Len(q) : q[j] = l[k]) /\ ~\E j \in 1..n : q[j] = l[k]
  BY <1>3, <1>4, <1>6 DEF Distinct
<1>10. ASSUME NEW k \in 1..Len(q), ~\E j \in 1..n : q[j] = q[k]
       PROVE  \E j \in 1..Len(l) : l[j] = q[k]
  <2>1. k - n \in 1..Len(l) /\ n + (k - n) = k
    BY <1>5, <1>10
  <2>2. l[k - n] = q[k]
    BY <2>1, <1>3
  <2> QED BY <2>1, <2>2
<1>11. ASSUME NEW u
       PROVE  (\E k \in 1..Len(l) : l[k] = u) <=>
                (\E k \in 1..Len(q) : q[k] = u) /\ ~\E k \in 1..n : q[k] = u
  <2>1. ASSUME NEW k \in 1..Len(l), l[k] = u
        PROVE  (\E j \in 1..Len(q) : q[j] = u) /\ ~\E j \in 1..n : q[j] = u
    BY ONLY <1>9, <2>1, Zenon
  <2>2. ASSUME NEW k \in 1..Len(q), q[k] = u, ~\E j \in 1..n : q[j] = u
        PROVE  \E j \in 1..Len(l) : l[j] = u
    BY ONLY <1>10, <2>2, Zenon
  <2> QED BY ONLY <2>1, <2>2, Zenon
<1>12. Behind(l, q, n)
  BY <1>2, <1>8, <1>11 DEF Behind
<1> QED BY <1>12

(* What is to be said of the result r of a wake-up on word p. *)
WokenOK(r, w, p, all) ==
  LET on == {t \in FutexThread : w[t] = p} IN
  /\ ChainsOK(r.B, [u \in FutexThread |-> IF u \in r.woken THEN 0 ELSE w[u]])
  /\ r.woken \subseteq on
  /\ all => r.woken = on
  /\ on # {} /\ ~all => \E t \in on : r.woken = {t}

(* futex_wake takes the waiters it wakes off the queue of the word, and    *)
(* the queue off its chain with the last of them.                          *)
LEMMA WakeOK ==
  ASSUME NEW B, NEW w, ChainsOK(B, w), NEW p \in Phys, NEW all \in BOOLEAN
  PROVE  WokenOK(futex_wake(B, p, all), w, p, all)
<1>1. PICK h, i, r, w2, on : /\ h = futex_hash(p) /\ i = futex_find(B, p)
                             /\ r = futex_wake(B, p, all)
                             /\ w2 = [u \in FutexThread |-> IF u \in r.woken THEN 0 ELSE w[u]]
                             /\ on = {t \in FutexThread : w[t] = p}
  OBVIOUS
<1>2. PICK c : c = B[h]
  OBVIOUS
<1>3. h \in Bucket /\ p # 0
  BY <1>1, PhysType, SMTT(30)
<1>4. /\ ChainOK(c, h, w) /\ w \in [FutexThread -> Phys \cup {0}]
      /\ B \in [Bucket -> Seq(Waitq)]
  BY <1>2, <1>3 DEF ChainsOK
<1>5. \/ i = 0 /\ \A j \in 1..Len(c) : c[j].phys # p
      \/ i \in 1..Len(c) /\ c[i].phys = p /\ i # 0
  BY <1>1, <1>2, FindOK
<1>6. CASE i = 0
  <2>1. r.B = B /\ r.woken = {}
    BY <1>1, <1>6 DEF futex_wake
  <2>2. w2 = w
    BY <1>1, <1>4, <2>1
  <2>3. \A j \in 1..Len(c) : c[j].phys # p
    BY <1>5, <1>6
  <2>4. on = {}
    <3> SUFFICES ASSUME NEW t \in FutexThread, w[t] = p PROVE FALSE
      BY <1>1
    <3>1. w[t] # 0 /\ h = futex_hash(w[t])
      BY <1>1, <1>3
    <3>2. \E j \in 1..Len(c) : c[j].phys = w[t]
      BY <1>4, <3>1 DEF ChainOK
    <3> QED BY <2>3, <3>2
  <2>5. WokenOK(r, w, p, all)
    BY <1>1, <2>1, <2>2, <2>4 DEF WokenOK
  <2> QED BY <1>1, <2>5
<1>7. CASE i # 0
  <2>1. i \in 1..Len(c) /\ c[i].phys = p
    BY <1>5, <1>7
  <2>2. PICK q, n : q = c[i].waiters /\ n = IF all THEN Len(q) ELSE 1
    OBVIOUS
  <2>3. PICK l : l = SubSeq(q, n + 1, Len(q))
    OBVIOUS
  <2>4. PICK left : left = [phys |-> p, waiters |-> l]
    OBVIOUS
  <2>5. c[i] \in Waitq /\ QueueOK(c[i], h, w)
    BY <1>4, <2>1, SMTT(30) DEF ChainOK
  <2>6. /\ q \in Seq(FutexThread) /\ q # <<>>
        /\ \A j, k \in 1..Len(q) : q[j] = q[k] => j = k
        /\ \A t \in FutexThread : (\E k \in 1..Len(q) : q[k] = t) <=> w[t] = p
    BY <2>1, <2>2, <2>5 DEF Waitq, QueueOK, HoldsOK, WaitsIn
  <2>7. n \in 1..Len(q) /\ 1 \in 1..Len(q) /\ (~all => 1..n = {1})
    BY <2>2, <2>6, SMTT(30)
  <2>8. /\ l \in Seq(FutexThread)
        /\ \A j, k \in 1..Len(l) : l[j] = l[k] => j = k
        /\ \A u : (\E k \in 1..Len(l) : l[k] = u) <=>
                    (\E k \in 1..Len(q) : q[k] = u) /\ ~\E k \in 1..n : q[k] = u
    <3>1. Distinct(q)
      BY <2>6 DEF Distinct
    <3>2. Behind(SubSeq(q, n + 1, Len(q)), q, n)
      BY <2>6, <2>7, <3>1, LeftOver
    <3> QED BY <2>3, <3>2 DEF Behind
  <2>9. /\ r.woken = {q[k] : k \in 1..n}
        /\ r.B = [B EXCEPT ![h] = IF l = <<>> THEN Unlinked(c, i) ELSE [c EXCEPT ![i] = left]]
    BY <1>1, <1>2, <1>7, <2>2, <2>3, <2>4 DEF futex_wake, Emptied
  <2>10. \A k \in 1..n : k \in 1..Len(q) /\ q[k] \in FutexThread
    BY <2>6, <2>7, SMTT(30)
  <2>11. r.woken \subseteq on
    <3>1. \A k \in 1..n : q[k] \in FutexThread /\ w[q[k]] = p
      BY <2>6, <2>10
    <3> QED BY <1>1, <2>9, <3>1
  <2>12. \A u \in FutexThread : u \in r.woken <=> \E k \in 1..n : q[k] = u
    BY <2>9
  <2>13. /\ \A u \in FutexThread : w2[u] = IF u \in r.woken THEN 0 ELSE w[u]
         /\ w2 \in [FutexThread -> Phys \cup {0}]
    BY <1>1, <1>4
  <2>14. Moved(w, w2, p)
    BY <1>1, <2>11, <2>13 DEF Moved
  <2>15. left \in Waitq /\ left.phys = p
    BY <2>4, <2>8 DEF Waitq
  <2>16. \A u \in FutexThread : (\E k \in 1..Len(l) : l[k] = u) <=> w2[u] = p
    BY <1>3, <2>6, <2>8, <2>12, <2>13
  <2>17. HoldsOK(left, futex_hash(p), w2)
    BY <2>4, <2>8, <2>16 DEF HoldsOK, WaitsIn
  <2>18. ChainOK(c, futex_hash(p), w)
    BY <1>1, <1>4
  <2>19. ChainsOK(r.B, w2)
    <3>1. CASE l = <<>>
      <4>1. \A u \in FutexThread : w2[u] # p
        <5>1. ~\E k \in 1..Len(l) : TRUE
          BY <3>1, SMTT(30)
        <5> QED BY <2>16, <5>1
      <4>2. ChainOK(Unlinked(c, i), futex_hash(p), w2)
        BY <2>1, <2>14, <2>18, <4>1, QueueUnlinked
      <4>3. r.B = [B EXCEPT ![futex_hash(p)] = Unlinked(c, i)]
        BY <1>1, <2>9, <3>1
      <4>4. ChainsOK([B EXCEPT ![futex_hash(p)] = Unlinked(c, i)], w2)
        BY <2>13, <2>14, <4>2, OneChain
      <4> QED BY <4>3, <4>4
    <3>2. CASE l # <<>>
      <4>1. QueueOK(left, futex_hash(p), w2)
        BY <2>4, <2>17, <3>2 DEF QueueOK
      <4>2. ChainOK([c EXCEPT ![i] = left], futex_hash(p), w2)
        BY <2>1, <2>14, <2>15, <2>18, <4>1, QueueChanged
      <4>3. r.B = [B EXCEPT ![futex_hash(p)] = [c EXCEPT ![i] = left]]
        BY <1>1, <2>9, <3>2
      <4>4. ChainsOK([B EXCEPT ![futex_hash(p)] = [c EXCEPT ![i] = left]], w2)
        BY <2>13, <2>14, <4>2, OneChain
      <4> QED BY <4>3, <4>4
    <3> QED BY <3>1, <3>2
  <2>20. all => r.woken = on
    <3> SUFFICES ASSUME all, NEW u \in on PROVE u \in r.woken
      BY <2>11
    <3>1. \E k \in 1..Len(q) : q[k] = u
      BY <1>1, <2>6
    <3>2. n = Len(q)
      BY <2>2
    <3> QED BY <2>9, <3>1, <3>2
  <2>21. ~all => r.woken = {q[1]} /\ q[1] \in on
    <3> SUFFICES ASSUME ~all PROVE r.woken = {q[1]} /\ q[1] \in on
      OBVIOUS
    <3>1. 1..n = {1}
      BY <2>7
    <3>2. r.woken = {q[k] : k \in {1}}
      BY <2>9, <3>1
    <3>3. r.woken = {q[1]}
      BY ONLY <3>2, Zenon
    <3> QED BY <2>11, <3>3
  <2>22. WokenOK(r, w, p, all)
    BY <1>1, <2>11, <2>19, <2>20, <2>21 DEF WokenOK
  <2> QED BY <1>1, <2>22
<1> QED BY <1>6, <1>7

(* Who is in some queue waits, and who waits is in one. *)
LEMMA InSomeQueue ==
  ASSUME NEW B, NEW w, ChainsOK(B, w), NEW t \in FutexThread
  PROVE  (\E b \in Bucket : \E i \in 1..Len(B[b]) : WaitsIn(B[b][i], t)) <=> w[t] # 0
<1>1. ASSUME NEW b \in Bucket, NEW i \in 1..Len(B[b])
      PROVE  /\ B[b][i].phys \in Phys
             /\ WaitsIn(B[b][i], t) <=> w[t] = B[b][i].phys
  <2>1. B[b] \in Seq(Waitq) /\ QueueOK(B[b][i], b, w)
    BY DEF ChainsOK, ChainOK
  <2>2. B[b][i] \in Waitq
    BY <2>1, SMTT(30)
  <2> QED BY <2>1, <2>2 DEF QueueOK, HoldsOK, Waitq
<1>2. ASSUME w[t] # 0 PROVE \E b \in Bucket : \E i \in 1..Len(B[b]) : B[b][i].phys = w[t]
  <2>1. w[t] \in Phys
    BY <1>2 DEF ChainsOK
  <2>2. futex_hash(w[t]) \in Bucket
    BY <2>1, PhysType
  <2>3. ChainOK(B[futex_hash(w[t])], futex_hash(w[t]), w)
    BY <2>2 DEF ChainsOK
  <2>4. \E i \in 1..Len(B[futex_hash(w[t])]) : B[futex_hash(w[t])][i].phys = w[t]
    BY <2>3, <1>2 DEF ChainOK
  <2> QED BY <2>2, <2>4
<1>3. ASSUME w[t] # 0 PROVE \E b \in Bucket : \E i \in 1..Len(B[b]) : WaitsIn(B[b][i], t)
  <2>1. PICK b \in Bucket : \E i \in 1..Len(B[b]) : B[b][i].phys = w[t]
    BY <1>2, <1>3
  <2>2. PICK i \in 1..Len(B[b]) : B[b][i].phys = w[t]
    BY <2>1
  <2>3. WaitsIn(B[b][i], t)
    BY <1>1, <2>2
  <2> QED BY <2>3
<1>4. ASSUME NEW b \in Bucket, NEW i \in 1..Len(B[b]), WaitsIn(B[b][i], t) PROVE w[t] # 0
  <2>1. B[b][i].phys \in Phys /\ w[t] = B[b][i].phys
    BY <1>1, <1>4
  <2> QED BY <2>1, PhysType, SMTT(30)
<1> QED BY <1>3, <1>4

-----------------------------------------------------------------------------
(* The invariant. *)

LEMMA FutexInitOK == FutexInit => FutexInv
<1> SUFFICES ASSUME FutexInit PROVE FutexInv
  OBVIOUS
<1>1. /\ tstate \in [FutexThread -> {"READY", "RUNNING", "BLOCKED"}]
      /\ \A t \in FutexThread : tstate[t] # "BLOCKED" /\ waits[t] = 0
  BY DEF FutexInit
<1>2. <<>> \in Seq(Waitq) /\ Len(<<>>) = 0 /\ 1..0 = {}
  BY SMTT(30)
<1>3. /\ buckets \in [Bucket -> Seq(Waitq)] /\ waits \in [FutexThread -> Phys \cup {0}]
      /\ \A b \in Bucket : buckets[b] = <<>>
  BY <1>2 DEF FutexInit
<1>4. \A b \in Bucket : ChainOK(buckets[b], b, waits)
  <2> SUFFICES ASSUME NEW b \in Bucket PROVE ChainOK(<<>>, b, waits)
    BY <1>3
  <2> QED BY <1>1, <1>2 DEF ChainOK
<1> QED BY <1>1, <1>3, <1>4 DEF FutexInv, ChainsOK

LEMMA UsableWord ==
  ASSUME NEW t \in FutexThread, NEW a \in UserAddr, Usable(t, a)
  PROVE  Extract[t][a] \in Phys
BY SMTT(30) DEF Usable, Phys

LEMMA WaitStep ==
  ASSUME FutexInv, NEW t \in FutexThread, NEW a \in UserAddr, NEW v, futex_wait(t, a, v)
  PROVE  FutexInv'
<1>1. PICK p : p = Extract[t][a]
  OBVIOUS
<1>2. p \in Phys
  BY <1>1, UsableWord DEF futex_wait
<1>3. /\ tstate[t] = "RUNNING"
      /\ buckets' = [buckets EXCEPT ![futex_hash(p)] =
                       Joined(buckets[futex_hash(p)], futex_find(buckets, p), p, t)]
      /\ waits' = [waits EXCEPT ![t] = p]
  BY <1>1 DEF futex_wait
<1>4. PICK u \in FutexThread :
        tstate[u] = "READY" /\ tstate' = [tstate EXCEPT ![t] = "BLOCKED", ![u] = "RUNNING"]
  BY DEF futex_wait
<1>5. /\ tstate \in [FutexThread -> {"READY", "RUNNING", "BLOCKED"}]
      /\ \A s \in FutexThread : tstate[s] = "BLOCKED" <=> waits[s] # 0
      /\ ChainsOK(buckets, waits)
  BY DEF FutexInv
<1>6. waits[t] = 0 /\ waits[u] = 0 /\ u # t /\ p # 0
  BY <1>2, <1>3, <1>4, <1>5, PhysType, SMTT(30)
<1>7. ChainsOK(buckets', waits')
  <2>1. ChainsOK([buckets EXCEPT ![futex_hash(p)] =
                    Joined(buckets[futex_hash(p)], futex_find(buckets, p), p, t)],
                 [waits EXCEPT ![t] = p])
    BY <1>2, <1>5, <1>6, JoinOK
  <2> QED BY <1>3, <2>1
<1>8. waits \in [FutexThread -> Phys \cup {0}]
  BY <1>5 DEF ChainsOK
<1>9. tstate' \in [FutexThread -> {"READY", "RUNNING", "BLOCKED"}]
  BY <1>4, <1>5
<1>10. \A s \in FutexThread : tstate'[s] = "BLOCKED" <=> waits'[s] # 0
  BY <1>3, <1>4, <1>5, <1>6, <1>8
<1> QED BY <1>7, <1>9, <1>10 DEF FutexInv

LEMMA WakeStep ==
  ASSUME FutexInv, NEW t \in FutexThread, NEW a \in UserAddr, NEW all \in BOOLEAN,
         Wake(t, a, all)
  PROVE  FutexInv'
<1>1. PICK p : p = Extract[t][a]
  OBVIOUS
<1>2. PICK r : r = futex_wake(buckets, p, all)
  OBVIOUS
<1>3. p \in Phys
  BY <1>1, UsableWord DEF Wake
<1>4. /\ buckets' = r.B
      /\ tstate' = [u \in FutexThread |-> IF u \in r.woken THEN "READY" ELSE tstate[u]]
      /\ waits' = [u \in FutexThread |-> IF u \in r.woken THEN 0 ELSE waits[u]]
  BY <1>1, <1>2 DEF Wake
<1>5. /\ tstate \in [FutexThread -> {"READY", "RUNNING", "BLOCKED"}]
      /\ \A s \in FutexThread : tstate[s] = "BLOCKED" <=> waits[s] # 0
      /\ ChainsOK(buckets, waits)
  BY DEF FutexInv
<1>6. ChainsOK(r.B, [u \in FutexThread |-> IF u \in r.woken THEN 0 ELSE waits[u]])
  <2>1. WokenOK(futex_wake(buckets, p, all), waits, p, all)
    BY <1>3, <1>5, WakeOK
  <2> QED BY <1>2, <2>1 DEF WokenOK
<1>7. ChainsOK(buckets', waits')
  BY <1>4, <1>6
<1>8. tstate' \in [FutexThread -> {"READY", "RUNNING", "BLOCKED"}]
  BY <1>4, <1>5
<1>9. \A s \in FutexThread : tstate'[s] = "BLOCKED" <=> waits'[s] # 0
  <2> SUFFICES ASSUME NEW s \in FutexThread PROVE tstate'[s] = "BLOCKED" <=> waits'[s] # 0
    OBVIOUS
  <2>1. CASE s \in r.woken
    <3>1. tstate'[s] = "READY" /\ waits'[s] = 0
      BY <1>4, <2>1
    <3> QED BY <3>1
  <2>2. CASE s \notin r.woken
    <3>1. tstate'[s] = tstate[s] /\ waits'[s] = waits[s]
      BY <1>4, <2>2
    <3> QED BY <3>1, <1>5
  <2> QED BY <2>1, <2>2
<1> QED BY <1>7, <1>8, <1>9 DEF FutexInv

LEMMA PreemptStep ==
  ASSUME FutexInv, NEW t \in FutexThread, NEW u \in FutexThread, Preempt(t, u)
  PROVE  FutexInv'
<1>1. /\ tstate' \in [FutexThread -> {"READY", "RUNNING", "BLOCKED"}]
      /\ \A s \in FutexThread : tstate'[s] = "BLOCKED" <=> tstate[s] = "BLOCKED"
  BY DEF Preempt, FutexInv
<1>2. waits' = waits /\ buckets' = buckets
  BY DEF Preempt
<1> QED BY <1>1, <1>2 DEF FutexInv

LEMMA FutexStep == FutexInv /\ [FutexNext]_futexVars => FutexInv'
<1> SUFFICES ASSUME FutexInv, [FutexNext]_futexVars PROVE FutexInv'
  OBVIOUS
<1>1. ASSUME tstate' = tstate, buckets' = buckets, waits' = waits PROVE FutexInv'
  BY <1>1 DEF FutexInv
<1>2. CASE UNCHANGED futexVars
  BY <1>1, <1>2 DEF futexVars
<1>3. ASSUME NEW t \in FutexThread, NEW a \in UserAddr, NEW v, Store(t, a, v) PROVE FutexInv'
  BY <1>1, <1>3 DEF Store
<1>4. CASE FutexNext
  BY <1>3, <1>4, WaitStep, WakeStep, PreemptStep DEF FutexNext
<1> QED BY <1>2, <1>4

LEMMA InvQueuesExact == FutexInv => QueuesExact
<1> SUFFICES ASSUME FutexInv PROVE QueuesExact
  OBVIOUS
<1>1. \A b \in Bucket : ChainOK(buckets[b], b, waits)
  BY DEF FutexInv, ChainsOK
<1>2. ASSUME NEW b \in Bucket, NEW i \in 1..Len(buckets[b])
      PROVE  QueueOK(buckets[b][i], b, waits)
  BY <1>1 DEF ChainOK
<1>3. ASSUME NEW b \in Bucket, NEW c \in Bucket, NEW i \in 1..Len(buckets[b]),
             NEW j \in 1..Len(buckets[c]), buckets[b][i].phys = buckets[c][j].phys
      PROVE  b = c /\ i = j
  <2>1. b = c
    <3>1. b = futex_hash(buckets[b][i].phys) /\ c = futex_hash(buckets[c][j].phys)
      BY <1>2 DEF QueueOK, HoldsOK
    <3> QED BY <1>3, <3>1
  <2>2. j \in 1..Len(buckets[b]) /\ buckets[b][i].phys = buckets[b][j].phys
    BY <1>3, <2>1
  <2>3. \A m, n \in 1..Len(buckets[b]) : buckets[b][m].phys = buckets[b][n].phys => m = n
    BY <1>1 DEF ChainOK
  <2>4. i = j
    BY <2>2, <2>3
  <2> QED BY <2>1, <2>4
<1>4. ASSUME NEW t \in FutexThread, waits[t] # 0
      PROVE  \E b \in Bucket : \E i \in 1..Len(buckets[b]) : buckets[b][i].phys = waits[t]
  <2>1. \E b \in Bucket : \E i \in 1..Len(buckets[b]) : WaitsIn(buckets[b][i], t)
    BY <1>4, InSomeQueue DEF FutexInv
  <2>2. PICK b \in Bucket : \E i \in 1..Len(buckets[b]) : WaitsIn(buckets[b][i], t)
    BY <2>1
  <2>3. PICK i \in 1..Len(buckets[b]) : WaitsIn(buckets[b][i], t)
    BY <2>2
  <2>4. QueueOK(buckets[b][i], b, waits)
    BY <1>2
  <2>5. waits[t] = buckets[b][i].phys
    BY <2>3, <2>4 DEF QueueOK, HoldsOK
  <2> QED BY <2>5
<1>5. \A t \in FutexThread : tstate[t] = "BLOCKED" <=> waits[t] # 0
  BY DEF FutexInv
<1>6. \A b \in Bucket : \A i \in 1..Len(buckets[b]) :
        LET wq == buckets[b][i] IN
        /\ wq.waiters # <<>>
        /\ \A j, k \in 1..Len(wq.waiters) : wq.waiters[j] = wq.waiters[k] => j = k
        /\ b = (wq.phys \div 4) % FUTEX_BUCKETS
        /\ \A t \in FutexThread : WaitsIn(wq, t) <=> waits[t] = wq.phys
  BY <1>2 DEF QueueOK, HoldsOK, futex_hash
<1> QED BY <1>3, <1>4, <1>5, <1>6 DEF QueuesExact

LEMMA InvWakeExact == FutexInv => WakeExact
<1> SUFFICES ASSUME FutexInv, NEW p \in Phys, NEW all \in BOOLEAN
             PROVE  LET on == {t \in FutexThread : waits[t] = p}
                        r  == futex_wake(buckets, p, all)
                    IN /\ r.woken \subseteq on
                       /\ on # {} => IF all THEN r.woken = on ELSE \E t \in on : r.woken = {t}
                       /\ \A t \in FutexThread :
                            (\E b \in Bucket : \E i \in 1..Len(r.B[b]) : WaitsIn(r.B[b][i], t))
                              <=> waits[t] # 0 /\ t \notin r.woken
  BY DEF WakeExact
<1>1. PICK on, r : /\ on = {t \in FutexThread : waits[t] = p}
                   /\ r = futex_wake(buckets, p, all)
  OBVIOUS
<1>2. PICK w2 : w2 = [u \in FutexThread |-> IF u \in r.woken THEN 0 ELSE waits[u]]
  OBVIOUS
<1>3. ChainsOK(buckets, waits)
  BY DEF FutexInv
<1>4. /\ ChainsOK(r.B, w2)
      /\ r.woken \subseteq on
      /\ all => r.woken = on
      /\ on # {} /\ ~all => \E t \in on : r.woken = {t}
  <2>1. WokenOK(futex_wake(buckets, p, all), waits, p, all)
    BY <1>3, WakeOK
  <2> QED BY <1>1, <1>2, <2>1 DEF WokenOK
<1>5. \A t \in FutexThread :
        (\E b \in Bucket : \E i \in 1..Len(r.B[b]) : WaitsIn(r.B[b][i], t)) <=> w2[t] # 0
  BY <1>4, InSomeQueue
<1>6. \A t \in FutexThread : w2[t] # 0 <=> waits[t] # 0 /\ t \notin r.woken
  BY <1>2
<1> QED BY <1>1, <1>4, <1>5, <1>6

(* A thread is blocked exactly when it is once in the one queue of its     *)
(* word, in the chain the hash leads to, and futex_wake wakes, of the      *)
(* waiters of its word, one or all of them and nobody else.                *)
THEOREM WaitqueuesExact == FutexSpec => []WaitqsExact
<1>1. FutexInv => WaitqsExact
  BY InvQueuesExact, InvWakeExact DEF WaitqsExact
<1> QED BY FutexInitOK, FutexStep, <1>1, PTL DEF FutexSpec

-----------------------------------------------------------------------------
(* The thread table. *)

Rec == [tid : Nat, pmap : Pmap, pager : Nat]

(* The table tab of c entries, when the threads are R, those destroyed D,  *)
(* and the tids below n have been given out.                               *)
TableOK(tab, c, n, R, D) ==
  /\ c \in Nat /\ n \in Nat
  /\ tab \in [0..(c - 1) -> Object \cup {None}]
  /\ DOMAIN R \subseteq Object /\ \A t \in DOMAIN R : R[t] \in Rec
  /\ D \subseteq DOMAIN R
  /\ \A t \in DOMAIN R : R[t].tid < n
  /\ \A t, u \in DOMAIN R : R[t].tid = R[u].tid => t = u
  /\ \A i \in 0..(c - 1) : tab[i] # None => tab[i] \in DOMAIN R \ D /\ R[tab[i]].tid = i
  /\ \A t \in DOMAIN R \ D : R[t].tid \in 0..(c - 1) /\ tab[R[t].tid] = t

(* The inductive invariant. *)
ThreadsInv ==
  /\ made = DOMAIN threads
  /\ pmaps \subseteq Pmap
  /\ TableOK(g_threads, g_threads_cap, g_next_tid, threads, destroyed)

LEMMA ThreadsInitOK == ThreadsInit => ThreadsInv
<1> SUFFICES ASSUME ThreadsInit PROVE ThreadsInv
  OBVIOUS
<1>1. PICK t, p : /\ t = CHOOSE o \in Object : TRUE
                  /\ p = CHOOSE q \in Pmap : TRUE
                  /\ g_threads_cap = InitialCap
                  /\ g_threads = [i \in Cap |-> IF i = 0 THEN t ELSE None]
                  /\ g_next_tid = 1
                  /\ threads = [o \in {t} |-> [tid |-> 0, pmap |-> p, pager |-> 0]]
                  /\ pmaps = {p}
                  /\ made = {t} /\ destroyed = {}
  BY DEF ThreadsInit
<1>2. t \in Object /\ p \in Pmap /\ t # None
  BY <1>1, ThreadsAssumption
<1>3. /\ InitialCap \in Nat /\ 0 \in 0..(InitialCap - 1) /\ 0 \in Nat /\ 1 \in Nat /\ 0 < 1
  BY ThreadsAssumption, SMTT(30)
<1>4. /\ DOMAIN threads = {t} /\ threads[t] = [tid |-> 0, pmap |-> p, pager |-> 0]
      /\ threads[t].tid = 0
  BY <1>1
<1>5. threads[t] \in Rec
  BY <1>1, <1>2, <1>3 DEF Rec
<1>6. /\ g_threads \in [0..(InitialCap - 1) -> Object \cup {None}]
      /\ g_threads[0] = t
      /\ \A i \in 0..(InitialCap - 1) : i # 0 => g_threads[i] = None
  BY <1>1, <1>2, <1>3 DEF Cap
<1>7. TableOK(g_threads, InitialCap, 1, threads, {})
  BY <1>2, <1>3, <1>4, <1>5, <1>6 DEF TableOK
<1> QED BY <1>1, <1>2, <1>4, <1>7 DEF ThreadsInv

(* A larger table with the same entries. *)
LEMMA GrownOK ==
  ASSUME NEW tab, NEW c, NEW n, NEW R, NEW D, TableOK(tab, c, n, R, D), NEW d \in Nat, c <= d
  PROVE  TableOK([i \in 0..(d - 1) |-> IF i \in 0..(c - 1) THEN tab[i] ELSE None], d, n, R, D)
<1> PICK tab2 : tab2 = [i \in 0..(d - 1) |-> IF i \in 0..(c - 1) THEN tab[i] ELSE None]
  OBVIOUS
<1>1. c \in Nat /\ n \in Nat
  BY DEF TableOK
<1>2. \A i \in 0..(c - 1) : i \in 0..(d - 1)
  BY <1>1, SMTT(30)
<1>3. /\ tab2 \in [0..(d - 1) -> Object \cup {None}]
      /\ \A i \in 0..(c - 1) : tab2[i] = tab[i]
      /\ \A i \in 0..(d - 1) : i \notin 0..(c - 1) => tab2[i] = None
  BY <1>2 DEF TableOK
<1>4. \A i \in 0..(d - 1) : tab2[i] # None =>
        tab2[i] \in DOMAIN R \ D /\ R[tab2[i]].tid = i
  BY <1>3 DEF TableOK
<1>5. \A t \in DOMAIN R \ D : R[t].tid \in 0..(d - 1) /\ tab2[R[t].tid] = t
  BY <1>2, <1>3 DEF TableOK
<1>6. TableOK(tab2, d, n, R, D)
  BY <1>1, <1>3, <1>4, <1>5 DEF TableOK
<1> QED BY <1>6

(* R2 has the threads of R and the thread t of tid n. *)
With(R2, R, t, n) ==
  /\ DOMAIN R2 = DOMAIN R \cup {t}
  /\ R2[t] \in Rec /\ R2[t].tid = n
  /\ \A o \in DOMAIN R : o # t => R2[o] = R[o]

(* The next tid is given to a new thread. *)
LEMMA EnteredOK ==
  ASSUME NEW tab, NEW c, NEW n, NEW R, NEW D, TableOK(tab, c, n, R, D), n < c,
         NEW t \in Object, t \notin DOMAIN R, NEW R2, With(R2, R, t, n)
  PROVE  TableOK([tab EXCEPT ![n] = t], c, n + 1, R2, D)
<1>1. PICK tab2 : tab2 = [tab EXCEPT ![n] = t]
  OBVIOUS
<1>2. c \in Nat /\ n \in Nat /\ n \in 0..(c - 1) /\ n + 1 \in Nat /\ n < n + 1
  BY SMTT(30) DEF TableOK
<1>3. /\ R2[t].tid = n /\ DOMAIN R2 = DOMAIN R \cup {t} /\ DOMAIN R2 \subseteq Object
      /\ \A o \in DOMAIN R : o # t /\ R2[o] = R[o] /\ R[o] \in Rec
      /\ (\A o \in DOMAIN R2 : R2[o] \in Rec) /\ D \subseteq DOMAIN R2 /\ t \notin D
  <2>1. /\ DOMAIN R \subseteq Object /\ D \subseteq DOMAIN R
        /\ \A o \in DOMAIN R : R[o] \in Rec
    BY DEF TableOK
  <2>2. \A o \in DOMAIN R2 : R2[o] \in Rec
    BY <2>1 DEF With
  <2> QED BY <2>1, <2>2 DEF With
<1>4. /\ tab2 \in [0..(c - 1) -> Object \cup {None}] /\ tab2[n] = t
      /\ \A i \in 0..(c - 1) : i # n => tab2[i] = tab[i]
  <2>1. tab \in [0..(c - 1) -> Object \cup {None}]
    BY DEF TableOK
  <2> QED BY <1>1, <1>2, <2>1
<1>5. \A o \in DOMAIN R : R[o].tid < n /\ R[o].tid \in Nat
  BY <1>3 DEF TableOK, Rec
<1>6. \A o \in DOMAIN R : R[o].tid < n + 1 /\ R[o].tid # n
  BY <1>2, <1>5, SMTT(30)
<1>7. \A o \in DOMAIN R2 : R2[o].tid < n + 1
  BY <1>2, <1>3, <1>6
<1>8. \A o, u \in DOMAIN R2 : R2[o].tid = R2[u].tid => o = u
  <2> SUFFICES ASSUME NEW o \in DOMAIN R2, NEW u \in DOMAIN R2, R2[o].tid = R2[u].tid
               PROVE  o = u
    OBVIOUS
  <2>1. CASE o = t /\ u # t
    <3>1. u \in DOMAIN R /\ R2[u] = R[u] /\ R2[o].tid = n
      BY <2>1, <1>3
    <3> QED BY <3>1, <1>6
  <2>2. CASE o # t /\ u = t
    <3>1. o \in DOMAIN R /\ R2[o] = R[o] /\ R2[u].tid = n
      BY <2>2, <1>3
    <3> QED BY <3>1, <1>6
  <2>3. CASE o # t /\ u # t
    <3>1. o \in DOMAIN R /\ u \in DOMAIN R /\ R2[o] = R[o] /\ R2[u] = R[u]
      BY <2>3, <1>3
    <3> QED BY <3>1 DEF TableOK
  <2> QED BY <2>1, <2>2, <2>3
<1>9. ASSUME NEW i \in 0..(c - 1), tab2[i] # None
      PROVE  tab2[i] \in DOMAIN R2 \ D /\ R2[tab2[i]].tid = i
  <2>1. CASE i = n
    BY <2>1, <1>3, <1>4
  <2>2. CASE i # n
    <3>1. tab[i] \in DOMAIN R \ D /\ R[tab[i]].tid = i /\ tab2[i] = tab[i]
      BY <2>2, <1>4, <1>9 DEF TableOK
    <3> QED BY <3>1, <1>3
  <2> QED BY <2>1, <2>2
<1>10. ASSUME NEW o \in DOMAIN R2 \ D
       PROVE  R2[o].tid \in 0..(c - 1) /\ tab2[R2[o].tid] = o
  <2>1. CASE o = t
    BY <2>1, <1>2, <1>3, <1>4
  <2>2. CASE o # t
    <3>1. o \in DOMAIN R \ D /\ R2[o] = R[o]
      BY <2>2, <1>3, <1>10
    <3>2. R[o].tid \in 0..(c - 1) /\ tab[R[o].tid] = o
      BY <3>1 DEF TableOK
    <3>3. R[o].tid # n
      BY <3>1, <1>6
    <3> QED BY <3>1, <3>2, <3>3, <1>4
  <2> QED BY <2>1, <2>2
<1>11. TableOK(tab2, c, n + 1, R2, D)
  BY <1>2, <1>3, <1>4, <1>7, <1>8, <1>9, <1>10 DEF TableOK
<1> QED BY <1>1, <1>11

(* A thread leaves the table. *)
LEMMA LeftOK ==
  ASSUME NEW tab, NEW c, NEW n, NEW R, NEW D, TableOK(tab, c, n, R, D), NEW t \in DOMAIN R \ D
  PROVE  TableOK([tab EXCEPT ![R[t].tid] = None], c, n, R, D \cup {t})
<1>1. PICK tab2, i, D2 : i = R[t].tid /\ tab2 = [tab EXCEPT ![i] = None] /\ D2 = D \cup {t}
  OBVIOUS
<1>2. i \in 0..(c - 1) /\ tab[i] = t
  BY <1>1 DEF TableOK
<1>3. /\ tab2 \in [0..(c - 1) -> Object \cup {None}] /\ tab2[i] = None
      /\ \A j \in 0..(c - 1) : j # i => tab2[j] = tab[j]
  <2>1. tab \in [0..(c - 1) -> Object \cup {None}]
    BY DEF TableOK
  <2> QED BY <1>1, <1>2, <2>1
<1>4. D2 \subseteq DOMAIN R
  BY <1>1 DEF TableOK
<1>5. ASSUME NEW j \in 0..(c - 1), tab2[j] # None
      PROVE  tab2[j] \in DOMAIN R \ D2 /\ R[tab2[j]].tid = j
  <2>1. j # i
    BY <1>3, <1>5
  <2>2. tab2[j] = tab[j] /\ tab[j] \in DOMAIN R \ D /\ R[tab[j]].tid = j
    BY <1>3, <1>5, <2>1 DEF TableOK
  <2>3. tab[j] # t
    BY <1>1, <2>1, <2>2
  <2>4. tab[j] \in DOMAIN R \ D2
    <3>1. tab[j] \in DOMAIN R /\ tab[j] \notin D
      BY <2>2
    <3>2. D2 = D \cup {t}
      BY <1>1
    <3> QED BY ONLY <2>3, <3>1, <3>2, Zenon
  <2> QED BY <2>2, <2>4
<1>6. ASSUME NEW u \in DOMAIN R \ D2 PROVE R[u].tid \in 0..(c - 1) /\ tab2[R[u].tid] = u
  <2>1. u \in DOMAIN R \ D /\ u # t
    BY <1>1, <1>6
  <2>2. R[u].tid \in 0..(c - 1) /\ tab[R[u].tid] = u
    BY <2>1 DEF TableOK
  <2>3. R[u].tid # i
    BY <1>2, <2>1, <2>2
  <2> QED BY <1>3, <2>2, <2>3
<1>7. TableOK(tab2, c, n, R, D2)
  BY <1>3, <1>4, <1>5, <1>6 DEF TableOK
<1> QED BY <1>1, <1>7

(* Another address space is bound to a thread, and nothing else changed. *)
LEMMA BoundOK ==
  ASSUME NEW tab, NEW c, NEW n, NEW R, NEW D, TableOK(tab, c, n, R, D), NEW R2,
         DOMAIN R2 = DOMAIN R,
         \A t \in DOMAIN R : R2[t] \in Rec /\ R2[t].tid = R[t].tid
  PROVE  TableOK(tab, c, n, R2, D)
BY DEF TableOK

LEMMA CreateStep ==
  ASSUME ThreadsInv, NEW cur, NEW pmap \in pmaps \cup {None}, NEW pager \in Nat,
         TC_CREATE(cur, pmap, pager)
  PROVE  ThreadsInv'
<1>1. PICK p \in (IF pmap = None THEN Pmap \ pmaps ELSE {pmap}) :
        LET own == IF pmap = None THEN {p} ELSE {} IN
        \/ /\ pmaps' = (pmaps \cup own) \ Undone(pmap, p)
           /\ UNCHANGED <<g_threads, g_threads_cap, g_next_tid, threads, made, destroyed>>
        \/ /\ g_next_tid' = g_next_tid + 1
           /\ pmaps' = (pmaps \cup own) \ Undone(pmap, p)
           /\ UNCHANGED <<g_threads, g_threads_cap, threads, made, destroyed>>
        \/ /\ g_next_tid' = g_next_tid + 1
           /\ \E t \in Unused :
                /\ thread_register(g_next_tid, t)
                /\ threads' = [o \in DOMAIN threads \cup {t} |->
                                 IF o = t THEN [tid |-> g_next_tid, pmap |-> p, pager |-> pager]
                                 ELSE threads[o]]
                /\ made' = made \cup {t}
           /\ pmaps' = pmaps \cup own
           /\ UNCHANGED destroyed
  BY DEF TC_CREATE
<1>2. /\ made = DOMAIN threads /\ pmaps \subseteq Pmap
      /\ TableOK(g_threads, g_threads_cap, g_next_tid, threads, destroyed)
  BY DEF ThreadsInv
<1>3. p \in Pmap
  BY <1>1, <1>2
<1>4. pmaps' \subseteq Pmap
  BY <1>1, <1>2, <1>3
<1>5. CASE UNCHANGED <<g_threads, g_threads_cap, g_next_tid, threads, made, destroyed>>
  BY <1>2, <1>4, <1>5 DEF ThreadsInv
<1>6. CASE /\ g_next_tid' = g_next_tid + 1
           /\ UNCHANGED <<g_threads, g_threads_cap, threads, made, destroyed>>
  <2>1. g_next_tid + 1 \in Nat /\ \A t \in DOMAIN threads : threads[t].tid < g_next_tid + 1
    <3>1. /\ g_next_tid \in Nat
          /\ \A t \in DOMAIN threads : threads[t].tid < g_next_tid /\ threads[t].tid \in Nat
      BY <1>2 DEF TableOK, Rec
    <3> QED BY <3>1, SMTT(30)
  <2>2. TableOK(g_threads, g_threads_cap, g_next_tid + 1, threads, destroyed)
    BY <1>2, <2>1 DEF TableOK
  <2> QED BY <1>2, <1>4, <1>6, <2>2 DEF ThreadsInv
<1>7. ASSUME NEW t \in Unused, thread_register(g_next_tid, t), g_next_tid' = g_next_tid + 1,
             threads' = [o \in DOMAIN threads \cup {t} |->
                           IF o = t THEN [tid |-> g_next_tid, pmap |-> p, pager |-> pager]
                           ELSE threads[o]],
             made' = made \cup {t}, destroyed' = destroyed
      PROVE  ThreadsInv'
  <2>1. PICK n : n = g_next_tid
    OBVIOUS
  <2>2. g_threads_cap \in Nat /\ n \in Nat
    BY <1>2, <2>1 DEF TableOK
  <2>4. t \in Object /\ t \notin DOMAIN threads
    BY DEF Unused
  <2>5. PICK cap \in (IF n < g_threads_cap THEN {g_threads_cap} ELSE NewCap(n)) :
          g_threads_cap' = cap /\ g_threads' = [Grown(cap) EXCEPT ![n] = t]
    BY <1>7, <2>1 DEF thread_register
  <2>6. cap \in Nat /\ n < cap /\ g_threads_cap <= cap
    <3>1. CASE n < g_threads_cap
      BY <3>1, <2>2, <2>5, SMTT(30)
    <3>2. CASE ~(n < g_threads_cap)
      <4>1. cap \in (n + 1)..(FirstCap + 2 * n) /\ FirstCap \in Nat
        BY <3>2, <2>2, <2>5, ThreadsAssumption, SMTT(30) DEF NewCap, Doubled, FirstCap
      <4> QED BY <3>2, <4>1, <2>2, SMTT(30)
    <3> QED BY <3>1, <3>2
  <2>7. TableOK(Grown(cap), cap, n, threads, destroyed)
    <3>1. Grown(cap) = [i \in 0..(cap - 1) |->
                          IF i \in 0..(g_threads_cap - 1) THEN g_threads[i] ELSE None]
      BY DEF Grown, Cap
    <3>2. TableOK([i \in 0..(cap - 1) |->
                     IF i \in 0..(g_threads_cap - 1) THEN g_threads[i] ELSE None],
                  cap, g_next_tid, threads, destroyed)
      BY <1>2, <2>6, GrownOK
    <3> QED BY <2>1, <3>1, <3>2
  <2>8. With(threads', threads, t, n)
    <3>1. /\ DOMAIN threads' = DOMAIN threads \cup {t}
          /\ threads'[t] = [tid |-> n, pmap |-> p, pager |-> pager]
          /\ \A o \in DOMAIN threads : o # t => threads'[o] = threads[o]
      BY <1>7, <2>1
    <3>2. PICK e : e = [tid |-> n, pmap |-> p, pager |-> pager]
      OBVIOUS
    <3>3. e \in Rec /\ e.tid = n
      BY <1>3, <2>2, <3>2 DEF Rec
    <3>4. threads'[t] = e
      BY <3>1, <3>2
    <3> QED BY <3>1, <3>3, <3>4 DEF With
  <2>9. TableOK([Grown(cap) EXCEPT ![n] = t], cap, n + 1, threads', destroyed)
    BY <2>4, <2>6, <2>7, <2>8, EnteredOK
  <2>10. TableOK(g_threads', g_threads_cap', g_next_tid', threads', destroyed')
    BY <1>7, <2>1, <2>5, <2>9
  <2>11. made' = DOMAIN threads'
    BY <1>2, <1>7
  <2> QED BY <1>4, <2>10, <2>11 DEF ThreadsInv
<1> QED BY <1>1, <1>5, <1>6, <1>7

LEMMA LookedUp ==
  ASSUME ThreadsInv, NEW tid, thread_lookup(tid) # None
  PROVE  thread_lookup(tid) \in DOMAIN threads \ destroyed
BY DEF thread_lookup, ThreadsInv, TableOK, Cap

LEMMA DestroyStep ==
  ASSUME ThreadsInv, NEW cur, NEW tid, TC_DESTROY(cur, tid)
  PROVE  ThreadsInv'
<1>1. PICK t : t = thread_lookup(tid)
  OBVIOUS
<1>2. t \in DOMAIN threads \ destroyed
  BY <1>1, LookedUp DEF TC_DESTROY
<1>3. TableOK(g_threads, g_threads_cap, g_next_tid, threads, destroyed)
  BY DEF ThreadsInv
<1>4. threads[t].tid \in Cap
  BY <1>2, <1>3 DEF TableOK, Cap
<1>5. /\ g_threads' = [g_threads EXCEPT ![threads[t].tid] = None]
      /\ destroyed' = destroyed \cup {t}
      /\ g_threads_cap' = g_threads_cap /\ g_next_tid' = g_next_tid /\ threads' = threads
      /\ pmaps' = pmaps /\ made' = made
  BY <1>1, <1>4 DEF TC_DESTROY
<1>6. TableOK([g_threads EXCEPT ![threads[t].tid] = None], g_threads_cap, g_next_tid, threads,
              destroyed \cup {t})
  BY <1>2, <1>3, LeftOK
<1> QED BY <1>5, <1>6 DEF ThreadsInv

LEMMA BindStep ==
  ASSUME ThreadsInv, NEW cur, NEW tid, NEW pmap \in pmaps, TC_BIND_SPACE(cur, tid, pmap)
  PROVE  ThreadsInv'
<1>1. PICK t : t = thread_lookup(tid)
  OBVIOUS
<1>2. t \in DOMAIN threads \ destroyed
  BY <1>1, LookedUp DEF TC_BIND_SPACE
<1>3. /\ TableOK(g_threads, g_threads_cap, g_next_tid, threads, destroyed)
      /\ made = DOMAIN threads /\ pmap \in Pmap
  BY DEF ThreadsInv
<1>4. /\ threads' = [threads EXCEPT ![t].pmap = pmap]
      /\ g_threads' = g_threads /\ destroyed' = destroyed
      /\ g_threads_cap' = g_threads_cap /\ g_next_tid' = g_next_tid
      /\ pmaps' = pmaps /\ made' = made
  BY <1>1 DEF TC_BIND_SPACE
<1>5. \A u \in DOMAIN threads : threads[u] \in Rec
  BY <1>3 DEF TableOK
<1>6. DOMAIN threads' = DOMAIN threads
  BY <1>4
<1>7. \A u \in DOMAIN threads : threads'[u] \in Rec /\ threads'[u].tid = threads[u].tid
  BY <1>2, <1>3, <1>4, <1>5, SMTT(30) DEF Rec
<1>8. TableOK(g_threads, g_threads_cap, g_next_tid, threads', destroyed)
  BY <1>3, <1>6, <1>7, BoundOK
<1> QED BY <1>3, <1>4, <1>6, <1>8 DEF ThreadsInv

LEMMA ThreadsStep == ThreadsInv /\ [ThreadsNext]_threadsVars => ThreadsInv'
<1> SUFFICES ASSUME ThreadsInv, [ThreadsNext]_threadsVars PROVE ThreadsInv'
  OBVIOUS
<1>1. CASE UNCHANGED threadsVars
  BY <1>1 DEF threadsVars, ThreadsInv
<1>2. CASE ThreadsNext
  <2>1. PICK cur \in made \ destroyed :
          \/ \E pmap \in pmaps \cup {None} : TC_CREATE(cur, pmap, threads[cur].tid)
          \/ \E tid \in 0..TIDS :
               \/ TC_DESTROY(cur, tid)
               \/ \E pmap \in pmaps : TC_BIND_SPACE(cur, tid, pmap)
    BY <1>2 DEF ThreadsNext
  <2>2. threads[cur].tid \in Nat
    BY DEF ThreadsInv, TableOK, Rec
  <2> QED BY <2>1, <2>2, CreateStep, DestroyStep, BindStep
<1> QED BY <1>1, <1>2

(* thread_lookup finds exactly the threads that were made and not          *)
(* destroyed, under the tid of each, whatever has failed and however often *)
(* the table has grown; no tid is given out twice.                         *)
THEOREM LookupsExact == ThreadsSpec => []LookupExact
<1>1. ThreadsInv => LookupExact
  <2> SUFFICES ASSUME ThreadsInv PROVE LookupExact
    OBVIOUS
  <2>1. /\ TableOK(g_threads, g_threads_cap, g_next_tid, threads, destroyed)
        /\ made = DOMAIN threads
    BY DEF ThreadsInv
  <2>2. ASSUME NEW tid, thread_lookup(tid) # None
        PROVE  thread_lookup(tid) \in made \ destroyed /\ threads[thread_lookup(tid)].tid = tid
    BY <2>1, <2>2 DEF thread_lookup, TableOK, Cap
  <2>3. \A t \in made \ destroyed : thread_lookup(threads[t].tid) = t
    BY <2>1 DEF thread_lookup, TableOK, Cap
  <2>4. \A t, u \in made : threads[t].tid = threads[u].tid => t = u
    BY <2>1 DEF TableOK
  <2> QED BY <2>2, <2>3, <2>4 DEF LookupExact
<1> QED BY ThreadsInitOK, ThreadsStep, <1>1, PTL DEF ThreadsSpec

(* A TC_CREATE that fails, at whichever allocation, leaves no address      *)
(* space behind and destroys none that was there.                          *)
THEOREM FailedCreateUndone == ThreadsSpec => NothingLeft
<1>1. ASSUME [ThreadsNext]_threadsVars PROVE [PmapsKept]_threadsVars
  <2>1. ASSUME NEW cur, NEW pmap, NEW pager, TC_CREATE(cur, pmap, pager) PROVE PmapsKept
    <3>1. PICK p \in (IF pmap = None THEN Pmap \ pmaps ELSE {pmap}) :
            LET own == IF pmap = None THEN {p} ELSE {} IN
            \/ pmaps' = (pmaps \cup own) \ own
            \/ /\ \E t \in Unused :
                    threads' = [o \in DOMAIN threads \cup {t} |->
                                  IF o = t THEN [tid |-> g_next_tid, pmap |-> p, pager |-> pager]
                                  ELSE threads[o]]
               /\ pmaps' = pmaps \cup own
      BY <2>1 DEF TC_CREATE, Undone
    <3>1a. pmaps \subseteq pmaps'
      BY <3>1
    <3> SUFFICES ASSUME NEW q \in pmaps' \ pmaps
                 PROVE  \E t \in DOMAIN threads' : threads'[t].pmap = q
      BY <3>1a DEF PmapsKept
    <3>2. PICK own : /\ own = IF pmap = None THEN {p} ELSE {}
                     /\ \/ pmaps' = (pmaps \cup own) \ own
                        \/ /\ \E t \in Unused :
                                threads' = [o \in DOMAIN threads \cup {t} |->
                                  IF o = t THEN [tid |-> g_next_tid, pmap |-> p, pager |-> pager]
                                  ELSE threads[o]]
                           /\ pmaps' = pmaps \cup own
      BY <3>1
    <3>3. ~(pmaps' = (pmaps \cup own) \ own)
      OBVIOUS
    <3>4. pmaps' = pmaps \cup own
      BY <3>2, <3>3
    <3>5. q \in own
      BY <3>4
    <3>6. q = p
      BY <3>2, <3>5
    <3>7. PICK t : threads' = [o \in DOMAIN threads \cup {t} |->
                     IF o = t THEN [tid |-> g_next_tid, pmap |-> p, pager |-> pager]
                     ELSE threads[o]]
      BY <3>2, <3>3
    <3>8. t \in DOMAIN threads' /\ threads'[t].pmap = p
      BY <3>7
    <3> QED BY <3>6, <3>8
  <2>2. ASSUME pmaps' = pmaps PROVE PmapsKept
    BY <2>2 DEF PmapsKept
  <2>3. CASE ThreadsNext
    BY <2>1, <2>2, <2>3 DEF ThreadsNext, TC_DESTROY, TC_BIND_SPACE
  <2> QED BY <1>1, <2>3
<1> QED BY <1>1, PTL DEF ThreadsSpec, NothingLeft
=============================================================================
