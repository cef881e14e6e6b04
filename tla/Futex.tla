------------------------------- MODULE Futex --------------------------------
(***************************************************************************)
(* Futexes: kernel/task/futex.c.  A futex word is known by its physical    *)
(* address, so that threads of different address spaces meet; the wait     *)
(* queues hang in a table of FUTEX_BUCKETS hash chains, exist while they   *)
(* have a waiter, and are allocated and freed as waiters come and go.      *)
(*                                                                         *)
(* One processor: a system call runs with interrupts off until it blocks   *)
(* or returns, so the test of the word and the wait are one step.  Which   *)
(* READY thread is dispatched is Sched's business.                         *)
(***************************************************************************)
EXTENDS Integers, Sequences

CONSTANTS
  FutexThread, Root,   \* the threads; Root never waits
  UserAddr,            \* the user addresses used as futexes
  Extract,             \* pmap_extract: [FutexThread -> [UserAddr -> address or 0]]
  FUTEX_BUCKETS

ASSUME FutexAssumption ==
  /\ Root \in FutexThread
  /\ Extract \in [FutexThread -> [UserAddr -> Nat]]
  /\ FUTEX_BUCKETS \in Nat \ {0}

VARIABLES
  tstate,    \* READY, RUNNING or BLOCKED
  value,     \* the words, by physical address
  buckets,   \* the chains of [phys, waiters]
  waits      \* the word each thread waits on, 0 for none; not in the code

futexVars == <<tstate, value, buckets, waits>>

Phys == {Extract[t][a] : t \in FutexThread, a \in UserAddr} \ {0}

Bucket == 0..(FUTEX_BUCKETS - 1)

futex_hash(phys) == (phys \div 4) % FUTEX_BUCKETS

SameWord(wq, phys) == wq.phys = phys

(* the position in its chain of the first queue of a word, 0 for none *)
futex_find(B, phys) ==
  LET chain == B[futex_hash(phys)]
      found == {i \in 1..Len(chain) : SameWord(chain[i], phys)}
  IN IF found = {} THEN 0 ELSE CHOOSE i \in found : \A j \in found : i <= j

FutexInit ==
  /\ tstate = [t \in FutexThread |-> IF t = Root THEN "RUNNING" ELSE "READY"]
  /\ value = [p \in Phys |-> 0]
  /\ buckets = [b \in Bucket |-> <<>>]
  /\ waits = [t \in FutexThread |-> 0]

(* EINVAL for a misaligned address, EFAULT for one that is not mapped *)
Usable(t, a) == a % 4 = 0 /\ Extract[t][a] # 0

(* Mutant of AddWaiter: list_add for list_add_tail. *)
AddWaiterFirst(wq, t) == [phys |-> wq.phys, waiters |-> <<t>> \o wq.waiters]

AddWaiter(wq, t) == [phys |-> wq.phys, waiters |-> Append(wq.waiters, t)]

(* the chain once t waits in its i-th queue, or, if i is 0, in a new one *)
Joined(chain, i, phys, t) ==
  IF i # 0 THEN [chain EXCEPT ![i] = AddWaiter(chain[i], t)]
  ELSE Append(chain, AddWaiter([phys |-> phys, waiters |-> <<>>], t))

(* The word still has the expected value and there is memory for a queue,  *)
(* otherwise EAGAIN.                                                       *)
futex_wait(t, a, expected) ==
  LET phys == Extract[t][a]
      b    == futex_hash(phys)
      i    == futex_find(buckets, phys)
  IN
  /\ tstate[t] = "RUNNING" /\ t # Root
  /\ Usable(t, a)
  /\ value[phys] = expected
  /\ buckets' = [buckets EXCEPT ![b] = Joined(buckets[b], i, phys, t)]
  /\ waits' = [waits EXCEPT ![t] = phys]
  /\ \E u \in FutexThread :    \* sched_block
       /\ tstate[u] = "READY"
       /\ tstate' = [tstate EXCEPT ![t] = "BLOCKED", ![u] = "RUNNING"]
  /\ UNCHANGED value

(* Mutant of Emptied: the queue of a word is never freed. *)
EmptiedNever(wq) == FALSE

Emptied(wq) == wq.waiters = <<>>

(* the chain without its i-th queue *)
Unlinked(chain, i) == SubSeq(chain, 1, i - 1) \o SubSeq(chain, i + 1, Len(chain))

(* the chains and the threads woken *)
futex_wake(B, phys, all) ==
  LET b == futex_hash(phys)
      i == futex_find(B, phys)
      w == B[b][i].waiters
      n == IF all THEN Len(w) ELSE 1
      left == [phys |-> phys, waiters |-> SubSeq(w, n + 1, Len(w))]
  IN IF i = 0 THEN [B |-> B, woken |-> {}]
     ELSE [B |-> [B EXCEPT ![b] = IF Emptied(left) THEN Unlinked(B[b], i)
                                 ELSE [B[b] EXCEPT ![i] = left]],
           woken |-> {w[k] : k \in 1..n}]

Wake(t, a, all) ==
  LET r == futex_wake(buckets, Extract[t][a], all) IN
  /\ tstate[t] = "RUNNING"
  /\ Usable(t, a)
  /\ buckets' = r.B
  /\ tstate' = [u \in FutexThread |-> IF u \in r.woken THEN "READY" ELSE tstate[u]]
  /\ waits' = [u \in FutexThread |-> IF u \in r.woken THEN 0 ELSE waits[u]]
  /\ UNCHANGED value

(* a store of the running thread to a word it has mapped *)
Store(t, a, v) ==
  /\ tstate[t] = "RUNNING"
  /\ Usable(t, a)
  /\ value' = [value EXCEPT ![Extract[t][a]] = v]
  /\ UNCHANGED <<tstate, buckets, waits>>

Preempt(t, u) ==
  /\ tstate[t] = "RUNNING" /\ tstate[u] = "READY"
  /\ tstate' = [tstate EXCEPT ![t] = "READY", ![u] = "RUNNING"]
  /\ UNCHANGED <<value, buckets, waits>>

FutexNext ==
  \E t \in FutexThread :
    \/ \E a \in UserAddr :
         \/ \E v \in 0..1 : futex_wait(t, a, v) \/ Store(t, a, v)
         \/ \E all \in BOOLEAN : Wake(t, a, all)
    \/ \E u \in FutexThread : Preempt(t, u)

FutexSpec == FutexInit /\ [][FutexNext]_futexVars

-----------------------------------------------------------------------------
(* Properties. *)

WaitsIn(wq, t) == \E k \in 1..Len(wq.waiters) : wq.waiters[k] = t

(* There is one queue for every word that somebody waits on, in the chain  *)
(* the hash of the word leads to, and none without waiters; a thread is    *)
(* blocked exactly when it is in the queue of its word, and in it once.    *)
QueuesExact ==
  /\ \A b \in Bucket : \A i \in 1..Len(buckets[b]) :
       LET wq == buckets[b][i] IN
       /\ wq.waiters # <<>>
       /\ \A j, k \in 1..Len(wq.waiters) : wq.waiters[j] = wq.waiters[k] => j = k
       /\ b = (wq.phys \div 4) % FUTEX_BUCKETS
       /\ \A t \in FutexThread : WaitsIn(wq, t) <=> waits[t] = wq.phys
  /\ \A b, c \in Bucket : \A i \in 1..Len(buckets[b]), j \in 1..Len(buckets[c]) :
       buckets[b][i].phys = buckets[c][j].phys => b = c /\ i = j
  /\ \A t \in FutexThread :
       /\ tstate[t] = "BLOCKED" <=> waits[t] # 0
       /\ waits[t] # 0 => \E b \in Bucket : \E i \in 1..Len(buckets[b]) :
                            buckets[b][i].phys = waits[t]

(* futex_wake wakes a waiter of the word if there is one, all of them when *)
(* asked to, never one of another word, even one in the same chain; the    *)
(* others go on waiting where they did.                                    *)
WakeExact ==
  \A phys \in Phys, all \in BOOLEAN :
    LET on == {t \in FutexThread : waits[t] = phys}
        r  == futex_wake(buckets, phys, all)
    IN /\ r.woken \subseteq on
       /\ on # {} => IF all THEN r.woken = on ELSE \E t \in on : r.woken = {t}
       /\ \A t \in FutexThread :
            (\E b \in Bucket : \E i \in 1..Len(r.B[b]) : WaitsIn(r.B[b][i], t))
              <=> waits[t] # 0 /\ t \notin r.woken

(* Both: the queues are exact, and so is what futex_wake does with them. *)
WaitqsExact == QueuesExact /\ WakeExact

(* A waiter is not overtaken for ever: while wake-ups of one thread at a   *)
(* time go on coming for its word, it is woken, whoever else keeps coming  *)
(* back to wait on the same word.                                          *)
WakeOf(t) == \E u \in FutexThread, a \in UserAddr :
               Extract[u][a] = waits[t] /\ Wake(u, a, FALSE)
WaiterWoken ==
  \A t \in FutexThread :
    []<>(tstate[t] # "BLOCKED") \/ ~[]<><<tstate[t] = "BLOCKED" /\ WakeOf(t)>>_futexVars
=============================================================================
