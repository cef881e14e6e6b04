------------------------------ MODULE Threads -------------------------------
(***************************************************************************)
(* Threads as objects: the table of kernel/task/thread.c, their creation   *)
(* in kernel/arch/x86_64/thread.c, and TC_CREATE, TC_DESTROY and           *)
(* TC_BIND_SPACE of kernel/task/syscall.c.                                 *)
(*                                                                         *)
(* Every allocation may fail but that of the extended state area, whose    *)
(* result thread_create_child does not look at.  A tid is 32 bits, as      *)
(* long as the table of a kernel that has made TIDS threads.               *)
(***************************************************************************)
EXTENDS Integers

CONSTANTS
  Object,      \* memory for thread structures
  Pmap,        \* memory for address spaces
  InitialCap,  \* 16
  TIDS         \* bound on the threads made, below 2^32

None == 0   \* NULL

ASSUME ThreadsAssumption ==
  /\ Object # {} /\ Pmap # {} /\ None \notin Object
  /\ InitialCap \in Nat \ {0}
  /\ TIDS \in Nat

VARIABLES
  g_threads,      \* the table: [0 .. g_threads_cap - 1 -> object or None]
  g_threads_cap,
  g_next_tid,
  threads,        \* what the objects in use hold: [tid, pmap, pager]
  pmaps,          \* the address spaces that exist
  made,           \* the threads handed to their creators; not in the code
  destroyed       \* the threads taken out of the table; not in the code

threadsVars == <<g_threads, g_threads_cap, g_next_tid, threads, pmaps, made, destroyed>>

Cap == 0..(g_threads_cap - 1)

thread_lookup(tid) == IF tid \in Cap THEN g_threads[tid] ELSE None

(* the first of cap, 2 * cap, 4 * cap, ... that has room for need *)
Doubled(cap, need) ==
  {c \in (need + 1)..(cap + 2 * need) :
     (\E k \in 0..need : c = cap * 2^k) /\ (c = cap \/ c \div 2 <= need)}

FirstCap == IF g_threads_cap > 0 THEN 2 * g_threads_cap ELSE InitialCap

(* Mutant of NewCap: the loop ends one too early. *)
NewCapShort(need) == Doubled(FirstCap, need - 1)

NewCap(need) == Doubled(FirstCap, need)

(* krealloc keeps what was there, the rest is cleared. *)
Grown(cap) == [i \in 0..(cap - 1) |-> IF i \in Cap THEN g_threads[i] ELSE None]

(* the table with room for a tid, grown if need be *)
thread_register(tid, t) ==
  \E cap \in IF tid < g_threads_cap THEN {g_threads_cap} ELSE NewCap(tid) :
    /\ g_threads_cap' = cap
    /\ g_threads' = [Grown(cap) EXCEPT ![tid] = t]

Unused == Object \ DOMAIN threads

(* Mutant of Undone: an address space that was given goes as well. *)
UndoneAny(given, p) == {p}

(* what pmap_destroy takes when the thread cannot be made *)
Undone(given, p) == IF given = None THEN {p} ELSE {}

(* pmap is the address space asked for, or None for a new one. *)
TC_CREATE(cur, pmap, pager) ==
  \E p \in (IF pmap = None THEN Pmap \ pmaps ELSE {pmap}) :
    LET own == IF pmap = None THEN {p} ELSE {} IN
    \/ \* kmalloc_aligned fails
       /\ pmaps' = (pmaps \cup own) \ Undone(pmap, p)
       /\ UNCHANGED <<g_threads, g_threads_cap, g_next_tid, threads, made, destroyed>>
    \/ \* thread_register fails: the table has to grow and cannot
       /\ g_next_tid < TIDS
       /\ g_next_tid >= g_threads_cap
       /\ g_next_tid' = g_next_tid + 1
       /\ pmaps' = (pmaps \cup own) \ Undone(pmap, p)
       /\ UNCHANGED <<g_threads, g_threads_cap, threads, made, destroyed>>
    \/ /\ g_next_tid < TIDS
       /\ g_next_tid' = g_next_tid + 1
       /\ \E t \in Unused :
            /\ thread_register(g_next_tid, t)
            /\ threads' = [o \in DOMAIN threads \cup {t} |->
                             IF o = t THEN [tid |-> g_next_tid, pmap |-> p, pager |-> pager]
                             ELSE threads[o]]
            /\ made' = made \cup {t}
       /\ pmaps' = pmaps \cup own
       /\ UNCHANGED destroyed

(* A thread that may run is not destroyed: see Sched's DestroyRunnable.    *)
(* The object is not freed.                                                *)
TC_DESTROY(cur, tid) ==
  LET target == thread_lookup(tid) IN
  /\ target # None
  /\ threads[target].pager = threads[cur].tid
  /\ target # cur
  /\ g_threads' = IF threads[target].tid \in Cap
                  THEN [g_threads EXCEPT ![threads[target].tid] = None] ELSE g_threads
  /\ destroyed' = destroyed \cup {target}
  /\ UNCHANGED <<g_threads_cap, g_next_tid, threads, pmaps, made>>

TC_BIND_SPACE(cur, tid, pmap) ==
  LET target == thread_lookup(tid) IN
  /\ target # None
  /\ threads[target].pager = threads[cur].tid
  /\ threads' = [threads EXCEPT ![target].pmap = pmap]
  /\ UNCHANGED <<g_threads, g_threads_cap, g_next_tid, pmaps, made, destroyed>>

(* rootserver_boot has made the root server; its pager_tid is 0, which is  *)
(* its own tid.  A failure before that halts the kernel.                   *)
ThreadsInit ==
  \E t \in {CHOOSE o \in Object : TRUE}, p \in {CHOOSE q \in Pmap : TRUE} :
    /\ g_threads_cap = InitialCap
    /\ g_threads = [i \in Cap |-> IF i = 0 THEN t ELSE None]
    /\ g_next_tid = 1
    /\ threads = [o \in {t} |-> [tid |-> 0, pmap |-> p, pager |-> 0]]
    /\ pmaps = {p}
    /\ made = {t} /\ destroyed = {}

ThreadsNext ==
  \E cur \in made \ destroyed :
    \/ \E pmap \in pmaps \cup {None} : TC_CREATE(cur, pmap, threads[cur].tid)
    \/ \E tid \in 0..TIDS :
         \/ TC_DESTROY(cur, tid)
         \/ \E pmap \in pmaps : TC_BIND_SPACE(cur, tid, pmap)

ThreadsSpec == ThreadsInit /\ [][ThreadsNext]_threadsVars

-----------------------------------------------------------------------------
(* Properties. *)

(* thread_lookup finds exactly the threads that were made and not          *)
(* destroyed, each under its own tid, however often the table has grown,   *)
(* failed to grow, or a creation has failed behind the allocation of its   *)
(* tid; a tid is never given to a second thread.                           *)
LookupExact ==
  /\ \A tid \in 0..(2 * TIDS) :
       LET t == thread_lookup(tid) IN
       t # None => t \in made \ destroyed /\ threads[t].tid = tid
  /\ \A t \in made \ destroyed : thread_lookup(threads[t].tid) = t
  /\ \A t, u \in made : threads[t].tid = threads[u].tid => t = u

(* A creation that fails leaves no address space behind, a new one belongs *)
(* to the thread it was made for, and takes none away, so that a failure   *)
(* does not destroy the one it was given and that other threads run in.    *)
PmapsKept ==
  /\ \A p \in pmaps' \ pmaps : \E t \in DOMAIN threads' : threads'[t].pmap = p
  /\ pmaps \subseteq pmaps'
NothingLeft == [][PmapsKept]_threadsVars
=============================================================================
