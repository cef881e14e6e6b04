# A verification of koharu

koharu is a small microkernel for x86-64 written in C, with a root server that
pages and starts the other programs. This directory holds TLA+ models of its
parts, the TLC instances that check them, and TLAPS proofs about them. Paths
below are relative to `src/`.

## The system

**Execution.** Only the boot processor runs; `kernel/mm/kmem.c` notes that the
others are not started yet. `SFMASK` masks interrupts during a system call
(`kernel/arch/x86_64/cpu.c:231`), so a system call is one uninterrupted step up
to the point where it calls `switch_to`, and timer ticks only interrupt user
code. There is no idle thread: when nobody is runnable the kernel halts for ever
with interrupts off. Spin locks and the pending-free lists of the heaps are
written for several processors and are modelled for several.

| Part | Source | Module |
|---|---|---|
| IPC | `kernel/task/ipc.c`, `sys_ipc` | `Ipc` |
| Scheduler | `kernel/task/sched.c`, its system calls | `Sched`, `SchedHeld`, `SchedWait` |
| Thread states, as a contract | `include/koharu/thread.h` | `Dispatch` |
| Thread table and life cycle | `kernel/task/thread.c`, `kernel/arch/x86_64/thread.c` | `Threads` |
| Futexes | `kernel/task/futex.c` | `Futex` |
| Grants, SYS_MAP, SYS_GRANT, SYS_UNMAP | `kernel/task/grant.c`, `syscall.c` | `Grant` |
| Spin locks | `kernel/misc/lock.c` | `SpinLock`, `FifoLock` |
| Physical frames | `kernel/mm/pmm.c` | `Pmm`, `PageAlloc` |
| Page tables | `kernel/arch/x86_64/pmap.c`, `kernel/mm/vmm.c` | `Pmap` |
| Heap | `kernel/lib/tlsf.c`, `kernel/mm/kmem.c` | `Tlsf`, `Heap`, `Kmem` |
| Lists, strings | `include/koharu/list.h`, `kernel/lib/string.c` | `List`, `Strings` |
| Root server: ranges | `user/vma.c`, `user/include/tree.h` | `RbTree`, `RbSet`, `Vma` |
| Root server: loading and paging | `user/main.c`, `pager.c`, `cpio.c`, `elf.c`, `kernel/task/init.c` | `Image`, `Pager` |

The parts meet in the thread state: IPC and futexes block and wake threads
through the scheduler, thread control and exchange-registers move threads in and
out of it, and the map and grant calls tie threads, grants, page tables and
frames together. `PROJECT.json` lists what is hard to test, at its lines.

## Modules

**`Dispatch`** is an abstract contract of thread states: one thread runs, only
READY threads are picked, a step may make CREATED or BLOCKED threads READY, and
the kernel halts only when nobody is READY. `Ipc` and `Sched` implement it
(`ImplementsDispatch`), so each may be read without the other.

**`Ipc`**: `threads` is the array of `struct thread` with the IPC fields;
`ipc_deliver_msg`, `ipc_deliver_reply`, `ipc_accept` are operators from one
array to the next; `ipc_send`, `ipc_recv`, `ipc_call`, `ipc_reply_recv` are
actions up to `sched_block`, and `IpcReturn` is what follows it. `kstack` holds
the locals that survive the block. Endpoint locks are never contended on one
processor and are left out. Messages carry their origin instead of words.
Linking a node that is already linked would corrupt the pointers, so it sets
`broken`, after which the model takes no step. Which READY thread runs next is
left open. `SendTargets`, `CallTargets`, `Receivers`, `Repliers` and
`Destroyable` say who uses which operation on whom.

**`Sched`**: `TickStay` and `TickExpire` are the two paths of `sched_tick`, boost
included. `sched_ticks` is kept modulo the boost period, its only use.
`SysSchedule` stores any level and quantum of 32 bits, as the code does; a
behaviour ends where a level above 3 would index past the queues. Which event
blocks or wakes a thread is left open. `SchedHeld` adds a clock of the ticks the
current thread has kept the processor, `SchedWait` one of the ticks a thread has
been READY. Both assume that the first quantum is one tick, as it is in
`sched.c`: every boost gives the current thread its first quantum again, so with
one longer than the boost period a wait outlasts the bound. `SchedHeld` assumes
also a boost period of more than one tick, `SchedWait` that SYS_SCHEDULE is not
used.

**`Threads`** has the growing table, tids, `TC_CREATE` with each allocation
failing or not, `TC_DESTROY` and `TC_BIND_SPACE`. The doubling loop of
`thread_reg_grow` is stated by its result: the first of the doublings that has
room for the tid.

**`Futex`** has the hash chains and their wait queues, allocated with the first
waiter and freed with the last; `Extract` maps user addresses to physical words,
so that two address spaces can meet at one word.

**`Grant`** has the grant lists, `g_refs` and `g_maps` (16 bits) and the page table
entries of the address spaces. `SYS_MAP` takes what the code takes: addresses
inside of a page, PROT_HUGE, ranges that wrap, pages of the kernel half, which
all address spaces share. Its first loop (`Checked`) looks frames up, and the one
of `pmap_map` (`MapFrom`, `MapTo`), which rounds differently, maps them, and may
run out of page tables after any page. Only for a call from the start of a page,
without PROT_HUGE and up to an address that does not wrap are the two sets of
frames the same; `CheckedInFull` names these calls, and an entry remembers in
`checked` that it comes from one. `map_page` of the pager, the one caller in the
tree, makes no others. The pool and the framebuffer are constants.

**`SpinLock`** models `lock.c` one memory access at a time, for any set of
processors and `W` tickets (2^32 in the code); `now_serving++` is a load and a
store. `NoLap` states that fewer than `W` tickets are drawn during one
`spin_trylock`. `FifoLock` is the abstract lock it implements.

**`Pmm`** has `pmm_init` over a memory map and the buddy lists; `PageAlloc` is
what it promises: aligned blocks that are nobody else's. `AnyFree` says whether
blocks may be freed in any order, or only where no free buddy of a smaller order
is taken for a whole one (`FreedWhole`, see the findings).

**`Pmap`** has tables of `N` entries (512 in the hardware), huge pages, the
frames taken for tables, and what the TLB *may* hold: an entry from when it is
in the active tables until it is flushed. `vmm_init` builds the first state.

**`Tlsf`** models the heap header by header, with the user's data where headers
overlap it; every function of the source is an operator on a heap. `Heap` is
what it promises. **`Kmem`** puts one abstract heap on each processor and
interleaves allocation, remote frees and the flush of the pending list at their
atomic operations.

**`List`** is `list.h` at the level of `next` and `prev`, with the sequences the
other modules use in its place. **`Strings`** is a memory of a few bytes and
the functions of `string.c` on it. **`RbTree`** is the tree of `tree.h` with
its parents, children and rank bits; `RbSet` drives it over a set of keys, and
**`Vma`** uses it for address ranges in a fixed pool.

**`Image`** has the pure parts of program loading: the walk over the archive,
the header checks, the merging of headers, and which bytes of which page come
from the file. **`Pager`** is the root server as a process: load the child,
page by page, start it, and serve its requests; every system call may fail.

Operators whose comment says *Mutant* are deliberate defects used to see that
each property of a run can fail; no specification uses them. Where such a
property is a conjunction, its mutant breaks one of the conjuncts.

## Runs

`memory`, `lib` and `tasks` check several components that share no state. Each
behaviour is one of a single part, chosen in the first state (`part`), so the
state graph is the disjoint union of those of the parts; a property of a part
is asked of its own behaviours. `Futex`, `Grant`, `Threads`, `Kmem` and `List`,
which have proofs, are extended rather than instantiated, so that run and proof
are about the same definitions; their variables keep their first values in the
behaviours of other parts. `lib` uses the symmetry of processors and blocks of
`Kmem`. The property of a run is the conjunction of the
properties of the same idea that the module of the part states one by one.

| Run | Instance | Shows |
|---|---|---|
| `ipc_server` | root server, a replying and a receiving server, two clients with two calls each, and a pager that destroys blocked clients | queues intact, nobody forgotten, every call gets its own reply, reply context kept, `Dispatch` implemented |
| `ipc_live` | one server, two clients | every call returns |
| `ipc_nested` | a server that calls another server | *violated*, see findings |
| `ipc_stale` | a client that is also sent plain messages by a server it calls | *violated*, see findings |
| `sched` | three threads, SYS_SCHEDULE with levels 3 and 4 and quantum 0, numbers that wrap at 5 | READY is the same as queued once; `Dispatch` implemented; a wrapped quantum ends with the boost |
| `sched_wait` | three threads, boost every 5 ticks, no SYS_SCHEDULE | levels and quanta consistent, wait bounded, no starvation |
| `spinlock` | three processors, five tickets, all using trylock | exclusion, FIFO order, inductive invariant, every waiter gets the lock |
| `memory` | three memory maps of 16 frames; tables of two entries, one address space with ranges of two pages and huge pages, or two address spaces | every frame in one block, `PageAlloc` implemented; table frames accounted for, kernel half shared, TLB fresh, maps and unmaps exact |
| `pmm_merge` | the same frames, freed in any order | *violated*, see findings |
| `pmap_over_huge` | the same tables, a page mapped inside of a huge page | *violated*, see findings |
| `lib` | two pools of up to 36 bytes; three heaps and three blocks; ten keys; four nodes on two lists; five bytes of three values | heap consistent and implementing `Heap`, blocks in one place, tree balanced and exact, rings are sequences, string functions exact |
| `tasks` | three waiters on two words; two address spaces, four frames and four pages, words that wrap at 16; a table growing from one entry; five ranges; four archives and a pool of eight frames | wait queues, wake-ups, grants, thread table, ranges, loaded images and served buffers exact |

*Bounds.* Two calls per client are enough for a reply of one call to meet the
next. Three threads give a runner, a queued thread and a thread that restarts
others; the quanta and periods put boosts before, in and after an expiry. With
five tickets the counters wrap several times. Three buddy orders are the
fewest with a merge of a merge, the memory maps begin and end inside of blocks.
Two entries per table reach full, empty and replaced tables at each level. The
pools of the heap have several size classes, the linear ones of small blocks and
those by powers of two, splits, both merges, alignment gaps and
a pool that is not a whole number of words; integers wrap at `SIZE_T`. Ten keys
reach every case of rebalancing. Pages of two bytes let segments begin and end
inside of a page and meet in one. `TIDS` and `MaxHandOuts` cap
counters; the hand-outs suffice for the pool to run around once, for the ranges to
be used up and for the heap to grow over the shared page and into the stack.
The addresses of `Grant` are the start and the middle of a page, a frame of the
pool and one from which two bytes reach the end of the address space.

*Deadlock* is not checked where the system really stops: the `Sched` runs and
the IPC violations (the kernel halts when the last thread blocks) and `tasks`
(the root server stops when its child exits). The other IPC runs keep the check
on and so show that their topologies never halt.

*Fairness.* `ipc_live` assumes that a READY thread is dispatched again and again
(what `sched_wait` shows of `Sched`), that a dispatched thread returns from the
kernel, and that a server that runs comes back to `ipc_reply_recv`. `sched_wait`
assumes only the periodic timer, which user code cannot mask. `spinlock` assumes
that a processor inside lock code or a critical section keeps executing; drawing
tickets is not assumed. `WaiterWoken` carries its fairness in its premise: it is
about waiters whose word is woken again and again.

## Findings

* **Nested calls** (`ipc_nested`). `ipc.c:27-29` promises that a server can make
  nested calls without losing its reply context. During a nested call the
  server's endpoint is WAIT_RECV, so another client's call is delivered into its
  reply slot and overwrites `ipc_prev_seq`.
* **Stale replies** (`ipc_stale`). `ipc.c:23-26` promises that a stale reply is
  never delivered to a newer call. `ipc_accept` reads the number of the sender's
  *current* call, so a request left queued by an older call is accepted as the
  newer one, and its reply ends the newer call.
* **Buddies of another order** (`pmm_merge`). `pmm_free_pages` takes a buddy for
  free when its first frame is, whatever the order of the free block there. A
  block is then coalesced with frames that are in use, and the next allocation
  hands them out again. `memory` checks the allocator where this does not happen.
* **A page inside of a huge page** (`pmap_over_huge`). `pmap_map_page` takes any
  present directory entry for a page table. For one that maps a huge page, the
  new entry is written into the mapped memory; `acpi_init` maps such a page at
  every boot.

The first two need uses of IPC that the programs in this tree do not make.

## Proofs

The theorems hold for every value of the constants that the named assumptions
allow; `PROJECT.json` lists them with the properties they state.

`SpinLockProofs` proves `MutualExclusion` for every finite set of processors
smaller than `W` (`TicketAssumption`). Exclusion alone is not inductive; `IInv`
adds that the tickets between `now_serving` and `next_ticket` are owned one to
one. By the pigeonhole principle the window then never closes on itself
(`WindowHasRoom`), so a drawn ticket is new; and what a trylock loaded is never
ahead of the counters, so its compare-and-swap succeeds only on a free lock. From
`IInv` follows that the lock implements `FifoLock`: the owners of the window, in
the order of their tickets, are the abstract queue.

`IpcProofs`, with the invariants of `IpcInvariant`, has two parts. For every
topology, `TypeOK` and `EndpointMatchesQueue` together are inductive (`Parts`);
the proof carries them through each array operator (`DropHeadOK`, `EnqueueOK`,
...), has one lemma per action, and gives that `Ipc` implements `Dispatch`. For
a topology of clients and servers (`Topology`: who calls is not sent to or
called, who is called neither sends nor uses plain receive; without it the
promises fail, see `ipc_nested` and `ipc_stale`) it proves `LinkedOnce`,
`NobodyForgotten`, `CallGetsItsReply` and `ReplyContextKept`. None is inductive
alone. `IpcInv` says where every blocked thread's node is, that a server's reply
context names the current call of a thread that waits for it, and that a call
is in its target's queue or in its hands. It is stated of arrays, with a set of
threads in the middle of an operation, so that it can also be stated between the
reply and the accept of `ipc_reply_recv`.

`SchedProofs` proves `ReadyIffQueued` for every set of threads, quantum
table and boost period (`SchedAssumption`), and with them that only `current` is
RUNNING (`OnlyCurrentRuns`). `SInv`, their conjunction with the types, is
inductive: an append is safe because the thread it adds is RUNNING, BLOCKED or
CREATED, so not queued. `At(q, l, i, t)` says that `t` is the `i`-th of queue `l`; each queue
operation is one lemma about it, and each action a few of those. From `SInv` it
also proves that `Sched` implements `Dispatch`: a thread found in a queue is
READY, so the switch is a `GiveUp`, and empty queues mean that nobody is READY,
so the kernel's halt is a `Halt`; a tick within the quantum is a stutter.
`LongQuantumEnds` rests on `HInv`: a thread has kept the processor for no more
ticks than have passed since the last boost, or it is in the one tick that this
boost has left it. It holds for every level and quantum SYS_SCHEDULE may set.

`SchedWaitProofs` proves `BoundedWait` for every finite set of threads and boost
period (`WatchedAssumption`). `BInv` adds to `SInv` that levels are
those of the four queues, which without SYS_SCHEDULE they stay, and that a queued
thread is in the queue of its level with a quantum of that level. A wait has two phases.
Until the next boost it is bounded by the tick counter; the boost leaves the
watched and the current thread at level 0 (`Settled`), and from then on every
tick ends a quantum and brings the watched thread a place nearer to the front of
queue 0, while no other step takes it back (`Progress`). `Waits` adds the two up:
the wait and the place are together less than the bound. With a first quantum of
more than one tick a settled thread need not move at a tick; the bound then fails
for some tables (a first quantum of 3 with a boost every 2 ticks), and is not
proved for the others.

`GrantProofs` proves `RefsExact`, `KernelFramesKept` and `RightsNeverGrow` for every
pool, framebuffer, set of frames, size of pages and words, all arguments of the
system calls and fewer than 2^16 address spaces (`GrantAssumption`; `g_refs` has
16 bits). `Inv` says that a list has one entry for a frame, that `g_refs` is the
number of lists that have one, and that only frames of the pool and the
framebuffer are in lists or in entries that a checked call wrote.
The first part is what makes the count move by one with an append or a removal
(`HoldersOne`, from `MergedList`, `AppendedList` and `RemovedList`); the second,
that the root server's own hold of a frame ends when it is first granted, so that
whoever grants it on rests on an entry (`GrantedFromEntry`), from which
`RightsNeverGrow` follows. `KernelFramesKept` comes down to arithmetic: for a
checked call every frame that `pmap_map` comes to, with its own rounding, is one
that the loop of SYS_MAP has looked up (`AllLookedUp`).

`TaskProofs` is about futexes and the thread table. `WaitqsExact` is proved for
every set of threads and words, mapping of addresses to words and number of
chains (`FutexAssumption`). `FutexInv` is a fact about each chain: one queue for
each word of the bucket that somebody waits on, with those threads once each. A
wait or a wake-up changes who waits on one word (`Moved`), so it leaves the other
chains and the other queues of its own chain alone (`ChainKept`, `QueueKept`);
the one queue that changes is joined (`JoinOK`), shortened or unlinked
(`WakeOK`). `LookupExact` and `NothingLeft` are proved for every supply of memory
and first size of the table (`ThreadsAssumption`). `ThreadsInv` adds that every
tid ever given is below `g_next_tid`: a creation that fails behind its tid leaves
a gap, never a second use. `NothingLeft` has two sides: a failed creation keeps no
address space it made, and destroys none it was given.

`KmemProofs` proves for every size and alignment that what `kmalloc_aligned`
returns is aligned and lies, with its hidden word, inside of the buffer it was
cut from; and `OnePlace` for every set of processors and blocks. Where a block is
follows from pointers, so `KInv` says that there are sequences `P` and `F` that
the pending lists and the chains being flushed link, a place `W` for every block
and a pusher `Q` for each block being pushed, that agree with each other. `Mine`
is about the locals: a push stores the link of its block before the
compare-and-swap, so until then the block points at the head it has read.

`ListProofs` proves `RingsExact` for every set of heads and nodes
(`ListAssumption`). `LInv` says that the pointers of a head's ring are those of
its sequence, in both directions, that no two lists share a node, and that a
node is in no list exactly when its `next` is `NULL`; inserting and removing are
each one lemma about a ring (`RingInsert`, `RingRemove`), and one says that the
other rings are untouched (`RingSame`).

Only model-checked:

* liveness (`CallsReturn`, `NoStarvation`, `LockGranted`, `WaiterWoken`), which
  needs fairness and `ENABLED`;
* `Pmm` and `Pmap` with the refinement of `PageAlloc`, `Tlsf` with that of `Heap`,
  `RbTree`, `RbSet`, `Vma`, `Image` and `Pager`, which uses `Image`: they compute
  with recursive operators, or with recursive functions over a range of pages or
  an archive, and what these compute for every input needs induction over data;
* `Strings`, for the same reason: its functions walk over memory.

## Not modelled

Boot loader, descriptor tables, interrupt controller, context switch and entry
code, console, ACPI tables, formatting and the demonstration child: hardware
set-up and input/output without protocol state. `kernel/lib/nanoprintf.h` alone
is a sixth of the source. The splay tree and the iteration macros of `tree.h`
have no user. Exchange-registers access to the registers of another thread is
left out, as are registers in general. Memory ordering weaker than one access at
a time is not modelled; the lock's counters are volatile and x86 orders them.

Limits met while modelling, where no document says what should happen:

* `pmap.c:242`: a `pmap_map` that fails returns before its flush; `TlbFresh`
  leaves this case out with the variable `failed`.
* `pmap.c:264`: an unmap that starts inside of a huge page; ranges of the model
  that meet a huge page start with it.
* `pmap.c:85`: `pmap_create` does not look at the result of its allocation; the
  model creates an address space only while there is a frame. The same holds of
  the extended state area in `kernel/arch/x86_64/thread.c`.
* `syscall.c:97`: deactivation takes a BLOCKED thread out of BLOCKED while it is
  linked on an IPC or futex queue. `Sched`, which has no such queues, models it;
  `Ipc` and `Futex` do not.
* `syscall.c:213`: SYS_SCHEDULE stores a level above 3, which indexes past the
  queues once the thread's quantum ends or it yields, unless a boost or a wake-up
  has put it back to 0 by then. The models end there: what is written is not
  modelled.
* `syscall.c:168-172`: SYS_MAP passes its address, length and flags on to
  `pmap_map` unchanged. With an address inside of a page one frame more is mapped
  than was looked up, with PROT_HUGE the whole of a huge page, and a range whose
  end wraps is not looked up at all; an address in the kernel half changes tables
  that all address spaces share. `Grant` has these calls, and `KernelFramesKept`
  is not about the pages they map. Contents of frames are not in `Grant`: what a
  task could write into the frame of a page table is left out, as is a page
  mapped inside of a huge one (see the findings).
* `syscall.c:174`: `g_maps` counts the frames that were looked up, not those
  mapped, counts nothing when `pmap_map` fails half-way, and wraps at 2^16.
  Nothing but its own decrement reads it, and no property is about it.
* `syscall.c:200`: SYS_UNMAP passes over a page mapped to frame 0, and a range that
  ends in the last page of the address space is a loop without end; the model
  leaves that call out.
* `tlsf.c:1258`: `tlsf_realloc` to a size no block can have truncates the buffer;
  the sizes of `lib` stay below. `kmem.c:83`: `krealloc` of another processor's
  buffer subtracts the header from a size that excludes it already, and copies
  that much too little; `Kmem` has no sizes. `tlsf.c:497`: a size within a word of
  2^64 wraps to a small one when it is aligned; the sizes of `lib` stay below.
* `pager.c:159`: requests of zero bytes or within a page of 2^64; the requests
  of `tasks` are between one byte and two pages. No request is refused for its
  place: a heap that has grown far enough is mapped over the shared page and the
  UTCB page.
* `pager.c:31`: the pool's cursor wraps and hands frames out again that are in
  use. `pager.c:176`: a range that `vma_insert` refuses is in the reply already,
  and the next request is given the same addresses. `Pager` does both;
  `BuffersBacked` and `ImagesLoaded` say what holds until the cursor wraps, and
  that a refusal has one of two causes.
