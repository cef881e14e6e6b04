-------------------------------- MODULE Kmem --------------------------------
(***************************************************************************)
(* The kernel's allocator interface, kernel/mm/kmem.c: one TLSF heap per   *)
(* CPU.  A block is freed by its owner; another CPU pushes it onto the     *)
(* owner's pending list, a stack of blocks linked through next_free, which *)
(* the owner empties when its own heap runs short (tlsf_push_pending and   *)
(* tlsf_flush_pending of kernel/lib/tlsf.c).                               *)
(*                                                                         *)
(* The heaps are abstract (Heap has what Tlsf promises): free blocks of    *)
(* the right owner, of which a request may find one or not.  A CPU has     *)
(* interrupts masked inside these functions; the steps of several CPUs     *)
(* interleave at the atomic operations on the pending lists.               *)
(***************************************************************************)
EXTENDS Integers, FiniteSets

CONSTANTS CPU, Block, Null

ASSUME KmemAssumption == Null \notin CPU \cup Block /\ "heap" \notin Block

VARIABLES
  owner,    \* owner_cpu_id of the page of the block; Null: still in the PMM
  free,     \* the blocks that are free in their owner's heap
  held,     \* the blocks somebody has a pointer to
  link,     \* next_free of each block, "heap" while the heap uses the field
  pending,  \* pending_free_list of each CPU
  cpu       \* where each CPU is: [pc, old, chain, ptr, head]

kmemVars == <<owner, free, held, link, pending, cpu>>

Idle == [pc |-> "idle", old |-> Null, chain |-> Null, ptr |-> Null, head |-> Null]

(* After percpu_tlsf_init every CPU has a heap.  Block are the blocks that *)
(* are followed: one of each heap or none, and the others in the PMM.      *)
percpu_tlsf_init ==
  /\ owner \in [Block -> CPU \cup {Null}]
  /\ \A c \in CPU : Cardinality({b \in Block : owner[b] = c}) <= 1
  /\ free = {b \in Block : owner[b] # Null}

KmemInit ==
  /\ percpu_tlsf_init
  /\ held = {}
  /\ link = [b \in Block |-> "heap"]
  /\ pending = [c \in CPU |-> Null]
  /\ cpu = [c \in CPU |-> Idle]

-----------------------------------------------------------------------------
(* kmalloc and krealloc.  cpu[c].old is the buffer krealloc replaces.      *)

At(c, pc) == cpu[c].pc = pc
Goto(c, pc) == cpu' = [cpu EXCEPT ![c].pc = pc]

(* tlsf_malloc *)
Malloc(c) ==
  \E b \in free : /\ owner[b] = c
                  /\ free' = free \ {b}
                  /\ held' = held \cup {b}

(* tlsf_realloc: the buffer stays, or its contents move and it is freed.   *)
Realloc(c, old) ==
  \/ UNCHANGED <<free, held>>
  \/ \E b \in free : /\ owner[b] = c
                     /\ free' = (free \ {b}) \cup {old}
                     /\ held' = (held \ {old}) \cup {b}

(* kmalloc, copy, and kfree of the old buffer *)
Replace(c, old) ==
  \E b \in free : /\ owner[b] = c
                  /\ free' = free \ {b}
                  /\ held' = (held \ {old}) \cup {b}

(* nobody is in the middle of a krealloc of b *)
Settled(b) == b \in held /\ \A d \in CPU : cpu[d].old # b

kmalloc(c) ==
  /\ At(c, "idle")
  /\ cpu' = [cpu EXCEPT ![c] = [Idle EXCEPT !.pc = "try"]]
  /\ UNCHANGED <<owner, free, held, link, pending>>

krealloc(c, b) ==
  /\ At(c, "idle")
  /\ Settled(b)
  /\ cpu' = [cpu EXCEPT ![c] = [Idle EXCEPT !.pc = "try", !.old = b]]
  /\ UNCHANGED <<owner, free, held, link, pending>>

(* the fast path, the second attempt and the last one *)
Succeed(c) ==
  LET old == cpu[c].old IN
  /\ cpu[c].pc \in {"try", "retry", "last"}
  /\ \/ /\ old = Null
        /\ Malloc(c)
        /\ cpu' = [cpu EXCEPT ![c] = Idle]
     \/ /\ old # Null
        /\ owner[old] = c
        /\ Realloc(c, old)
        /\ cpu' = [cpu EXCEPT ![c] = Idle]
     \/ /\ old # Null
        /\ owner[old] # c
        /\ Replace(c, old)
        /\ cpu' = [cpu EXCEPT ![c] = [Idle EXCEPT !.pc = "load", !.ptr = old]]
  /\ UNCHANGED <<owner, link, pending>>

(* Mutant of Exchange: the list is read, not taken. *)
ExchangeLoad(c) ==
  /\ At(c, "try")
  /\ cpu' = [cpu EXCEPT ![c].pc = "flush", ![c].chain = pending[c]]
  /\ UNCHANGED <<owner, free, held, link, pending>>

(* the slow path: first the pending list *)
Exchange(c) ==
  /\ At(c, "try")
  /\ pending' = [pending EXCEPT ![c] = Null]
  /\ cpu' = [cpu EXCEPT ![c].pc = "flush", ![c].chain = pending[c]]
  /\ UNCHANGED <<owner, free, held, link>>

(* the next block of the chain; the heap reuses next_free, so it is read   *)
(* before the block is freed                                               *)
Following(b) == link[b]

(* tlsf_flush_pending *)
FlushOne(c) ==
  LET b == cpu[c].chain IN
  /\ At(c, "flush")
  /\ b # Null
  /\ free' = free \cup {b}
  /\ link' = [link EXCEPT ![b] = "heap"]
  /\ cpu' = [cpu EXCEPT ![c].chain = Following(b)]
  /\ UNCHANGED <<owner, held, pending>>

FlushDone(c) ==
  /\ At(c, "flush")
  /\ cpu[c].chain = Null
  /\ Goto(c, "retry")
  /\ UNCHANGED <<owner, free, held, link, pending>>

(* then the buddy allocator; the pages of the new pool get their owner *)
Grow(c) ==
  /\ At(c, "retry")
  /\ \E b \in Block :
       /\ owner[b] = Null
       /\ owner' = [owner EXCEPT ![b] = c]
       /\ free' = free \cup {b}
  /\ Goto(c, "last")
  /\ UNCHANGED <<held, link, pending>>

(* NULL: no memory, or none that fits.  krealloc leaves the old buffer. *)
Fail(c) ==
  /\ cpu[c].pc \in {"retry", "last"}
  /\ cpu' = [cpu EXCEPT ![c] = Idle]
  /\ UNCHANGED <<owner, free, held, link, pending>>

-----------------------------------------------------------------------------
(* kfree *)

(* on the owner's CPU *)
FreeLocal(c, b) ==
  /\ At(c, "idle")
  /\ Settled(b)
  /\ owner[b] = c
  /\ held' = held \ {b}
  /\ free' = free \cup {b}
  /\ UNCHANGED <<owner, link, pending, cpu>>

(* on another CPU: the work is passed to the owner *)
FreeRemote(c, b) ==
  /\ At(c, "idle")
  /\ Settled(b)
  /\ owner[b] # c
  /\ held' = held \ {b}
  /\ cpu' = [cpu EXCEPT ![c] = [Idle EXCEPT !.pc = "load", !.ptr = b]]
  /\ UNCHANGED <<owner, free, link, pending>>

(* tlsf_push_pending: load the head and link the block to it ... *)
PushLoad(c) ==
  LET b == cpu[c].ptr IN
  /\ At(c, "load")
  /\ cpu' = [cpu EXCEPT ![c].pc = "cas", ![c].head = pending[owner[b]]]
  /\ link' = [link EXCEPT ![b] = pending[owner[b]]]
  /\ UNCHANGED <<owner, free, held, pending>>

Unchanged(c) == pending[owner[cpu[c].ptr]] = cpu[c].head

(* ... and exchange it for the block, if it is still the head; ... *)
PushCas(c) ==
  LET b == cpu[c].ptr IN
  /\ At(c, "cas")
  /\ Unchanged(c)
  /\ pending' = [pending EXCEPT ![owner[b]] = b]
  /\ cpu' = [cpu EXCEPT ![c] = Idle]
  /\ UNCHANGED <<owner, free, held, link>>

(* ... a weak compare-and-exchange may also fail when it is. *)
PushAgain(c) ==
  /\ At(c, "cas")
  /\ Goto(c, "load")
  /\ UNCHANGED <<owner, free, held, link, pending>>

(* kmalloc_aligned asks for size + alignment + word bytes, of              *)
(* which it returns the address Aligned, and keeps raw in the word before. *)
Aligned(raw, word, alignment) ==
  LET addr == raw + word
      rem  == addr % alignment
  IN addr + (IF rem = 0 THEN 0 ELSE alignment - rem)

KmemNext ==
  \E c \in CPU :
    \/ kmalloc(c)
    \/ \E b \in Block : krealloc(c, b) \/ FreeLocal(c, b) \/ FreeRemote(c, b)
    \/ Succeed(c) \/ Exchange(c) \/ FlushOne(c) \/ FlushDone(c) \/ Grow(c) \/ Fail(c)
    \/ PushLoad(c) \/ PushCas(c) \/ PushAgain(c)

KmemSpec == KmemInit /\ [][KmemNext]_kmemVars

-----------------------------------------------------------------------------
(* Properties. *)

(* The links from b reach x: they leave every set of blocks that has b but *)
(* not x.                                                                  *)
Linked(b, x) ==
  /\ b \in Block
  /\ \A S \in SUBSET (Block \ {x}) : b \in S => \E y \in S : link[y] \in Block \ S

(* Block b is free in its heap, in use, on c's pending list, in the chain  *)
(* that c is freeing, or pushed by c.                                      *)
InPlace(b, at, c) ==
  \/ at = "free" /\ b \in free /\ c = owner[b]
  \/ at = "held" /\ b \in held /\ c = owner[b]
  \/ at = "pending" /\ Linked(pending[c], b)
  \/ at = "flush" /\ Linked(cpu[c].chain, b)
  \/ at = "push" /\ b = cpu[c].ptr

Place == {"free", "held", "pending", "flush", "push"} \X CPU

(* However pushes on several CPUs and the flushes of the owner interleave, *)
(* every block of a heap is in exactly one place, and only the owner has   *)
(* it on its pending list or frees it from there.  So no block is lost,    *)
(* freed twice, or freed into another heap or while somebody uses it.      *)
OnePlace ==
  \A b \in Block : owner[b] # Null =>
    \E p \in Place : /\ {q \in Place : InPlace(b, q[1], q[2])} = {p}
                     /\ p[1] # "push" => p[2] = owner[b]

(* What kmalloc_aligned returns is aligned, and it and the word it keeps   *)
(* are inside of what kmalloc gave it.                                     *)
AlignedInside(raw, size, word, alignment) ==
  /\ Aligned(raw, word, alignment) - word >= raw
  /\ Aligned(raw, word, alignment) % alignment = 0
  /\ Aligned(raw, word, alignment) + size <= raw + (size + alignment + word)
=============================================================================
