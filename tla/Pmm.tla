-------------------------------- MODULE Pmm ---------------------------------
(***************************************************************************)
(* The physical page allocator, kernel/mm/pmm.c: a binary buddy allocator. *)
(*                                                                         *)
(* Addresses are frame numbers.  The boot loader describes memory in whole *)
(* pages (NumberOfPages * 4096), so the ALIGN_UP and ALIGN_DOWN of the     *)
(* bounds of an entry change nothing.  Both operations run under           *)
(* g_pmm_lock: each is one step.                                           *)
(***************************************************************************)
EXTENDS Integers, Sequences, FiniteSetsExt, SequencesExt

CONSTANTS
  MAX_BUDDY_ORDER,
  PMM_POOL_START_PFN,   \* frames from here on are left to the root server
  LOW,                  \* frames below 1 MB, which are reserved
  DescriptorsPerPage,   \* PAGE_SIZE / sizeof(page_t)
  MemoryMaps,           \* the memory maps the boot loader may hand over
  AnyFree               \* FALSE: only frees that satisfy FreedWhole

Order == 0..(MAX_BUDDY_ORDER - 1)

VARIABLES
  mmap,        \* g_boot_info->memory.entries
  free_list,   \* orders[o].free_list, as a sequence of frames
  free_count,  \* orders[o].free_count
  is_free,     \* the frames whose descriptor has is_free set
  free_pages,
  live         \* the blocks handed out; not in the code

vars == <<mmap, free_list, free_count, is_free, free_pages, live>>

Frames(b) == b[1]..(b[1] + 2^b[2] - 1)

-----------------------------------------------------------------------------
(* pmm_init *)

Start(e) == IF e.start < LOW THEN LOW ELSE e.start
End(e) == e.start + e.length

total_pages(m) == Max({End(m[i]) : i \in DOMAIN m})

array_size(m) == (total_pages(m) + DescriptorsPerPage - 1) \div DescriptorsPerPage

(* The entries the descriptor array fits into. *)
Roomy(m) ==
  {i \in DOMAIN m : /\ m[i].usable
                    /\ End(m[i]) > Start(m[i])
                    /\ End(m[i]) - Start(m[i]) >= array_size(m)}

(* The first of them has it; pmm_init fails without one. *)
array_phys(m) == Start(m[Min(Roomy(m))])

array_end(m) == array_phys(m) + array_size(m)

InMap(m, curr) == curr \in array_phys(m)..(array_end(m) - 1)

(* frames that are left to the root server *)
InPool(curr) == curr >= PMM_POOL_START_PFN

(* how far the block at curr may reach *)
Limit(m, curr, end) ==
  Min({end, PMM_POOL_START_PFN}
      \cup IF curr < array_phys(m) THEN {array_phys(m)} ELSE {})

(* The largest aligned block at curr that ends before limit. *)
TargetOrder(curr, limit) ==
  Max({0} \cup {o \in Order : limit - curr >= 2^o /\ curr % 2^o = 0})

(* The blocks that pmm_init makes of the frames from curr to end, in order. *)
RECURSIVE Carve(_, _, _)
Carve(m, curr, end) ==
  CASE curr >= end \/ InPool(curr) -> <<>>
    [] InMap(m, curr) -> Carve(m, array_end(m), end)
    [] OTHER -> LET o == TargetOrder(curr, Limit(m, curr, end)) IN
                <<<<curr, o>>>> \o Carve(m, curr + 2^o, end)

(* all of them, entry by entry *)
Carved(m) ==
  FoldLeft(LAMBDA blocks, e :
             IF e.usable THEN blocks \o Carve(m, Start(e), End(e)) ELSE blocks,
           <<>>, m)

ListOf(blocks, o) ==
  LET mine == SelectSeq(blocks, LAMBDA b : b[2] = o)
  IN [i \in DOMAIN mine |-> mine[i][1]]

pmm_init ==
  LET blocks == Carved(mmap) IN
  /\ Roomy(mmap) # {}
  /\ free_list = [o \in Order |-> ListOf(blocks, o)]
  /\ free_count = [o \in Order |-> Len(ListOf(blocks, o))]
  /\ is_free = {blocks[i][1] : i \in DOMAIN blocks}
  /\ free_pages = FoldLeft(LAMBDA n, b : n + 2^b[2], 0, blocks)

Init ==
  /\ mmap \in MemoryMaps
  /\ pmm_init
  /\ live = {}

-----------------------------------------------------------------------------
(* pmm_alloc_pages and pmm_free_pages *)

(* p ^ (1 << o) *)
Buddy(p, o) == IF (p \div 2^o) % 2 = 0 THEN p + 2^o ELSE p - 2^o

(* The orders that get a block when one of order o is split for order. *)
Split(order, o) == order..(o - 1)

(* The head of the first list that has one, from order up; what is left of *)
(* it is split into one block for each order below.  Without one the call  *)
(* returns NULL, which changes nothing.                                    *)
pmm_alloc_pages(order) ==
  \E o \in Order :
    /\ o >= order
    /\ free_list[o] # <<>>
    /\ \A k \in order..(o - 1) : free_list[k] = <<>>
    /\ LET pfn   == Head(free_list[o])
           split == Split(order, o)
       IN
       /\ free_list' = [k \in Order |-> IF k = o THEN Tail(free_list[o])
                                        ELSE IF k \in split THEN <<Buddy(pfn, k)>> \o free_list[k]
                                        ELSE free_list[k]]
       /\ free_count' = [k \in Order |-> IF k = o THEN free_count[k] - 1
                                         ELSE IF k \in split THEN free_count[k] + 1
                                         ELSE free_count[k]]
       /\ is_free' = (is_free \cup {Buddy(pfn, k) : k \in split}) \ {pfn}
       /\ free_pages' = free_pages - 2^order
       /\ live' = live \cup {<<pfn, order>>}
  /\ UNCHANGED mmap

(* Mutant of Base: the merged block starts at the freed one. *)
BaseKept(p, k) == p

(* The block of order k that p belongs to. *)
Base(p, k) == p - (p % 2^k)

(* Mutant of Merged: the buddies keep is_free. *)
MergedKept(buddies, p) == is_free \cup {p}

(* is_free once buddies have coalesced into the block at p *)
Merged(buddies, p) == (is_free \ buddies) \cup {p}

(* The order at which coalescing stops: the buddy is not free, or the      *)
(* largest order is reached.  The order of the buddy is not looked at.     *)
MergeOrder(p, order) ==
  Min({k \in order..(MAX_BUDDY_ORDER - 1) :
         k = MAX_BUDDY_ORDER - 1 \/ Buddy(Base(p, k), k) \notin is_free})

(* Every free buddy on the way up is a whole block of its order.  The code *)
(* does not test it; unless AnyFree, callers free in an order that keeps   *)
(* it true.                                                                *)
FreedWhole(p, order) ==
  \A k \in order..(MergeOrder(p, order) - 1) :
    Contains(free_list[k], Buddy(Base(p, k), k))

(* Callers give back the block, with the order, they were given.           *)
pmm_free_pages(p, order) ==
  LET top     == MergeOrder(p, order)
      buddies == {Buddy(Base(p, k), k) : k \in order..(top - 1)}
      cut     == [k \in Order |-> SelectSeq(free_list[k], LAMBDA q : q \notin buddies)]
  IN
  /\ AnyFree \/ FreedWhole(p, order)
  /\ free_list' = [cut EXCEPT ![top] = Append(@, Base(p, top))]
  /\ free_count' = [k \in Order |->
                      free_count[k] + (IF k = top THEN 1
                                       ELSE IF k \in order..(top - 1) THEN -1 ELSE 0)]
  /\ is_free' = Merged(buddies, Base(p, top))
  /\ free_pages' = free_pages + 2^order
  /\ live' = live \ {<<p, order>>}
  /\ UNCHANGED mmap

Next ==
  \/ \E order \in Order : pmm_alloc_pages(order)
  \/ \E b \in live : pmm_free_pages(b[1], b[2])

Spec == Init /\ [][Next]_vars

(* pmm_frame_in_pool: may the root server be given this frame? *)
pmm_frame_in_pool(pfn) ==
  /\ pfn >= PMM_POOL_START_PFN
  /\ pfn >= LOW
  /\ ~InMap(mmap, pfn)
  /\ \E i \in DOMAIN mmap : /\ mmap[i].usable
                            /\ pfn \in Start(mmap[i])..(End(mmap[i]) - 1)

-----------------------------------------------------------------------------
(* Properties. *)

FreeBlocks == UNION {{<<free_list[o][i], o>> : i \in DOMAIN free_list[o]} : o \in Order}

(* the frames the kernel may use *)
Managed ==
  {f \in UNION {Start(mmap[i])..(End(mmap[i]) - 1) :
                  i \in {j \in DOMAIN mmap : mmap[j].usable}} :
     f < PMM_POOL_START_PFN /\ f \notin array_phys(mmap)..(array_end(mmap) - 1)}

TypeOK ==
  /\ mmap \in MemoryMaps
  /\ free_list \in [Order -> Seq(Nat)]
  /\ free_count \in [Order -> Nat]
  /\ is_free \subseteq 0..(PMM_POOL_START_PFN - 1)
  /\ free_pages \in Nat
  /\ live \subseteq (0..(PMM_POOL_START_PFN - 1)) \X Order

(* However blocks are split and coalesced, every usable frame below the    *)
(* root server's pool is in exactly one block, free or handed out: no      *)
(* frame is lost, none is in two blocks, and neither the descriptor array, *)
(* nor the low megabyte, nor a reserved frame is ever in a block.          *)
FramesPartitioned ==
  /\ UNION {Frames(b) : b \in FreeBlocks \cup live} = Managed
  /\ \A b, c \in FreeBlocks \cup live : b # c => Frames(b) \cap Frames(c) = {}
  /\ FreeBlocks \cap live = {}

(* is_free marks the first frame of every listed block and no other, no    *)
(* frame is linked twice, and the counters agree with the lists.           *)
BookkeepingExact ==
  /\ is_free = {b[1] : b \in FreeBlocks}
  /\ \A o \in Order : IsInjective(free_list[o]) /\ free_count[o] = Len(free_list[o])
  /\ free_pages = MapThenSumSet(LAMBDA b : 2^b[2], FreeBlocks)

(* A frame that the root server may be given is in no block of the kernel. *)
PoolFramesApart ==
  \A b \in FreeBlocks \cup live : \A f \in Frames(b) : ~pmm_frame_in_pool(f)

(* "allocate new phys page" (pmap.c): blocks handed out do not overlap.    *)
LiveApart == \A b, c \in live : b # c => Frames(b) \cap Frames(c) = {}

P == INSTANCE PageAlloc WITH managed <- Managed

(* The buddy allocator implements PageAlloc. *)
ImplementsPageAlloc == P!Spec
=============================================================================
