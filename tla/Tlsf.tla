-------------------------------- MODULE Tlsf --------------------------------
(***************************************************************************)
(* The kernel heap, kernel/lib/tlsf.c: two-level segregated fit.           *)
(*                                                                         *)
(* A heap is a value, and each function of the source is an operator that  *)
(* returns the heap after it.  h.blk holds the headers: from the address   *)
(* of a block_header_t to its fields.  A header exists from the split that *)
(* makes it to the merge that absorbs it.  Its fields share memory with    *)
(* user data, so that                                                      *)
(*   - the flag bits in a word that becomes a size field are arbitrary     *)
(*     (h.junk), as block_set_size keeps them;                             *)
(*   - the links of a block in use, and prev_phys_block behind one, hold   *)
(*     what the user wrote (USER).                                         *)
(* h.ok says whether every tlsf_assert so far held.  The links of          *)
(* block_null are written, never read, and left out.                       *)
(***************************************************************************)
EXTENDS Integers, Sequences, FiniteSetsExt, TLC

CONSTANTS
  ALIGN_SIZE_LOG2, SL_INDEX_COUNT_LOG2, FL_INDEX_MAX,
  SIZE_T,          \* 2^64, at which sizes wrap
  Pools,           \* the memory given to the heap: <<address, bytes>>
  Sizes,           \* sizes asked of tlsf_malloc and tlsf_memalign
  ReallocSizes,    \* sizes asked of tlsf_realloc
  Aligns           \* alignments asked of tlsf_memalign

ALIGN_SIZE == 2^ALIGN_SIZE_LOG2
SL_INDEX_COUNT == 2^SL_INDEX_COUNT_LOG2
FL_INDEX_SHIFT == SL_INDEX_COUNT_LOG2 + ALIGN_SIZE_LOG2
FL_INDEX_COUNT == FL_INDEX_MAX - FL_INDEX_SHIFT + 1
SMALL_BLOCK_SIZE == 2^FL_INDEX_SHIFT
block_header_overhead == ALIGN_SIZE
block_header_size == 4 * ALIGN_SIZE
block_size_min == 3 * ALIGN_SIZE
block_size_max == 2^FL_INDEX_MAX

Class == (0..(FL_INDEX_COUNT - 1)) \X (0..(SL_INDEX_COUNT - 1))
block_null == 0
USER == "user data"

VARIABLES
  heap,     \* the control structure and the headers in the pools
  pools,    \* the pools in the heap
  buffers   \* the pointers users hold, with the size and alignment asked for

vars == <<heap, pools, buffers>>

-----------------------------------------------------------------------------
(* Blocks. *)

block_to_ptr(b) == b + 2 * ALIGN_SIZE
block_from_ptr(p) == p - 2 * ALIGN_SIZE

block_next(h, b) == block_to_ptr(b) + h.blk[b].size - block_header_overhead

block_is_last(h, b) == h.blk[b].size = 0

Assert_(h, e) == [h EXCEPT !.ok = @ /\ e]

block_link_next(h, b) == [h EXCEPT !.blk[block_next(h, b)].prev_phys_block = b]

block_mark_as_free(h, b) ==
  [block_link_next(h, b) EXCEPT !.blk[block_next(h, b)].prev_is_free = TRUE,
                                !.blk[b].free = TRUE]

block_mark_as_used(h, b) ==
  [h EXCEPT !.blk[block_next(h, b)].prev_is_free = FALSE, !.blk[b].free = FALSE]

align_up(x, align) == LET y == (x + align - 1) % SIZE_T IN y - (y % align)
align_down(x, align) == x - (x % align)

adjust_request_size(size, align) ==
  LET aligned == align_up(size, align) IN
  IF size = 0 \/ aligned >= block_size_max THEN 0 ELSE Max({aligned, block_size_min})

-----------------------------------------------------------------------------
(* Size classes and free lists. *)

tlsf_fls(n) == Max({i \in 0..(FL_INDEX_MAX + 1) : 2^i <= n})

mapping_insert(size) ==
  IF size < SMALL_BLOCK_SIZE
  THEN <<0, size \div (SMALL_BLOCK_SIZE \div SL_INDEX_COUNT)>>
  ELSE LET fl == tlsf_fls(size) IN
       <<fl - (FL_INDEX_SHIFT - 1),
         (size \div 2^(fl - SL_INDEX_COUNT_LOG2)) - SL_INDEX_COUNT>>

mapping_search(size) ==
  IF size < SMALL_BLOCK_SIZE THEN mapping_insert(size)
  ELSE mapping_insert(size + 2^(tlsf_fls(size) - SL_INDEX_COUNT_LOG2) - 1)

(* Mutant of search_suitable_block: only the first level of the request. *)
SearchOneLevel(h, c) ==
  LET here == {s \in 0..(SL_INDEX_COUNT - 1) : s >= c[2] /\ <<c[1], s>> \in h.sl_bitmap}
  IN IF here # {} THEN {<<c[1], Min(here)>>} ELSE {}

(* the first class with a block, from c up; {} without one *)
search_suitable_block(h, c) ==
  LET here  == {s \in 0..(SL_INDEX_COUNT - 1) : s >= c[2] /\ <<c[1], s>> \in h.sl_bitmap}
      above == {f \in h.fl_bitmap : f > c[1]}
  IN IF here # {} THEN {<<c[1], Min(here)>>}
     ELSE IF above = {} THEN {}
     ELSE {<<Min(above), Min({d[2] : d \in {e \in h.sl_bitmap : e[1] = Min(above)}})>>}

(* the bitmaps when the list of c has become empty *)
Unmarked(h, c) ==
  [h EXCEPT !.sl_bitmap = @ \ {c},
            !.fl_bitmap = @ \ {f \in {c[1]} : \A d \in h.sl_bitmap \ {c} : d[1] # f}]

remove_free_block(h, b, c) ==
  LET prev == h.blk[b].prev_free
      next == h.blk[b].next_free
      cut  == [h EXCEPT !.blk = [a \in DOMAIN @ |->
                 IF a = next THEN [@[a] EXCEPT !.prev_free = prev]
                 ELSE IF a = prev THEN [@[a] EXCEPT !.next_free = next]
                 ELSE @[a]]]
  IN IF h.blocks[c] # b THEN cut
     ELSE LET top == [cut EXCEPT !.blocks[c] = next]
          IN IF next = block_null THEN Unmarked(top, c) ELSE top

insert_free_block(h, b, c) ==
  LET current == h.blocks[c] IN
  [h EXCEPT !.blk = [a \in DOMAIN @ |->
              IF a = b THEN [@[a] EXCEPT !.next_free = current, !.prev_free = block_null]
              ELSE IF a = current THEN [@[a] EXCEPT !.prev_free = b]
              ELSE @[a]],
            !.blocks[c] = b,
            !.fl_bitmap = @ \cup {c[1]},
            !.sl_bitmap = @ \cup {c},
            !.ok = @ /\ block_to_ptr(b) % ALIGN_SIZE = 0]

block_remove(h, b) == remove_free_block(h, b, mapping_insert(h.blk[b].size))
block_insert(h, b) == insert_free_block(h, b, mapping_insert(h.blk[b].size))

-----------------------------------------------------------------------------
(* Splitting and merging.  Where the source returns a block as well, it is *)
(* named by an operator of its own.                                        *)

block_can_split(h, b, size) == h.blk[b].size >= block_header_size + size

Remaining(b, size) == block_to_ptr(b) + size - block_header_overhead

block_split(h, b, size) ==
  LET r      == Remaining(b, size)
      remain == h.blk[b].size - (size + block_header_overhead)
      header == [size |-> remain, free |-> h.junk[1], prev_is_free |-> h.junk[2],
                 prev_phys_block |-> USER, next_free |-> USER, prev_free |-> USER]
      made   == [h EXCEPT !.blk = (r :> header) @@ [@ EXCEPT ![b].size = size],
                          !.ok = @ /\ remain >= block_size_min
                                   /\ block_to_ptr(r) % ALIGN_SIZE = 0]
  IN block_mark_as_free(made, r)

(* The absorbed header becomes payload. *)
block_absorb(h, prev, b) ==
  LET grown == [h EXCEPT !.blk = [a \in DOMAIN @ \ {b} |->
                  IF a = prev
                  THEN [@[a] EXCEPT !.size = @ + h.blk[b].size + block_header_overhead]
                  ELSE @[a]],
                         !.ok = @ /\ ~block_is_last(h, prev)]
  IN block_link_next(grown, prev)

(* where the block is after block_merge_prev *)
MergedAt(h, b) == IF h.blk[b].prev_is_free THEN h.blk[b].prev_phys_block ELSE b

block_merge_prev(h, b) ==
  LET prev == h.blk[b].prev_phys_block IN
  IF h.blk[b].prev_is_free
  THEN block_absorb(block_remove(Assert_(h, h.blk[prev].free), prev), prev, b)
  ELSE h

block_merge_next(h, b) ==
  LET next == block_next(h, b) IN
  IF h.blk[next].free
  THEN block_absorb(block_remove(Assert_(h, ~block_is_last(h, b)), next), b, next)
  ELSE h

block_trim_free(h, b, size) ==
  LET r == Remaining(b, size) IN
  IF block_can_split(h, b, size)
  THEN block_insert([block_link_next(block_split(h, b, size), b)
                       EXCEPT !.blk[r].prev_is_free = TRUE], r)
  ELSE h

(* Mutant of block_trim_used: the rest does not coalesce. *)
TrimUsedAlone(h, b, size) ==
  LET r == Remaining(b, size) IN
  IF block_can_split(h, b, size)
  THEN block_insert([block_split(h, b, size) EXCEPT !.blk[r].prev_is_free = FALSE], r)
  ELSE h

block_trim_used(h, b, size) ==
  LET r == Remaining(b, size) IN
  IF block_can_split(h, b, size)
  THEN block_insert(
         block_merge_next(
           [block_split(h, b, size) EXCEPT !.blk[r].prev_is_free = FALSE], r), r)
  ELSE h

(* where the block is after block_trim_free_leading *)
LeadingAt(h, b, size) ==
  IF block_can_split(h, b, size) THEN Remaining(b, size - block_header_overhead) ELSE b

block_trim_free_leading(h, b, size) ==
  LET r == Remaining(b, size - block_header_overhead) IN
  IF block_can_split(h, b, size)
  THEN block_insert(
         block_link_next([block_split(h, b, size - block_header_overhead)
                            EXCEPT !.blk[r].prev_is_free = TRUE], b), b)
  ELSE h

(* the block block_locate_free finds, block_null for none, and the heap    *)
(* without it                                                              *)
Located(h, size) ==
  LET found == IF size = 0 \/ mapping_search(size)[1] >= FL_INDEX_COUNT THEN {}
               ELSE search_suitable_block(h, mapping_search(size))
  IN IF found = {} THEN block_null ELSE h.blocks[CHOOSE c \in found : TRUE]

block_locate_free(h, size) ==
  LET b == Located(h, size) IN
  IF b = block_null THEN h
  ELSE remove_free_block(Assert_(h, h.blk[b].size >= size), b,
                         CHOOSE c \in search_suitable_block(h, mapping_search(size)) : TRUE)

block_prepare_used(h, b, size) ==
  IF b = block_null THEN h
  ELSE block_mark_as_used(block_trim_free(Assert_(h, size # 0 /\ h.blk[b].free), b, size), b)

-----------------------------------------------------------------------------
(* The interface.  The operations that return a pointer have a companion   *)
(* that says which; 0 is NULL.                                             *)

control_construct ==
  [blk |-> [a \in {} |-> 0], fl_bitmap |-> {}, sl_bitmap |-> {},
   blocks |-> [c \in Class |-> block_null], ok |-> TRUE, junk |-> <<FALSE, FALSE>>]

pool_bytes(bytes) == align_down(bytes - 2 * block_header_overhead, ALIGN_SIZE)

tlsf_add_pool(h, mem, bytes) ==
  LET b      == mem - block_header_overhead
      n      == b + block_header_overhead + pool_bytes(bytes)
      first  == [size |-> pool_bytes(bytes), free |-> TRUE, prev_is_free |-> FALSE,
                 prev_phys_block |-> USER, next_free |-> USER, prev_free |-> USER]
      last   == [first EXCEPT !.size = 0, !.free = FALSE, !.prev_is_free = TRUE]
      placed == [h EXCEPT !.blk = (b :> first) @@ (n :> last) @@ @]
  IN IF mem % ALIGN_SIZE # 0 \/ pool_bytes(bytes) \notin block_size_min..block_size_max
     THEN h
     ELSE block_link_next(block_insert(placed, b), b)

tlsf_remove_pool(h, mem) ==
  LET b == mem - block_header_overhead
      n == block_next(h, b)
      r == block_remove(Assert_(h, h.blk[b].free /\ ~h.blk[n].free /\ h.blk[n].size = 0), b)
  IN [r EXCEPT !.blk = [a \in DOMAIN @ \ {b, n} |-> @[a]]]

PtrOf(b) == IF b = block_null THEN 0 ELSE block_to_ptr(b)

MallocPtr(h, size) == PtrOf(Located(h, adjust_request_size(size, ALIGN_SIZE)))

tlsf_malloc(h, size) ==
  LET adjust == adjust_request_size(size, ALIGN_SIZE) IN
  block_prepare_used(block_locate_free(h, adjust), Located(h, adjust), adjust)

(* Mutant of aligned_size: no room for the gap is asked for. *)
AlignedSizeBare(adjust, align) == adjust

(* how much more tlsf_memalign asks for than the adjusted size *)
aligned_size(adjust, align) ==
  IF adjust # 0 /\ align > ALIGN_SIZE
  THEN adjust_request_size(adjust + align + block_header_size, align) ELSE adjust

(* the bytes between the start of the block and the aligned pointer *)
Gap(ptr, align) ==
  LET gap == align_up(ptr, align) - ptr IN
  IF gap = 0 \/ gap >= block_header_size THEN gap
  ELSE align_up(align_up(ptr, align) + Max({block_header_size - gap, align}), align) - ptr

MemalignPtr(h, align, size) ==
  LET adjust == adjust_request_size(size, ALIGN_SIZE)
      b      == Located(h, aligned_size(adjust, align))
      gap    == Gap(block_to_ptr(b), align)
  IN IF b = block_null THEN 0
     ELSE PtrOf(IF gap = 0 THEN b ELSE LeadingAt(h, b, gap))

tlsf_memalign(h, align, size) ==
  LET adjust == adjust_request_size(size, ALIGN_SIZE)
      full   == aligned_size(adjust, align)
      b      == Located(h, full)
      taken  == block_locate_free(h, full)
      gap    == Gap(block_to_ptr(b), align)
  IN IF b = block_null THEN h
     ELSE IF gap = 0 THEN block_prepare_used(taken, b, adjust)
     ELSE block_prepare_used(
            block_trim_free_leading(Assert_(taken, gap >= block_header_size), b, gap),
            LeadingAt(h, b, gap), adjust)

tlsf_free(h, ptr) ==
  LET b     == block_from_ptr(ptr)
      freed == block_mark_as_free(Assert_(h, ~h.blk[b].free), b)
      at    == MergedAt(freed, b)
  IN block_insert(block_merge_next(block_merge_prev(freed, b), at), at)

(* must tlsf_realloc move the buffer to hold size bytes? *)
Moves(h, ptr, size) ==
  LET b      == block_from_ptr(ptr)
      next   == block_next(h, b)
      adjust == adjust_request_size(size, ALIGN_SIZE)
  IN /\ adjust > h.blk[b].size
     /\ \/ ~h.blk[next].free
        \/ adjust > h.blk[b].size + h.blk[next].size + block_header_overhead

(* for a buffer and a size that is not 0; the other cases are tlsf_malloc  *)
(* and tlsf_free                                                           *)
ReallocPtr(h, ptr, size) == IF Moves(h, ptr, size) THEN MallocPtr(h, size) ELSE ptr

tlsf_realloc(h, ptr, size) ==
  LET b      == block_from_ptr(ptr)
      adjust == adjust_request_size(size, ALIGN_SIZE)
      grown  == IF adjust > h.blk[b].size
                THEN block_mark_as_used(block_merge_next(h, b), b) ELSE h
  IN IF ~Moves(h, ptr, size) THEN block_trim_used(grown, b, adjust)
     ELSE IF MallocPtr(h, size) = 0 THEN h
     ELSE tlsf_free(tlsf_malloc(h, size), ptr)

-----------------------------------------------------------------------------
(* The system: users call the interface. *)

(* What users may have overwritten by the next call: the links of the      *)
(* blocks in use and the word behind them.                                 *)
Used(h) ==
  [h EXCEPT !.blk = [a \in DOMAIN @ |->
     [@[a] EXCEPT !.prev_phys_block = IF h.blk[a].prev_is_free THEN @ ELSE USER,
                  !.next_free = IF h.blk[a].free THEN @ ELSE USER,
                  !.prev_free = IF h.blk[a].free THEN @ ELSE USER]],
            !.junk = <<FALSE, FALSE>>]

Junk == {[heap EXCEPT !.junk = <<x, y>>] : x, y \in BOOLEAN}

(* buffers without p and, unless q is NULL, with q *)
Hold(p, q, size, align) ==
  [r \in (DOMAIN buffers \ {p}) \cup ({q} \ {0}) |->
     IF r = q THEN [size |-> size, align |-> align] ELSE buffers[r]]

Init ==
  /\ heap = control_construct
  /\ pools = {}
  /\ buffers = [p \in {} |-> [size |-> 0, align |-> 1]]

AddPool(p) ==
  /\ p \notin pools
  /\ heap' = tlsf_add_pool(heap, p[1], p[2])
  /\ pools' = pools \cup {p}
  /\ UNCHANGED buffers

(* a pool is only taken back when it is one free block *)
RemovePool(p) ==
  /\ p \in pools
  /\ p[1] - block_header_overhead \in DOMAIN heap.blk
  /\ LET b == p[1] - block_header_overhead IN
     heap.blk[b].free /\ heap.blk[b].size = pool_bytes(p[2])
  /\ heap' = tlsf_remove_pool(heap, p[1])
  /\ pools' = pools \ {p}
  /\ UNCHANGED buffers

Malloc(size) ==
  /\ \E h \in Junk : heap' = Used(tlsf_malloc(h, size))
  /\ buffers' = Hold(0, MallocPtr(heap, size), size, ALIGN_SIZE)
  /\ UNCHANGED pools

Memalign(align, size) ==
  /\ \E h \in Junk : heap' = Used(tlsf_memalign(h, align, size))
  /\ buffers' = Hold(0, MemalignPtr(heap, align, size), size, align)
  /\ UNCHANGED pools

Free(ptr) ==
  /\ heap' = Used(tlsf_free(heap, ptr))
  /\ buffers' = Hold(ptr, 0, 0, 1)
  /\ UNCHANGED pools

Realloc(ptr, size) ==
  LET p == ReallocPtr(heap, ptr, size) IN
  /\ \E h \in Junk : heap' = Used(tlsf_realloc(h, ptr, size))
  /\ buffers' = IF p = 0 THEN buffers ELSE Hold(ptr, p, size, ALIGN_SIZE)
  /\ UNCHANGED pools

Next ==
  \/ \E p \in Pools : AddPool(p) \/ RemovePool(p)
  \/ \E size \in Sizes : Malloc(size) \/ \E align \in Aligns : Memalign(align, size)
  \/ \E ptr \in DOMAIN buffers : Free(ptr) \/ \E size \in ReallocSizes : Realloc(ptr, size)

Spec == Init /\ [][Next]_vars

-----------------------------------------------------------------------------
(* The checks that come with the source. *)

(* the blocks of the list that starts at b *)
RECURSIVE ListFrom(_, _)
ListFrom(h, b) ==
  IF b = block_null THEN <<>> ELSE <<b>> \o ListFrom(h, h.blk[b].next_free)

(* tlsf_check finds nothing wrong with the free lists and the bitmaps. *)
tlsf_check(h) ==
  \A c \in Class :
    /\ c[1] \notin h.fl_bitmap => c \notin h.sl_bitmap
    /\ c \notin h.sl_bitmap => h.blocks[c] = block_null
    /\ c \in h.sl_bitmap =>
         /\ h.blocks[c] # block_null
         /\ \A i \in DOMAIN ListFrom(h, h.blocks[c]) :
              LET b == ListFrom(h, h.blocks[c])[i]
                  n == block_next(h, b)
              IN /\ h.blk[b].free /\ ~h.blk[b].prev_is_free
                 /\ ~h.blk[n].free /\ h.blk[n].prev_is_free
                 /\ h.blk[b].size >= block_size_min
                 /\ mapping_insert(h.blk[b].size) = c

(* The blocks that tlsf_walk_pool visits, the sentinel included. *)
RECURSIVE tlsf_walk_pool(_, _)
tlsf_walk_pool(h, b) ==
  IF block_is_last(h, b) THEN <<b>> ELSE <<b>> \o tlsf_walk_pool(h, block_next(h, b))

(* tlsf_check_pool: each block's prev_is_free is the status of the block   *)
(* before it.                                                              *)
tlsf_check_pool(h, mem) ==
  LET w == tlsf_walk_pool(h, mem - block_header_overhead) IN
  /\ ~h.blk[w[1]].prev_is_free
  /\ \A i \in 2..Len(w) : h.blk[w[i]].prev_is_free = h.blk[w[i - 1]].free

-----------------------------------------------------------------------------
(* Properties. *)

(* Sizes are whole words, which leaves the two low bits to the flags. *)
TypeOK ==
  /\ \A b \in DOMAIN heap.blk : heap.blk[b].size % ALIGN_SIZE = 0
  /\ heap.fl_bitmap \subseteq 0..(FL_INDEX_COUNT - 1)
  /\ heap.sl_bitmap \subseteq Class
  /\ DOMAIN heap.blk \subseteq Nat
  /\ pools \subseteq Pools
  /\ DOMAIN buffers \subseteq Nat

(* No tlsf_assert ever fails, whatever the user data that the headers      *)
(* share memory with.                                                      *)
AssertsHold == heap.ok

(* After any sequence of calls the free lists pass the source's own check, *)
(* and hold every free block there is, once.                               *)
FreeListsExact ==
  /\ tlsf_check(heap)
  /\ \A b \in DOMAIN heap.blk : heap.blk[b].free =>
       \E i \in DOMAIN ListFrom(heap, heap.blocks[mapping_insert(heap.blk[b].size)]) :
         ListFrom(heap, heap.blocks[mapping_insert(heap.blk[b].size)])[i] = b
  /\ \A f \in heap.fl_bitmap : \E c \in heap.sl_bitmap : c[1] = f

(* The blocks tile the pools: walking each pool from its start meets every *)
(* header there is and ends at the end of the pool, and a header that says *)
(* its predecessor is free leads back to it.                               *)
PoolsTiled ==
  /\ DOMAIN heap.blk =
       UNION {{tlsf_walk_pool(heap, p[1] - block_header_overhead)[i] :
                 i \in DOMAIN tlsf_walk_pool(heap, p[1] - block_header_overhead)} :
              p \in pools}
  /\ \A p \in pools :
       /\ tlsf_check_pool(heap, p[1])
       /\ p[1] + pool_bytes(p[2]) \in DOMAIN heap.blk
  /\ \A b \in DOMAIN heap.blk : heap.blk[b].prev_is_free =>
       block_next(heap, heap.blk[b].prev_phys_block) = b

(* The blocks in use are the users' buffers, and each has the room that    *)
(* was asked for: "a request that cannot be satisfied will leave the       *)
(* original buffer untouched" (tlsf_realloc).                              *)
BuffersKept ==
  /\ \A p \in DOMAIN buffers :
       /\ block_from_ptr(p) \in DOMAIN heap.blk
       /\ ~heap.blk[block_from_ptr(p)].free
       /\ heap.blk[block_from_ptr(p)].size >= buffers[p].size
  /\ \A b \in DOMAIN heap.blk :
       ~heap.blk[b].free /\ ~block_is_last(heap, b) => block_to_ptr(b) \in DOMAIN buffers

(* A request fails only for want of memory: a free block that is one class *)
(* larger than the request is always found.                                *)
NoFalseFailure ==
  \A size \in Sizes :
    LET adjust == adjust_request_size(size, ALIGN_SIZE) IN
    /\ adjust # 0
    /\ \E b \in DOMAIN heap.blk :
         /\ heap.blk[b].free
         /\ heap.blk[b].size * SL_INDEX_COUNT >= adjust * (SL_INDEX_COUNT + 1)
    => MallocPtr(heap, size) # 0

H == INSTANCE Heap

(* Every operation keeps the promise of Heap: aligned, disjoint buffers    *)
(* that only their own free or realloc touches.                            *)
ImplementsHeap == H!Spec
=============================================================================
