------------------------------ MODULE MCMemory ------------------------------
(***************************************************************************)
(* The physical memory: the page allocator (Pmm) and the page tables       *)
(* (Pmap), the latter once with long ranges in one address space and once  *)
(* with two address spaces.  They share no state here: a behaviour is one  *)
(* of one part, chosen in the first state, and the variables of the other  *)
(* part are Off.                                                           *)
(***************************************************************************)
EXTENDS Integers, Sequences

CONSTANTS
  MAX_BUDDY_ORDER, PMM_POOL_START_PFN, LOW, DescriptorsPerPage, MemoryMaps, AnyFree,
  N, Data, Acpi, Sections, OverHuge

VARIABLES
  part,
  mmap, free_list, free_count, is_free, free_pages, live,
  mem, pmaps, kernel, failed

Frames == INSTANCE Pmm
Long == INSTANCE Pmap WITH Tables <- 13, UserVA <- {0, 1, 4}, UserPA <- {0},
                           MaxPages <- 2, MaxPmaps <- 1
Two == INSTANCE Pmap WITH Tables <- 12, UserVA <- {0, 2}, UserPA <- {0},
                          MaxPages <- 1, MaxPmaps <- 2

(* A memory map is a sequence of entries; memory reaches past the kernel's *)
(* part of it, so that every buddy of a managed block has a descriptor.    *)
ASSUME PmmAssumption ==
  /\ MAX_BUDDY_ORDER \in Nat \ {0}
  /\ PMM_POOL_START_PFN % 2^(MAX_BUDDY_ORDER - 1) = 0
  /\ LOW \in Nat \ {0}
  /\ DescriptorsPerPage \in Nat \ {0}
  /\ \A m \in MemoryMaps :
       /\ \A i \in DOMAIN m : m[i].start \in Nat /\ m[i].length \in Nat /\ m[i].usable \in BOOLEAN
       /\ Frames!total_pages(m) >= PMM_POOL_START_PFN
  /\ AnyFree \in BOOLEAN

(* The window onto the memory is made of whole huge pages. *)
ASSUME PmapAssumption ==
  /\ N \in Nat \ {0, 1} /\ Data \in Nat \ {0}
  /\ Data % N = 0 /\ Data <= N^3
  /\ OverHuge \in BOOLEAN

Entry(s, n, u) == [start |-> s, length |-> n, usable |-> u]

(* A hole in the usable memory; adjacent usable entries, the first too     *)
(* small for the descriptor array; an array that ends in the middle of a   *)
(* block, and a pool that begins inside an entry.                          *)
Maps ==
  {<<Entry(0, 6, TRUE), Entry(6, 2, FALSE), Entry(8, 8, TRUE)>>,
   <<Entry(4, 1, TRUE), Entry(5, 7, TRUE), Entry(12, 4, FALSE)>>,
   <<Entry(12, 4, TRUE), Entry(4, 4, TRUE), Entry(9, 3, TRUE)>>}

(* two sections of the kernel, in different page tables *)
KernelSections == <<[va |-> 0, pages |-> 1], [va |-> 2, pages |-> 2]>>

frameVars == <<mmap, free_list, free_count, is_free, free_pages, live>>
spaceVars == <<mem, pmaps, kernel, failed>>

Off == "off"
FramesOff ==
  mmap = Off /\ free_list = Off /\ free_count = Off /\ is_free = Off /\ free_pages = Off /\ live = Off
SpacesOff == mem = Off /\ pmaps = Off /\ kernel = Off /\ failed = Off

Init ==
  \/ part = "frames" /\ Frames!Init /\ SpacesOff
  \/ part = "long" /\ Long!Init /\ FramesOff
  \/ part = "two" /\ Two!Init /\ FramesOff

Next ==
  /\ UNCHANGED part
  /\ \/ part = "frames" /\ Frames!Next /\ UNCHANGED spaceVars
     \/ part = "long" /\ Long!Next /\ UNCHANGED frameVars
     \/ part = "two" /\ Two!Next /\ UNCHANGED frameVars

vars == <<part, mmap, free_list, free_count, is_free, free_pages, live, mem, pmaps, kernel, failed>>
Spec == Init /\ [][Next]_vars

-----------------------------------------------------------------------------
(* Properties; the parts say more about each. *)

(* However pmm_alloc_pages and pmm_free_pages split and coalesce, every    *)
(* usable frame below the pool is in exactly one block, free or live, the  *)
(* descriptors and counters agree with the lists, and no frame that        *)
(* pmm_frame_in_pool leaves to the root server is in a block.              *)
FramesExact ==
  part = "frames" => /\ Frames!TypeOK /\ Frames!FramesPartitioned
                     /\ Frames!BookkeepingExact /\ Frames!PoolFramesApart

(* "allocate new phys page" (pmap.c): blocks handed out do not overlap.    *)
LiveApart == part = "frames" => Frames!LiveApart

(* The buddy allocator implements PageAlloc: aligned blocks of managed     *)
(* memory, nobody else's until freed.                                      *)
ImplementsPageAlloc ==
  /\ part = "frames" => Frames!P!Init
  /\ [][part = "frames" => Frames!P!Next]_<<part, mmap, live>>

(* Every frame taken for page tables is free, a root, or under exactly one *)
(* entry, through failed maps, replaced tables, teardowns and destroys;    *)
(* and whatever address space is active, the kernel half is the kernel's.  *)
TablesExact ==
  /\ part = "long" => Long!TablesAccounted
  /\ part = "two" => Two!TablesAccounted /\ Two!KernelHalfShared

(* The TLB holds nothing that the page tables have lost, unless a pmap_map *)
(* of the current address space ran out of memory.                         *)
TlbFresh == (part = "long" => Long!TlbFresh) /\ (part = "two" => Two!TlbFresh)

(* pmap_map maps its range to consecutive frames, pmap_unmap removes its   *)
(* range, whole huge pages included, and neither touches anything else.    *)
MapsExact ==
  /\ part = "long" => Long!MapExact /\ Long!UnmapExact
  /\ part = "two" => Two!MapExact

(* Page tables are written to the frames allocated for them, never to the  *)
(* memory they map: a huge page has "no pt" (pmap.c).                      *)
DataKept == part = "long" => Long!DataKept
=============================================================================
