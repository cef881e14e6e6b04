------------------------------- MODULE MCLib --------------------------------
(***************************************************************************)
(* The libraries under the kernel and the root server: the TLSF heap, the  *)
(* per-CPU heaps over it, the red-black tree, the lists and the memory and *)
(* string functions.  They share no state: a behaviour is one of one part, *)
(* chosen in the first state, and the variables of the others are Off      *)
(* (the lists and the per-CPU heaps keep their first values).              *)
(***************************************************************************)
EXTENDS Kmem, List, TLC

CONSTANTS
  ALIGN_SIZE_LOG2, SL_INDEX_COUNT_LOG2, FL_INDEX_MAX, SIZE_T, Pools, Sizes, ReallocSizes, Aligns,
  MaxKey, Nil,
  MemSize, Byte

VARIABLES
  part,
  heap, pools, buffers,
  tree, members,
  bytes, done

TlsfHeap == INSTANCE Tlsf
Tree == INSTANCE RbSet WITH Node <- 1..MaxKey
Mem == INSTANCE Strings

ASSUME TlsfAssumption ==
  /\ {ALIGN_SIZE_LOG2, SL_INDEX_COUNT_LOG2} \subseteq Nat \ {0}
  /\ FL_INDEX_MAX > TlsfHeap!FL_INDEX_SHIFT
  /\ SIZE_T > TlsfHeap!block_size_max
  /\ Pools \subseteq Nat \X Nat
  /\ Sizes \cup ReallocSizes \subseteq 0..(SIZE_T - 1)
  /\ Aligns \subseteq {2^i : i \in 0..FL_INDEX_MAX}

ASSUME NilAssumption == Nil \notin 1..MaxKey

(* Words of two bytes, four classes per power of two, and the smallest     *)
(* blocks in the classes below SMALL_BLOCK_SIZE.  The first pool holds     *)
(* four smallest blocks, the second is not a whole number of words.        *)
TwoPools == {<<8, 36>>, <<50, 13>>}

Off == "off"
tlsfVars == <<heap, pools, buffers>>
treeVars == <<tree, members>>
memVars == <<bytes, done>>

TlsfOff == heap = Off /\ pools = Off /\ buffers = Off
KmemOff == KmemInit /\ free = {}   \* no block of a heap
TreeOff == tree = Off /\ members = Off
ListOff == list_init
MemOff == bytes = Off /\ done = Off

LibInit ==
  \/ part = "tlsf" /\ TlsfHeap!Init /\ KmemOff /\ TreeOff /\ ListOff /\ MemOff
  \/ part = "kmem" /\ KmemInit /\ TlsfOff /\ TreeOff /\ ListOff /\ MemOff
  \/ part = "tree" /\ Tree!Init /\ TlsfOff /\ KmemOff /\ ListOff /\ MemOff
  \/ part = "list" /\ list_init /\ TlsfOff /\ KmemOff /\ TreeOff /\ MemOff
  \/ part = "string" /\ Mem!StringInit /\ TlsfOff /\ KmemOff /\ TreeOff /\ ListOff

LibNext ==
  /\ UNCHANGED part
  /\ \/ /\ part = "tlsf" /\ TlsfHeap!Next
        /\ UNCHANGED <<kmemVars, treeVars, listVars, memVars>>
     \/ /\ part = "kmem" /\ KmemNext
        /\ UNCHANGED <<tlsfVars, treeVars, listVars, memVars>>
     \/ /\ part = "tree" /\ Tree!Next
        /\ UNCHANGED <<tlsfVars, kmemVars, listVars, memVars>>
     \/ /\ part = "list" /\ ListNext
        /\ UNCHANGED <<tlsfVars, kmemVars, treeVars, memVars>>
     \/ /\ part = "string" /\ Mem!StringNext
        /\ UNCHANGED <<tlsfVars, kmemVars, treeVars, listVars>>

libVars == <<part, tlsfVars, kmemVars, treeVars, listVars, memVars>>
LibSpec == LibInit /\ [][LibNext]_libVars

(* The CPUs are alike, and the blocks; no other part knows them. *)
KmemSymmetry == Permutations(CPU) \cup Permutations(Block)

-----------------------------------------------------------------------------
(* Properties, besides those of Kmem and List; the parts say more about    *)
(* each.                                                                   *)

(* After any sequence of tlsf_malloc, tlsf_memalign, tlsf_realloc and      *)
(* tlsf_free, whatever user data the headers overlap: no tlsf_assert has   *)
(* failed, tlsf_check finds nothing wrong, the free lists hold every free  *)
(* block once, tlsf_walk_pool meets every header up to the end of the      *)
(* pool, and the blocks in use are the buffers, with the room asked for.   *)
HeapExact ==
  part = "tlsf" => /\ TlsfHeap!TypeOK /\ TlsfHeap!AssertsHold /\ TlsfHeap!FreeListsExact
                   /\ TlsfHeap!PoolsTiled /\ TlsfHeap!BuffersKept

(* search_suitable_block finds a free block that is a class larger than    *)
(* the request.                                                            *)
NoFalseFailure == part = "tlsf" => TlsfHeap!NoFalseFailure

(* Tlsf implements Heap: aligned, disjoint buffers that only their own     *)
(* tlsf_free or tlsf_realloc touches.                                      *)
ImplementsHeap ==
  /\ part = "tlsf" => TlsfHeap!H!Init
  /\ [][part = "tlsf" => TlsfHeap!H!Next]_<<part, buffers>>

(* RB_INSERT and RB_REMOVE keep a search tree of exactly the members and   *)
(* its rank rule, so that its height is logarithmic; RB_FIND, RB_NFIND,    *)
(* RB_NEXT and RB_PREV answer as the set does.                             *)
TreeExact == part = "tree" => Tree!SearchTree /\ Tree!RankBalanced /\ Tree!SearchesExact

(* The copying functions of string.c write what a copy into a fresh array  *)
(* would, overlaps included, and nothing else; the comparing and searching *)
(* functions agree with their definitions.                                 *)
StringsExact == part = "string" => Mem!CopiesExact /\ Mem!ComparesExact
=============================================================================
