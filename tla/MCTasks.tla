------------------------------ MODULE MCTasks -------------------------------
(***************************************************************************)
(* What is built on the scheduler and the memory: futexes, grants and the  *)
(* thread table in the kernel, the ranges and the pager in the root        *)
(* server.  They share no state here: a behaviour is one of one part,      *)
(* chosen in the first state, and the variables of the others are Off      *)
(* (those of Futex, Grant and Threads keep their first values).            *)
(***************************************************************************)
EXTENDS Grant, Futex, Threads, TLC

CONSTANTS
  rt, t1, t2, t3,
  MaxAddr, Ranges, Nil,
  EHDR_SIZE, PHDR_SIZE, pool_bits, PoolFrames, STACK, STACK_END, SHARED_VA, UTCB_VA,
  CHILD_HEAP_VA, ADDRESS_END, SIZE, Requests, VMA_POOL_MAX, MaxHandOuts

VARIABLES
  part,
  tree, start, end, prev, next, first, last, vma_free,
  pc, rootmem, initrd, elf, todo, va, pool_bit, handed, ram, child, child_vmas, heap, replies, started

(* Two words whose hash is the same, one that is mapped at different       *)
(* addresses in two address spaces, and addresses that are not mapped.     *)
FutexThreads == {rt, t1, t2, t3}
Extracted ==
  [t \in FutexThreads |-> IF t = t1 THEN 0 :> 12 @@ 4 :> 20 @@ 8 :> 0
                          ELSE 0 :> 0 @@ 4 :> 20 @@ 8 :> 12]

(* An archive record, with the sizes in the eight digits of the format. *)
Hex(n) == <<0, 0, 0, 0, 0, 0, n \div 16, n % 16>>
Record(name, len, size) == [name |-> name, namesize |-> Hex(len), filesize |-> Hex(size)]
Trailer == Record("TRAILER!!!", 11, 0)
Child(size) == Record("child.elf", 10, size)

Load(flags, offset, vaddr, filesz, memsz) ==
  [type |-> "PT_LOAD", flags |-> flags, offset |-> offset, vaddr |-> vaddr,
   filesz |-> filesz, memsz |-> memsz]
Note == [Load("r", 0, 0, 1, 1) EXCEPT !.type = "PT_NOTE"]
File(phdr) == [header |-> "ok", phoff |-> 1, phdr |-> phdr]

(* Segments that begin and end inside of pages, and two headers that meet  *)
(* inside of a page.                                                       *)
Apart == File(<<Load("rx", 3, 1, 2, 2), Note, Load("rw", 5, 6, 1, 2)>>)
Adjoining == File(<<Load("rx", 2, 2, 1, 1), Load("rx", 3, 3, 2, 4)>>)
RootHeaders == <<Load("rx", 1, 1, 2, 2), Note, Load("rw", 3, 4, 1, 4)>>

(* The file comes first, behind another and before one of the same name,   *)
(* behind the end of the archive, or is too short to be a program.         *)
Archives ==
  {[archive |-> <<Child(30), Trailer>>, elf |-> Apart],
   [archive |-> <<Record("lib", 4, 5), Child(30), Child(3), Trailer>>, elf |-> Adjoining],
   [archive |-> <<Record("a", 2, 5), Trailer, Child(30)>>, elf |-> Apart],
   [archive |-> <<Child(3), Trailer>>, elf |-> Adjoining]}

(* The root server is its child's pager and its own.  The boot has mapped  *)
(* the kernel's pages.                                                     *)
GrantTasks == {rt, t1}
GrantPagers == [t \in GrantTasks |-> rt]
GrantRights == {{"read"}, {"read", "write"}}
GrantBoot ==
  [t \in GrantTasks |-> [w \in Page |->
     IF w \in KernelPage THEN [pfn |-> 0, huge |-> FALSE, checked |-> FALSE] ELSE NotMapped]]

V == INSTANCE Vma WITH Node <- 1..Ranges, Pool <- [i \in 1..Ranges |-> i]
P == INSTANCE Pager WITH RootFile <- RootHeaders, Initrds <- Archives

ASSUME RangesAssumption == MaxAddr \in Nat /\ Nil \notin 1..Ranges
ASSUME FilesAssumption ==
  P!WellFormed(RootHeaders) /\ \A i \in Archives : P!WellFormed(i.elf.phdr)

-----------------------------------------------------------------------------
Off == "off"
vmaVars == <<tree, start, end, prev, next, first, last, vma_free>>
pagerVars == <<pc, rootmem, initrd, elf, todo, va, pool_bit, handed, ram, child, child_vmas, heap,
               replies, started>>

VmaOff ==
  /\ tree = Off /\ start = Off /\ end = Off /\ prev = Off /\ next = Off
  /\ first = Off /\ last = Off /\ vma_free = Off
PagerOff ==
  /\ pc = Off /\ rootmem = Off /\ initrd = Off /\ elf = Off /\ todo = Off /\ va = Off
  /\ pool_bit = Off /\ handed = Off /\ ram = Off /\ child = Off /\ child_vmas = Off
  /\ heap = Off /\ replies = Off /\ started = Off

TasksInit ==
  /\ FutexInit /\ Init /\ ThreadsInit
  /\ \/ part \in {"futex", "grant", "thread"} /\ VmaOff /\ PagerOff
     \/ part = "vma" /\ V!Init /\ PagerOff
     \/ part = "pager" /\ P!Init /\ VmaOff

TasksNext ==
  /\ UNCHANGED part
  /\ \/ part = "futex" /\ FutexNext /\ UNCHANGED <<grantVars, threadsVars, vmaVars, pagerVars>>
     \/ part = "grant" /\ Next /\ UNCHANGED <<futexVars, threadsVars, vmaVars, pagerVars>>
     \/ part = "thread" /\ ThreadsNext /\ UNCHANGED <<futexVars, grantVars, vmaVars, pagerVars>>
     \/ part = "vma" /\ V!Next /\ UNCHANGED <<futexVars, grantVars, threadsVars, pagerVars>>
     \/ part = "pager" /\ P!Next /\ UNCHANGED <<futexVars, grantVars, threadsVars, vmaVars>>

tasksVars == <<part, futexVars, grantVars, threadsVars, vmaVars, pagerVars>>
TasksSpec == TasksInit /\ [][TasksNext]_tasksVars

-----------------------------------------------------------------------------
(* Properties, besides those of Futex, Grant and Threads; the parts say more *)
(* about each.                                                               *)

(* The list and the tree of vma_insert and vma_remove hold the same ranges *)
(* in the same order, and the free list all other nodes; the ranges are    *)
(* disjoint, vma_insert refuses exactly the overlaps, and everything once  *)
(* the nodes are used up; vma_find finds the range that holds an address.  *)
RangesExact == part = "vma" => V!ListIsTree /\ V!RangesExact /\ V!FindExact

(* From the archive to the pages: cpio_extract finds the first file of the *)
(* name where the format puts its contents; load_segment, behind the       *)
(* merging of headers in root_main, gives the child, and elf_load the root *)
(* server, the bytes of its file and zeros behind them; the child's stay   *)
(* until the pool of frames has been gone through once.                    *)
ImagesLoaded == part = "pager" => P!FileFound /\ P!ChildImageLoaded /\ P!RootImageLoaded

(* What the pager promises for as long as its resources last.  Every page  *)
(* of a range it has on record is mapped, whatever step failed.  A buffer  *)
(* serve gives out is mapped as far as asked for, and no later one         *)
(* overlaps it, as long as vma_insert takes its range: it refuses one only *)
(* when the VMA_POOL_MAX ranges are used up or the heap has run into the   *)
(* stack, and serve then gives the same address out again.  pool_alloc     *)
(* hands out every frame once before it hands out one again: until it has  *)
(* gone through the pool no two pages of the child share a frame; nothing  *)
(* is said of later.                                                       *)
BuffersBacked == part = "pager" => P!RangesBacked /\ P!BuffersApart /\ P!FramesInTurn
=============================================================================
