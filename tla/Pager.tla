------------------------------- MODULE Pager --------------------------------
(***************************************************************************)
(* The root server: user/main.c and user/pager.c, from the boot page that  *)
(* rootserver_boot (kernel/task/init.c) hands it to the requests of the    *)
(* child it loads from the initrd.                                         *)
(*                                                                         *)
(* A step is one page handed out, or one request.  SYS_MAP may fail at any *)
(* of its calls (the kernel has no memory for page tables); the frames     *)
(* themselves are the root server's (see Grant).  The child's ranges are a *)
(* set here (see Vma), in a pool of VMA_POOL_MAX.                          *)
(***************************************************************************)
EXTENDS Image

CONSTANTS
  RootFile,         \* the root server's program headers
  Initrds,          \* [archive, elf]: the archives, with what is under child.elf
  pool_bits,        \* frames
  PoolFrames,       \* those whose bit is set
  STACK, STACK_END, \* the child's stack, in addresses
  SHARED_VA, UTCB_VA, CHILD_HEAP_VA,
  ADDRESS_END,      \* behind every page that is mapped
  SIZE,             \* 2^64, at which a size wraps
  Requests,         \* the sizes the child asks for
  VMA_POOL_MAX,
  MaxHandOuts       \* bound on the frames handed out

VARIABLES
  pc,        \* where the root server is
  rootmem,   \* the root server's image: address -> byte
  initrd,
  elf,       \* the file found
  todo,      \* the segments still to load
  va,        \* the next page of the segment or stack
  pool_bit,
  handed,    \* how often each frame has been handed out; not in the code
  ram,       \* what the frames hold
  child,     \* the child's address space: page -> frame
  child_vmas,
  heap,
  replies,   \* addresses given to the child: [at, bytes, kept]; not in the code
  started

pagerVars == <<pc, rootmem, initrd, elf, todo, va, pool_bit, handed, ram, child, child_vmas, heap,
               replies, started>>

NoFrame == 0 - 1
PFN == 0..(pool_bits - 1)
ChildPage == {a \in 0..(ADDRESS_END - 1) : a % PAGE_SIZE = 0}
HandOuts == FoldFunction(+, 0, handed)

(* pager_init *)
Init ==
  /\ pc = "boot"
  /\ rootmem = <<>>
  /\ initrd \in Initrds
  /\ elf = <<>> /\ todo = <<>> /\ va = 0
  /\ pool_bit = 0
  /\ handed = [f \in PFN |-> 0]
  /\ ram = [f \in PFN |-> [i \in 0..(PAGE_SIZE - 1) |-> Junk]]
  /\ child = [a \in ChildPage |-> NoFrame]
  /\ child_vmas = {}
  /\ heap = CHILD_HEAP_VA
  /\ replies = <<>>
  /\ started = FALSE

JunkPage == [i \in 0..(PAGE_SIZE - 1) |-> Junk]

(* elf_load, each page into a frame just allocated *)
elf_load(phdr) ==
  LET load == SelectSeq(phdr, LAMBDA p : p.type = "PT_LOAD")
      Put(m, ph) == [x \in DOMAIN m \cup UNION {a..(a + PAGE_SIZE - 1) : a \in PagesOf(ph)} |->
                       LET a == AlignDown(x, PAGE_SIZE) IN
                       IF a \in PagesOf(ph) THEN elf_load_page(JunkPage, ph, a)[x - a] ELSE m[x]]
  IN FoldLeft(Put, <<>>, load)

(* The kernel loads and starts the root server; any step that fails halts. *)
rootserver_boot ==
  /\ pc = "boot"
  /\ \/ pc' = "find" /\ rootmem' = elf_load(RootFile)
     \/ pc' = "end" /\ UNCHANGED rootmem
  /\ UNCHANGED <<initrd, elf, todo, va, pool_bit, handed, ram, child, child_vmas, heap, replies, started>>

(* the next set bit from b on, around the end; there is one *)
NextBit(b) ==
  LET dist(f) == (f - b + pool_bits) % pool_bits
  IN CHOOSE f \in PoolFrames : \A g \in PoolFrames : dist(f) <= dist(g)

(* the frame pool_alloc takes, and the bookkeeping it leaves *)
Frame == NextBit(IF pool_bit >= pool_bits THEN 0 ELSE pool_bit)
pool_alloc ==
  /\ HandOuts < MaxHandOuts
  /\ PoolFrames # {}
  /\ pool_bit' = Frame + 1
  /\ handed' = [handed EXCEPT ![Frame] = @ + 1]

(* frame_zero; scratch is mapped and unmapped again, unless the map fails *)
frame_zero == ram' = [ram EXCEPT ![Frame] = Zeroed]

(* A SYS_MAP fails: root_main goes to serve a child that never runs. *)
Fails ==
  /\ pc' = "serve"
  /\ UNCHANGED <<rootmem, initrd, elf, todo, va, child, child_vmas, heap, replies, started>>

(* cpio_extract, elf_check, TC_CREATE *)
Find ==
  LET file == cpio_extract(initrd.archive, "child.elf")
      ok   == file.base >= 0 /\ elf_check(initrd.elf, file.size)
  IN
  /\ pc = "find"
  /\ \/ ok /\ pc' = "load" /\ elf' = initrd.elf /\ todo' = Segments(initrd.elf.phdr)
     \/ pc' = "serve" /\ UNCHANGED <<elf, todo>>    \* or TC_CREATE fails
  /\ va' = IF todo' = <<>> THEN 0 ELSE PageStart(todo'[1])
  /\ UNCHANGED <<rootmem, initrd, pool_bit, handed, ram, child, child_vmas, heap, replies, started>>

(* vma_insert: refuses an overlap, and fails when the pool is used up.     *)
Insertable(s, e) ==
  /\ \A r \in child_vmas : r.end <= s \/ e <= r.start
  /\ \A r \in child_vmas : r.start # s
  /\ Cardinality(child_vmas) < VMA_POOL_MAX
Inserted(s, e) == child_vmas \cup {[start |-> s, end |-> e]}

(* One page of load_segment. *)
LoadPage ==
  LET ph == todo[1] IN
  /\ pc = "load" /\ todo # <<>> /\ va < PageEnd(ph)
  /\ pool_alloc
  /\ \/ /\ ram' = [ram EXCEPT ![Frame] = load_page(ph, va)]
        /\ child' = [child EXCEPT ![va] = Frame]
        /\ va' = va + PAGE_SIZE
        /\ UNCHANGED <<pc, rootmem, initrd, elf, todo, child_vmas, heap, replies, started>>
     \/ \E content \in {ram[Frame], Zeroed, load_page(ph, va)} :
          ram' = [ram EXCEPT ![Frame] = content] /\ Fails

(* The segment is done, or the last one was. *)
LoadDone ==
  /\ pc = "load"
  /\ IF todo = <<>> THEN /\ pc' = "stack" /\ va' = STACK
                         /\ UNCHANGED <<todo, child_vmas>>
     ELSE LET ph == todo[1] IN
          /\ va >= PageEnd(ph)
          /\ IF Insertable(PageStart(ph), PageEnd(ph))
             THEN /\ child_vmas' = Inserted(PageStart(ph), PageEnd(ph))
                  /\ todo' = Tail(todo)
                  /\ va' = IF Len(todo) > 1 THEN PageStart(todo[2]) ELSE 0
                  /\ UNCHANGED pc
             ELSE pc' = "serve" /\ UNCHANGED <<todo, va, child_vmas>>
  /\ UNCHANGED <<rootmem, initrd, elf, pool_bit, handed, ram, child, heap, replies, started>>

(* One page of map_stack, and its range after the last. *)
StackPage ==
  /\ pc = "stack" /\ va < STACK_END
  /\ pool_alloc
  /\ \/ /\ frame_zero
        /\ child' = [child EXCEPT ![va] = Frame]
        /\ va' = va + PAGE_SIZE
        /\ UNCHANGED <<pc, rootmem, initrd, elf, todo, child_vmas, heap, replies, started>>
     \/ (frame_zero \/ UNCHANGED ram) /\ Fails

StackDone ==
  /\ pc = "stack" /\ va >= STACK_END
  /\ IF Insertable(STACK, STACK_END)
     THEN pc' = "shared" /\ child_vmas' = Inserted(STACK, STACK_END)
     ELSE pc' = "serve" /\ UNCHANGED child_vmas
  /\ UNCHANGED <<rootmem, initrd, elf, todo, va, pool_bit, handed, ram, child, heap, replies, started>>

(* map_shared and map_utcb map a page without a range; map_utcb writes the *)
(* tids into it.                                                           *)
MapOne(here, at, content, then) ==
  /\ pc = here
  /\ pool_alloc
  /\ \/ /\ ram' = [ram EXCEPT ![Frame] = content]
        /\ child' = [child EXCEPT ![at] = Frame]
        /\ pc' = then
        /\ UNCHANGED <<rootmem, initrd, elf, todo, va, child_vmas, heap, replies, started>>
     \/ (frame_zero \/ UNCHANGED ram) /\ Fails
     \/ \* the child has the page, but writing it fails
        /\ here = "utcb"
        /\ frame_zero
        /\ child' = [child EXCEPT ![at] = Frame]
        /\ pc' = "serve"
        /\ UNCHANGED <<rootmem, initrd, elf, todo, va, child_vmas, heap, replies, started>>

map_shared == MapOne("shared", SHARED_VA, Zeroed, "utcb")
map_utcb == MapOne("utcb", UTCB_VA, [Zeroed EXCEPT ![0] = 1], "start")

(* EXR_SET_ENTRY and EXR_ACTIVATE *)
Start ==
  /\ pc = "start"
  /\ pc' = "serve" /\ started' = TRUE
  /\ UNCHANGED <<rootmem, initrd, elf, todo, va, pool_bit, handed, ram, child, child_vmas, heap, replies>>

-----------------------------------------------------------------------------
(* serve *)

PageAt(i) == heap + (i - 1) * PAGE_SIZE

(* the pager after k pages handed out and mapped from the heap on *)
Mapped(k) ==
  LET Out(S, i) ==
        LET f == NextBit(IF S.bit >= pool_bits THEN 0 ELSE S.bit)
        IN [bit |-> f + 1, handed |-> [S.handed EXCEPT ![f] = @ + 1],
            ram |-> [S.ram EXCEPT ![f] = Zeroed],
            child |-> [S.child EXCEPT ![PageAt(i)] = f]]
      at[i \in 0..k] == IF i = 0 THEN [bit |-> pool_bit, handed |-> handed, ram |-> ram, child |-> child]
                        ELSE Out(at[i - 1], i)
  IN at[k]

Become(S) == pool_bit' = S.bit /\ handed' = S.handed /\ ram' = S.ram /\ child' = S.child

Pages(bytes) == ((bytes + PAGE_SIZE - 1) % SIZE) \div PAGE_SIZE

(* Mutant of Advanced: the heap stays where it is. *)
AdvancedNot(pages) == heap

Advanced(pages) == heap + pages * PAGE_SIZE

(* KOHARU_REQ_ALLOC and KOHARU_REQ_MAP.  The range is kept after the reply *)
(* is made up: a refused range is answered with its address all the same.  *)
(* The heap has no limit: its pages replace the shared page and the UTCB,  *)
(* which have no range, when it gets there.                                *)
Alloc(bytes) ==
  LET pages == Pages(bytes)
      end   == heap + pages * PAGE_SIZE
      kept  == Insertable(heap, end)
  IN
  /\ pc = "serve" /\ started
  /\ HandOuts + pages <= MaxHandOuts
  /\ \/ /\ Become(Mapped(pages))
        /\ replies' = Append(replies, [at |-> heap, bytes |-> bytes, kept |-> kept])
        /\ child_vmas' = IF kept THEN Inserted(heap, end) ELSE child_vmas
        /\ heap' = IF kept THEN Advanced(pages) ELSE heap
     \/ \* a map of a page fails, the one to clear it or the child's: the answer is 0
        /\ \E k \in 1..pages : \E content \in {Mapped(k - 1).ram, Mapped(k).ram} :
             Become([Mapped(k) EXCEPT !.child = Mapped(k - 1).child, !.ram = content])
        /\ UNCHANGED <<replies, child_vmas, heap>>
  /\ UNCHANGED <<pc, rootmem, initrd, elf, todo, va, started>>

(* KOHARU_REQ_EXIT *)
Exit ==
  /\ pc = "serve" /\ started
  /\ pc' = "end"
  /\ UNCHANGED <<rootmem, initrd, elf, todo, va, pool_bit, handed, ram, child, child_vmas, heap, replies, started>>

Next ==
  \/ rootserver_boot \/ Find \/ LoadPage \/ LoadDone \/ StackPage \/ StackDone
  \/ map_shared \/ map_utcb \/ Start
  \/ \E bytes \in Requests : Alloc(bytes)
  \/ Exit

-----------------------------------------------------------------------------
(* Properties. *)

(* cpio_extract finds the first file of the name, where the format of the  *)
(* archive puts its contents, or nothing when there is none before the end.*)
FileFound ==
  LET a     == initrd.archive
      hits  == {i \in 1..Len(a) : a[i].name = "child.elf" /\ \A j \in 1..i : a[j].name # "TRAILER!!!"}
      first == Min(hits)
      got   == cpio_extract(a, "child.elf")
  IN IF hits = {} THEN got = NotFound
     ELSE /\ got.base = PadFour(Placed(a)[first] + HEADER + parse_hex8(a[first].namesize))
          /\ got.size = parse_hex8(a[first].filesize)

ByteOf(x) == ram[child[AlignDown(x, PAGE_SIZE)]][x % PAGE_SIZE]

(* When the child starts, every address of every segment of its file holds *)
(* the file's byte, or 0 behind the file's contents, across page borders,  *)
(* headers that share a page and were merged, and everything mapped since, *)
(* as long as the pool has not been gone through once.                     *)
ChildImageLoaded ==
  started /\ HandOuts <= Cardinality(PoolFrames) =>
    \A x \in Addresses(elf.phdr) : ByteOf(x) = Expected(elf.phdr, x)

(* elf_load does the same for the root server, into frames that were not   *)
(* cleared.                                                                *)
RootImageLoaded ==
  pc \notin {"boot", "end"} =>
    \A x \in Addresses(RootFile) : rootmem[x] = Expected(RootFile, x)

(* The cursor goes round the pool: no frame is handed out a second time    *)
(* before all were handed out once, so until then no two pages of the      *)
(* child share a frame, whatever failed in between.                        *)
FramesInTurn ==
  /\ \A f, g \in PoolFrames : handed[f] <= handed[g] + 1
  /\ HandOuts <= Cardinality(PoolFrames) =>
       \A a, b \in ChildPage : child[a] = child[b] /\ child[a] # NoFrame => a = b

(* Every page of every range the pager has on record is mapped. *)
RangesBacked ==
  \A r \in child_vmas : \A a \in ChildPage \cap (r.start..(r.end - 1)) : child[a] # NoFrame

(* A buffer given to the child is mapped as far as the child asked for,    *)
(* and no later one overlaps it, unless vma_insert refused its range (the  *)
(* address is in the reply by then and is given again).  A range is        *)
(* refused only when the VMA_POOL_MAX ranges are used up or the buffer     *)
(* runs into the stack.                                                    *)
BuffersApart ==
  \A i \in 1..Len(replies) :
    LET r   == replies[i]
        end == r.at + r.bytes
    IN /\ \A x \in r.at..(end - 1) : child[AlignDown(x, PAGE_SIZE)] # NoFrame
       /\ r.kept => \A j \in (i + 1)..Len(replies) : end <= replies[j].at
       /\ ~r.kept => Cardinality(child_vmas) = VMA_POOL_MAX \/ end > STACK
=============================================================================
