-------------------------------- MODULE Pmap --------------------------------
(***************************************************************************)
(* Page tables: kernel/arch/x86_64/pmap.c, and kernel/mm/vmm.c, which      *)
(* builds the kernel's.                                                    *)
(*                                                                         *)
(* A page is a number; N pages make a page table, N page tables a page     *)
(* directory, and so on, where the hardware has 512.  Page-table entries   *)
(* are <<frame, huge>>, or Absent; protection bits are left out.  Frames   *)
(* 0 .. Data-1 are the memory that is mapped, the ones from Data on are    *)
(* what pmm_alloc_pages has for tables.  The first root entry is the user  *)
(* half, the second the window onto all of the memory, the third the       *)
(* kernel's image.                                                         *)
(*                                                                         *)
(* The TLB is modelled by what it MAY hold: a translation, or a pointer to *)
(* a table, may be cached from the moment it is in the current tables until*)
(* it is flushed.  Every function runs with interrupts off under the lock. *)
(***************************************************************************)
EXTENDS Integers, Sequences, FiniteSets, FiniteSetsExt

CONSTANTS
  N,          \* entries of a table, pages of a huge page
  Data,       \* frames of memory: max_phys_addr
  Tables,     \* frames for page tables
  UserVA,     \* the pages ranges start at
  UserPA,     \* the frames they are mapped to
  Acpi,       \* the frames of the firmware's tables, below max_phys_addr or not
  Sections,   \* the kernel's ELF sections: [va, pages], va relative to the image
  MaxPages,   \* pages of the longest range mapped or unmapped
  MaxPmaps,   \* address spaces besides the kernel's
  OverHuge    \* does anybody map a page inside of a huge page?

VARIABLES
  mem,     \* [free, table, cr3, tlb]: the PMM, contents of frames, the CPU
  pmaps,   \* pm_root_phys of the address spaces that exist
  kernel,  \* g_kernel_pmap
  failed   \* a pmap_map of the current address space ran out of memory

vars == <<mem, pmaps, kernel, failed>>

Absent == <<>>
NoFrame == 0 - 1
Index == 0..(IF N > 3 THEN N - 1 ELSE 2)
EmptyTable == [i \in Index |-> Absent]

UserPages == 0..(N^3 - 1)
HHDM == N^3
Image == 2 * N^3
Page == 0..(3 * N^3 - 1)
Frame == 0..(Data + Tables - 1)

(* PT_INDEX is level 1, PML4_INDEX level 4. *)
Ix(l, v) == IF l = 4 THEN v \div N^3 ELSE (v \div N^(l - 1)) % N

Put(S, t, i, e) == [S EXCEPT !.table[t][i] = e]

(* The entries the hardware meets on its way to page v, by level; Absent   *)
(* below an entry that is not present or maps a huge page.                 *)
Walk(S, root, v) ==
  LET e[l \in 1..4] == IF l = 4 THEN S.table[root][Ix(4, v)]
                       ELSE LET up == e[l + 1] IN
                            IF up = Absent \/ up[2] THEN Absent
                            ELSE S.table[up[1]][Ix(l, v)]
  IN e

Huge(e) == e # Absent /\ e[2]

pmap_extract(S, root, v) ==
  LET e == Walk(S, root, v) IN
  IF Huge(e[2]) THEN e[2][1] + (v % N)
  ELSE IF e[1] = Absent THEN NoFrame ELSE e[1][1]

HugeBlock(v) == {w \in Page : w \div N = v \div N}

-----------------------------------------------------------------------------
(* pmap_map *)

(* The table below entry i of table t, a new one if there is none. *)
Descend(S, t, i) ==
  IF t = NoFrame THEN [S |-> S, t |-> NoFrame]
  ELSE IF S.table[t][i] # Absent THEN [S |-> S, t |-> S.table[t][i][1]]
  ELSE IF S.free = {} THEN [S |-> S, t |-> NoFrame]
  ELSE LET f == Min(S.free) IN
       [S |-> Put([S EXCEPT !.free = @ \ {f}, !.table[f] = EmptyTable], t, i, <<f, FALSE>>),
        t |-> f]

(* What a free frame holds does not matter: whoever takes it clears it.    *)
Release(S, frames) ==
  [S EXCEPT !.free = @ \cup frames,
            !.table = [f \in Frame |-> IF f \in frames THEN EmptyTable ELSE @[f]]]

(* Mutant of Replaced: the page table a huge page replaces is kept. *)
ReplacedKept(S, e) == S

(* the page table under a directory entry goes when a huge page replaces it *)
Replaced(S, e) == IF e # Absent /\ ~e[2] THEN Release(S, {e[1]}) ELSE S

pmap_map_page(S, root, v, p, huge) ==
  LET pdpt == Descend(S, root, Ix(4, v))
      pd   == Descend(pdpt.S, pdpt.t, Ix(3, v))
      pt   == Descend(pd.S, pd.t, Ix(2, v))
  IN
  IF pd.t = NoFrame THEN [S |-> pd.S, ok |-> FALSE]
  ELSE IF huge
  THEN [S  |-> Put(Replaced(pd.S, pd.S.table[pd.t][Ix(2, v)]), pd.t, Ix(2, v), <<p - (p % N), TRUE>>),
        ok |-> TRUE]
  ELSE IF pt.t = NoFrame THEN [S |-> pt.S, ok |-> FALSE]
  ELSE [S |-> Put(pt.S, pt.t, Ix(1, v), <<p, FALSE>>), ok |-> TRUE]

(* what the TLB may take from the current tables, of the user half *)
TablesOf(S, root, pages) ==
  {<<l, v, Walk(S, root, v)[l][1]>> :
     <<l, v>> \in {x \in (2..4) \X pages : /\ x[2] % N^(x[1] - 1) = 0
                                           /\ Walk(S, root, x[2])[x[1]] # Absent
                                           /\ ~Walk(S, root, x[2])[x[1]][2]}}
Translations(S, root, pages) ==
  {<<1, v, pmap_extract(S, root, v)>> : v \in {w \in pages : pmap_extract(S, root, w) # NoFrame}}
Cacheable(S) ==
  Translations(S, S.cr3, UserPages) \cup TablesOf(S, S.cr3, UserPages)

Refill(S) == [S EXCEPT !.tlb = @ \cup Cacheable(S)]
flush_tlb_all(S) == [S EXCEPT !.tlb = {}]
flush_tlb(S, pages) == [S EXCEPT !.tlb = {c \in @ : c[1] # 1 \/ c[2] \notin pages}]

RoundDown(x, step) == x - (x % step)

RoundUp(x, step) == RoundDown(x + step - 1, step)

pmap_map(S, root, v, p, pages, huge) ==
  LET step == IF huge THEN N ELSE 1
      from == RoundDown(v, step)
      n    == (RoundUp(v + pages, step) - from) \div step
      pa   == RoundDown(p, step)
      loop[k \in 0..n] ==
        IF k = 0 THEN [S |-> S, ok |-> TRUE]
        ELSE IF ~loop[k - 1].ok THEN loop[k - 1]
        ELSE pmap_map_page(loop[k - 1].S, root, from + (k - 1) * step, pa + (k - 1) * step, huge)
      r    == loop[n]
  IN IF r.ok /\ S.cr3 = root THEN [r EXCEPT !.S = flush_tlb_all(@)] ELSE r

-----------------------------------------------------------------------------
(* pmap_unmap *)

(* Mutant of is_table_empty: the last entry is not looked at. *)
is_table_empty_short(S, t) == \A i \in Index \ {N - 1} : S.table[t][i] = Absent

is_table_empty(S, t) == S.table[t] = EmptyTable

(* An empty table is freed and its entry, i of table up, cleared. *)
Teardown(S, t, up, i) ==
  IF is_table_empty(S, t) THEN Put(Release(S, {t}), up, i, Absent) ELSE S

(* Mutant of Freed: a teardown does not ask for a full flush. *)
FreedNever(S, pt) == FALSE

Freed(S, pt) == is_table_empty(S, pt)

(* the memory, how far to go on, and whether tables were freed *)
pmap_unmap_page(S, root, v) ==
  LET e == Walk(S, root, v)
      pdpt == e[4][1]   pd == e[3][1]   pt == e[2][1]
      Flushed(R, pages) == IF S.cr3 = root THEN flush_tlb(R, pages) ELSE R
  IN
  IF Huge(e[2])
  THEN [S |-> Flushed(Put(S, pd, Ix(2, v), Absent), HugeBlock(v)), step |-> N, freed |-> FALSE]
  ELSE IF e[1] = Absent THEN [S |-> S, step |-> 1, freed |-> FALSE]
  ELSE LET cleared == Flushed(Put(S, pt, Ix(1, v), Absent), {v})
           torn == Teardown(Teardown(Teardown(cleared, pt, pd, Ix(2, v)), pd, pdpt, Ix(3, v)),
                            pdpt, root, Ix(4, v))
       IN [S |-> torn, step |-> 1, freed |-> Freed(cleared, pt)]

pmap_unmap(S, root, v, pages) ==
  LET loop[n \in 0..pages] ==
        IF n = 0 THEN [S |-> S, step |-> v, freed |-> FALSE]
        ELSE LET r == loop[n - 1] IN
             IF r.step >= v + pages THEN r
             ELSE LET u == pmap_unmap_page(r.S, root, r.step) IN
                  [S |-> u.S, step |-> r.step + u.step, freed |-> r.freed \/ u.freed]
      r == loop[pages]
  IN IF r.freed /\ S.cr3 = root THEN flush_tlb_all(r.S) ELSE r.S

-----------------------------------------------------------------------------
(* Address spaces *)

(* the root entries every address space shares *)
KernelHalf == Index \ {0}

(* pmap_create.  The code does not check the result of pmm_alloc_pages:    *)
(* here a frame is left.                                                   *)
pmap_create ==
  LET root == Min(mem.free) IN
  /\ Cardinality(pmaps) <= MaxPmaps
  /\ mem.free # {}
  /\ mem' = [mem EXCEPT !.free = @ \ {root},
                        !.table[root] = [i \in Index |-> IF i \in KernelHalf THEN mem.table[kernel][i]
                                                         ELSE Absent]]
  /\ pmaps' = pmaps \cup {root}
  /\ UNCHANGED <<kernel, failed>>

(* pmap_destroy frees the tables of the user half. *)
pmap_destroy(r) ==
  /\ r \in pmaps \ {kernel, mem.cr3}
  /\ mem' = Release(mem, {r} \cup {t[3] : t \in TablesOf(mem, r, UserPages)})
  /\ pmaps' = pmaps \ {r}
  /\ UNCHANGED <<kernel, failed>>

(* write_cr3 drops what the TLB has; no mapping is global. *)
pmap_activate(r) ==
  /\ r \in pmaps
  /\ mem' = Refill([mem EXCEPT !.cr3 = r, !.tlb = {}])
  /\ failed' = FALSE
  /\ UNCHANGED <<pmaps, kernel>>

(* What a caller maps: nothing beyond the memory or the user half, and,    *)
(* unless OverHuge, no page of a huge page.                                *)
Mappable(r, v, p, pages, huge) ==
  /\ RoundUp(v + pages, N) <= N^3 /\ RoundUp(p + pages, N) <= Data
  /\ OverHuge \/ huge \/ \A w \in v..(v + pages - 1) : ~Huge(Walk(mem, r, w)[2])

Map(r, v, p, pages, huge) ==
  LET x == pmap_map(mem, r, v, p, pages, huge) IN
  /\ r \in pmaps \ {kernel}
  /\ Mappable(r, v, p, pages, huge)
  /\ mem' = Refill(x.S)
  /\ failed' = IF r = mem.cr3 THEN ~x.ok ELSE failed
  /\ UNCHANGED <<pmaps, kernel>>

(* What a caller unmaps: one page, or a range that does not start inside   *)
(* of a huge page, whose length the loop would add to the middle.          *)
Unmappable(r, v, pages) ==
  /\ v + pages <= N^3
  /\ pages = 1 \/ v % N = 0 \/ ~Huge(Walk(mem, r, v)[2])

Unmap(r, v, pages) ==
  /\ r \in pmaps \ {kernel}
  /\ Unmappable(r, v, pages)
  /\ mem' = Refill(pmap_unmap(mem, r, v, pages))
  /\ UNCHANGED <<pmaps, kernel, failed>>

(* acpi_init maps the tables it reads into the window, before there is any *)
(* address space but the kernel's.                                         *)
acpi_init(p) ==
  /\ pmaps = {kernel}
  /\ OverHuge \/ ~Huge(Walk(mem, kernel, HHDM + p)[2])
  /\ mem' = pmap_map(mem, kernel, HHDM + p, p, 1, FALSE).S
  /\ UNCHANGED <<pmaps, kernel, failed>>

(* the kernel's sections, each at the frame its address says *)
map_kernel(S, root) ==
  LET loop[k \in 0..Len(Sections)] ==
        IF k = 0 THEN S
        ELSE pmap_map(loop[k - 1], root, Image + Sections[k].va, Sections[k].va, Sections[k].pages, FALSE).S
  IN loop[Len(Sections)]

(* pmap_init, the window with huge pages, the kernel, pmap_activate *)
vmm_init ==
  LET boot == [free  |-> Data..(Data + Tables - 1), cr3 |-> NoFrame, tlb |-> {},
               table |-> [f \in Frame |-> EmptyTable]]
      root == Min(boot.free)
      own  == [boot EXCEPT !.free = @ \ {root}]
      all  == pmap_map(own, root, HHDM, 0, Data, TRUE).S
  IN /\ kernel = root
     /\ mem = [map_kernel(all, root) EXCEPT !.cr3 = root]

Init == vmm_init /\ pmaps = {kernel} /\ failed = FALSE

Next ==
  \/ pmap_create
  \/ \E r \in pmaps :
       \/ pmap_destroy(r)
       \/ pmap_activate(r)
       \/ \E v \in UserVA, pages \in 1..MaxPages :
            \/ Unmap(r, v, pages)
            \/ \E p \in UserPA, huge \in BOOLEAN : Map(r, v, p, pages, huge)
  \/ \E p \in Acpi : acpi_init(p)

Spec == Init /\ [][Next]_vars

-----------------------------------------------------------------------------
(* Properties. *)

(* The page tables account for every frame taken for them: each is free,   *)
(* a root, or a table under exactly one entry of one address space,        *)
(* through every failed map, replaced table, teardown and destroy.  A      *)
(* frame freed twice, leaked, or freed under a live entry would break it.  *)
TablesAccounted ==
  LET nodes == UNION {{<<r, t>> : t \in TablesOf(mem, r, IF r = kernel THEN Page ELSE UserPages)}
                      : r \in pmaps}
  IN /\ Cardinality(nodes) + Cardinality(pmaps) + Cardinality(mem.free) = Tables
     /\ {n[2][3] : n \in nodes} \cup pmaps \cup mem.free = Data..(Data + Tables - 1)

(* Whatever address space is active, the kernel finds its own memory: the  *)
(* window maps every frame, and the kernel half is the kernel's.           *)
KernelHalfShared ==
  \A r \in pmaps :
    /\ \A p \in 0..(Data - 1) : pmap_extract(mem, r, HHDM + p) = p
    /\ \A v \in Page \ UserPages : pmap_extract(mem, r, v) = pmap_extract(mem, kernel, v)

(* The TLB never holds a translation, or a pointer to a table, that the    *)
(* page tables do not have any more, unless a pmap_map of the current      *)
(* address space ran out of memory, which returns without a flush.         *)
TlbFresh == failed \/ mem.tlb \subseteq Cacheable(mem)

Space(S, r) == [v \in UserPages |-> pmap_extract(S, r, v)]

(* pmap_map maps the pages of its range, rounded to whole pages of the     *)
(* size asked for, to consecutive frames; it touches no other page and no  *)
(* other address space.  When memory runs out, a part of it is done.       *)
MapExact ==
  \A r \in pmaps \ {kernel}, v \in UserVA, p \in UserPA, pages \in 1..MaxPages, huge \in BOOLEAN :
    LET step == IF huge THEN N ELSE 1
        from == (v \div step) * step
        to   == ((v + pages + step - 1) \div step) * step
        new  == [w \in UserPages |-> IF w \in from..(to - 1) THEN (p \div step) * step + (w - from)
                                     ELSE pmap_extract(mem, r, w)]
        x    == pmap_map(mem, r, v, p, pages, huge)
    IN Mappable(r, v, p, pages, huge) =>
         /\ x.ok => Space(x.S, r) = new
         /\ \A w \in UserPages : pmap_extract(x.S, r, w) \in {new[w], pmap_extract(mem, r, w)}
         /\ \A q \in pmaps \ {r} : Space(x.S, q) = Space(mem, q)

(* pmap_unmap removes the pages of its range, with the whole of every huge *)
(* page it meets, and touches no other page and no other address space.    *)
UnmapExact ==
  \A r \in pmaps \ {kernel}, v \in UserVA, pages \in 1..MaxPages :
    LET range == v..(v + pages - 1)
        gone  == range \cup UNION {HugeBlock(w) : w \in {u \in range : Huge(Walk(mem, r, u)[2])}}
        S     == pmap_unmap(mem, r, v, pages)
    IN Unmappable(r, v, pages) =>
         /\ Space(S, r) = [w \in UserPages |-> IF w \in gone THEN NoFrame ELSE pmap_extract(mem, r, w)]
         /\ \A q \in pmaps \ {r} : Space(S, q) = Space(mem, q)

(* Page tables are written to the frames allocated for them, never to the  *)
(* memory they map: "allocate new phys page", and a huge page has "no pt"  *)
(* (pmap.c).                                                               *)
DataKept == \A f \in 0..(Data - 1) : mem.table[f] = EmptyTable
=============================================================================
