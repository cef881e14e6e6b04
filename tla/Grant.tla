------------------------------- MODULE Grant --------------------------------
(***************************************************************************)
(* Who may map which frame: kernel/task/grant.c and the system calls       *)
(* SYS_MAP, SYS_GRANT and SYS_UNMAP of kernel/task/syscall.c.              *)
(*                                                                         *)
(* The root server's address space holds every frame of the pool that has  *)
(* not been granted to anybody, and the framebuffer; others hold what is   *)
(* in their grant list.  The addresses and lengths of SYS_MAP and          *)
(* SYS_UNMAP are words as the caller gives them: neither is rounded,       *)
(* limited to user pages or kept from wrapping before pmap_map rounds      *)
(* them.  What a task writes into a frame is not modelled, also where the  *)
(* frame holds a page table.                                               *)
(***************************************************************************)
EXTENDS Integers, Sequences, SequencesExt, FiniteSets, FiniteSetsExt

CONSTANTS
  Task,         \* the threads, each with an address space of its own
  RootTask,     \* the root server's thread
  PagerOf,      \* pager_tid: [Task -> Task]
  g_frames,
  Pool,         \* the frames pmm_frame_in_pool says are the root server's
  FbStart,      \* the first frame of the framebuffer
  FbPages,      \* and how many it has
  PAGE_SIZE, PAGE_SIZE_HUGE,
  WORD,         \* 2^64: addresses and lengths are modulo this
  VPAGES,       \* 2^36: the pages that the indexes of an address tell apart
  PFNS,         \* 2^40: the frames that an entry can name
  UINT16,       \* 2^16: the values of g_refs and g_maps
  KernelPage,   \* pages under the entries that pmap_create copies: common to all
  BootPtes,     \* what the boot has mapped
  Vas, Pas, Lengths, Prots, Rights   \* the arguments of the system calls

VARIABLES
  grant_list,   \* of each task's address space: a sequence of [pfn, rights]
  g_refs, g_maps,
  ptes          \* what is mapped: [Task -> [Page -> Pte]]

grantVars == <<grant_list, g_refs, g_maps, ptes>>

Frame == 0..(g_frames - 1)
Page == 0..(VPAGES - 1)
HugePages == PAGE_SIZE_HUGE \div PAGE_SIZE
Framebuffer == FbStart..(FbStart + FbPages - 1)
AllRights == {"read", "write", "grant"}

(* A page's entry, or that of the huge page it is part of.  checked is not *)
(* in the code: a call of the kind CheckedInFull has written the entry.    *)
NoFrame == 0 - 1
NotMapped == [pfn |-> NoFrame, huge |-> FALSE, checked |-> FALSE]
Pte == [pfn : Nat, huge : BOOLEAN, checked : BOOLEAN] \cup {NotMapped}

(* What the boot guarantees, and fewer address spaces than g_refs can      *)
(* count: a count that wrapped to 0 would give a granted frame back to the *)
(* root server.                                                            *)
ASSUME GrantAssumption ==
  /\ UINT16 \in Nat \ {0}
  /\ IsFiniteSet(Task) /\ Cardinality(Task) < UINT16 /\ RootTask \in Task
  /\ g_frames \in Nat /\ PFNS \in Nat \ {0} /\ g_frames <= PFNS
  /\ FbStart \in Nat /\ FbPages \in Nat /\ Framebuffer \subseteq Frame
  /\ PAGE_SIZE \in Nat \ {0} /\ PAGE_SIZE_HUGE \in Nat \ {0} /\ PAGE_SIZE_HUGE % PAGE_SIZE = 0
  /\ VPAGES \in Nat \ {0} /\ WORD \in Nat \ {0}
  /\ Vas \subseteq 0..(WORD - 1) /\ Pas \subseteq 0..(WORD - 1) /\ Lengths \subseteq 0..(WORD - 1)
  /\ Rights \subseteq SUBSET AllRights /\ Prots \subseteq SUBSET {"read", "write"}
  /\ BootPtes \in [Task -> [Page -> {e \in Pte : ~e.checked}]]

(* the position of the entry of a frame, 0 for none *)
Entry(list, pfn) ==
  LET at == {i \in 1..Len(list) : list[i].pfn = pfn} IN IF at = {} THEN 0 ELSE Min(at)

(* Mutant of Ungranted: the root server keeps what it has granted. *)
UngrantedAlways(pfn) == TRUE

Ungranted(pfn) == g_refs[pfn] = 0

grant_pool_test(pfn) == pfn \in Frame /\ pfn \in Pool

grant_holds(t, pfn, rights) ==
  /\ pfn \in Frame
  /\ \/ t = RootTask /\ grant_pool_test(pfn) /\ Ungranted(pfn)
     \/ LET i == Entry(grant_list[t], pfn)
        IN i # 0 /\ rights \subseteq grant_list[t][i].rights

(* Mutant of Counted: a merged grant is counted as well. *)
CountedAgain(refs, pfn, merged) == [refs EXCEPT ![pfn] = (@ + 1) % UINT16]

Counted(refs, pfn, merged) == IF merged THEN refs ELSE [refs EXCEPT ![pfn] = (@ + 1) % UINT16]

Widened(list, i, rights) == [list EXCEPT ![i].rights = @ \cup rights]

(* The rights are added to the entry of the frame, or a new entry made. *)
grant_add(t, pfn, rights) ==
  LET i == Entry(grant_list[t], pfn) IN
  /\ pfn \in Frame
  /\ grant_list' = [grant_list EXCEPT ![t] =
                      IF i # 0 THEN Widened(@, i, rights)
                      ELSE Append(@, [pfn |-> pfn, rights |-> rights])]
  /\ g_refs' = Counted(g_refs, pfn, i # 0)

(* No system call drops a grant yet. *)
grant_drop(t, pfn) ==
  LET i == Entry(grant_list[t], pfn) IN
  /\ i # 0
  /\ grant_list' = [grant_list EXCEPT ![t] = RemoveAt(@, i)]
  /\ g_refs' = [g_refs EXCEPT ![pfn] = IF @ > 0 THEN @ - 1 ELSE 0]
  /\ UNCHANGED <<g_maps, ptes>>

(* grant_init, and rootserver_boot's grants of the framebuffer *)
Init ==
  /\ grant_list = [t \in Task |->
       IF t = RootTask THEN [i \in 1..FbPages |-> [pfn |-> FbStart + i - 1, rights |-> AllRights]]
       ELSE <<>>]
  /\ g_refs = [f \in Frame |-> IF f \in Framebuffer THEN 1 ELSE 0]
  /\ g_maps = [f \in Frame |-> 0]
  /\ ptes = BootPtes

Word(x) == x % WORD
Down(x, step) == x - (x % step)   \* x & ~(step - 1)

(* the values of a loop from start on, step apart, while below end *)
Loop(start, end, step) == {a \in start..(end - 1) : (a - start) % step = 0}

(* the addresses whose frames SYS_MAP looks up, and counts in the end *)
Checked(pa, size) == Loop(pa, Word(pa + size), PAGE_SIZE)

PageOf(va) == (va \div PAGE_SIZE) % VPAGES

(* where pmap_map begins and ends *)
MapFrom(va, step) == Down(va, step)

(* Mutant of MapTo: the end is rounded up one byte too far. *)
MapToNext(va, size, step) == Down(Word(va + size + step), step)

MapTo(va, size, step) == Down(Word(va + size + (step - 1)), step)

(* The table once pmap_map has been through the addresses in done, in      *)
(* order: the last of those that index a page counts.  A page that is part *)
(* of a huge one is not mapped: its entry would be written into the frame  *)
(* that the huge page begins with.                                         *)
Mapped(table, va, pa, step, done, checked) ==
  [w \in Page |->
     LET pages == step \div PAGE_SIZE
         at    == {v \in done : w \in PageOf(v)..(PageOf(v) + pages - 1)}
         huge  == step # PAGE_SIZE
         v     == Max(at)
         phys  == Word(Down(pa, step) + (v - MapFrom(va, step)))
     IN IF at = {} \/ (table[w].huge /\ ~huge) THEN table[w]
        ELSE [pfn     |-> (phys \div PAGE_SIZE + (w - PageOf(v))) % PFNS,
              huge    |-> huge,
              checked |-> checked]]

(* A change of an entry in tables that are common to all address spaces is *)
(* one in each of them.                                                    *)
InTables(target, table) ==
  [t \in Task |-> [w \in Page |-> IF t = target \/ w \in KernelPage THEN table[w] ELSE ptes[t][w]]]

(* The calls whose frames are all looked up before they are mapped: from   *)
(* the start of a page, without PROT_HUGE, up to an address that does not  *)
(* wrap.  All calls in the tree (map_page of the pager) are of this kind.  *)
CheckedInFull(va, pa, size, huge) == va % PAGE_SIZE = 0 /\ ~huge /\ pa + size < WORD

(* size bytes from va to pa on, for a task one is the pager of.  pmap_map  *)
(* has done some of the pages when it cannot get a page table and fails.   *)
SYS_MAP(cur, target, va, pa, size, huge, prot) ==
  LET step == IF huge THEN PAGE_SIZE_HUGE ELSE PAGE_SIZE
      end  == MapTo(va, size, step)
      vas  == Loop(MapFrom(va, step), end, step)
  IN
  /\ PagerOf[target] = cur
  /\ size # 0
  /\ prot # {}
  /\ \A p \in Checked(pa, size) : grant_holds(cur, p \div PAGE_SIZE, prot)
  /\ \E done \in {{v \in vas : v < stop} : stop \in vas \cup {end}} :
       /\ ptes' = InTables(target, Mapped(ptes[target], va, pa, step, done,
                                          CheckedInFull(va, pa, size, huge)))
       /\ g_maps' = [f \in Frame |->
                       IF done = vas /\ f \in {p \div PAGE_SIZE : p \in Checked(pa, size)}
                       THEN (g_maps[f] + 1) % UINT16 ELSE g_maps[f]]
  /\ UNCHANGED <<grant_list, g_refs>>

SYS_GRANT(cur, target, pa, rights) ==
  /\ rights # {}
  /\ grant_holds(cur, pa \div PAGE_SIZE, rights)
  /\ grant_add(target, pa \div PAGE_SIZE, rights)
  /\ UNCHANGED <<g_maps, ptes>>

(* Page by page; one that is mapped to frame 0 looks as if it were not     *)
(* mapped, and a huge page goes as a whole and counts as the first page of *)
(* it that is met.  With an end in the last page of the address space the  *)
(* loop has no end: that call never returns.                               *)
SYS_UNMAP(cur, target, va, size) ==
  LET pte(w)  == ptes[target][w]
      range   == {PageOf(v) : v \in Loop(Down(va, PAGE_SIZE), Word(va + size), PAGE_SIZE)}
      met     == {w \in range : pte(w).pfn \notin {NoFrame, 0}}
      unit(w) == IF pte(w).huge THEN {u \in Page : u \div HugePages = w \div HugePages} ELSE {w}
      gone(f) == Cardinality({w \in met : pte(w).pfn = f /\ w = Min(unit(w) \cap met)})
  IN
  /\ PagerOf[target] = cur
  /\ size # 0
  /\ Word(va + size) <= WORD - PAGE_SIZE
  /\ ptes' = InTables(target, [w \in Page |-> IF \E u \in met : w \in unit(u) THEN NotMapped ELSE pte(w)])
  /\ g_maps' = [f \in Frame |-> IF g_maps[f] >= gone(f) THEN g_maps[f] - gone(f) ELSE 0]
  /\ UNCHANGED <<grant_list, g_refs>>

Next ==
  \E cur, target \in Task :
    \/ \E va \in Vas, size \in Lengths :
         \/ \E pa \in Pas, huge \in BOOLEAN, prot \in Prots :
              SYS_MAP(cur, target, va, pa, size, huge, prot)
         \/ SYS_UNMAP(cur, target, va, size)
    \/ \E pa \in Pas, rights \in Rights : SYS_GRANT(cur, target, pa, rights)
    \/ \E p \in Frame : grant_drop(target, p)

Spec == Init /\ [][Next]_grantVars

-----------------------------------------------------------------------------
(* Properties. *)

(* g_refs, which decides whether the root server still holds a frame, is   *)
(* the number of address spaces the frame is granted to; an address space  *)
(* has at most one entry for a frame, so that the first one found tells    *)
(* all its rights.                                                         *)
RefsExact ==
  \A f \in Frame :
    /\ g_refs[f] = Cardinality({t \in Task : Entry(grant_list[t], f) # 0})
    /\ \A t \in Task : \A i, j \in 1..Len(grant_list[t]) :
         grant_list[t][i].pfn = f /\ grant_list[t][j].pfn = f => i = j

GrantedRights(f) ==
  UNION {UNION {e.rights : e \in {x \in ToSet(grant_list[t]) : x.pfn = f}} : t \in Task}

(* Once a frame has been granted, no sequence of grants between any tasks, *)
(* the root server included, brings up a right that nobody had: the root   *)
(* server's own hold ends with the first grant.                            *)
RightsKept == \A f \in Frame : GrantedRights(f) # {} => GrantedRights(f)' \subseteq GrantedRights(f)
RightsNeverGrow == [][RightsKept]_grantVars

(* What is granted is of the pool or of the framebuffer, through any chain *)
(* of grants; and so is the frame of every page that was mapped by a       *)
(* SYS_MAP from the start of a page, without PROT_HUGE and up to an        *)
(* address that does not wrap, whatever other calls came before and        *)
(* between and however far pmap_map got.  The frames a call with another   *)
(* argument maps are not all looked up, and nothing is said of them.       *)
KernelFramesKept ==
  \A t \in Task :
    /\ \A e \in ToSet(grant_list[t]) : e.pfn \in Pool \cup Framebuffer
    /\ \A w \in Page : ptes[t][w].checked => ptes[t][w].pfn \in Pool \cup Framebuffer
=============================================================================
