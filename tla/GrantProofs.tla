---------------------------- MODULE GrantProofs -----------------------------
(* The counts of grants are exact, rights do not grow, no frame of the     *)
(* kernel is granted, and none is mapped by a call whose frames are all    *)
(* looked up, for every number of tasks and frames, every pool, all sizes  *)
(* of pages and words and all arguments of the system calls.               *)
EXTENDS Grant, SequenceTheorems, FiniteSetTheorems, WellFoundedInduction, TLAPS

GrantEntry == [pfn : Frame, rights : SUBSET AllRights]

Pfns(list) == {list[i].pfn : i \in 1..Len(list)}

Has(list, f, x) == \E i \in 1..Len(list) : list[i].pfn = f /\ x \in list[i].rights

Unique(list) == \A i, j \in 1..Len(list) : list[i].pfn = list[j].pfn => i = j

Holders(f) == {t \in Task : f \in Pfns(grant_list[t])}

Given == Pool \cup Framebuffer

(* Entries that a checked call wrote name a frame that may be given away. *)
GivenPte == {e \in Pte : e.checked => e.pfn \in Given}

(* The inductive invariant: an address space has one entry for a frame,    *)
(* g_refs counts the entries, and only frames that may be given away are   *)
(* in a list or in the entry of a page that a checked call has mapped.     *)
Inv ==
  /\ grant_list \in [Task -> Seq(GrantEntry)]
  /\ g_refs \in [Frame -> Nat]
  /\ \A t \in Task : Unique(grant_list[t]) /\ Pfns(grant_list[t]) \subseteq Given
  /\ \A f \in Frame : g_refs[f] = Cardinality(Holders(f))
  /\ ptes \in [Task -> [Page -> GivenPte]]

-----------------------------------------------------------------------------
(* Lists of entries. *)

(* A set of positions that is not empty has a first one. *)
LEMMA MinExists ==
  ASSUME NEW S \in SUBSET Nat, S # {}
  PROVE  Min(S) \in S /\ \A x \in S : Min(S) <= x
<1>1. PICK x \in S : \A y \in S : ~(<<y, x>> \in OpToRel(<, Nat))
  BY NatLessThanWellFounded, WFMin
<1>2. ASSUME NEW y \in S PROVE x <= y
  <2>1. <<y, x>> \in Nat \X Nat /\ <<y, x>>[1] = y /\ <<y, x>>[2] = x
    OBVIOUS
  <2>2. y < x => <<y, x>> \in OpToRel(<, Nat)
    BY <2>1, Zenon DEF OpToRel
  <2>3. ~(y < x)
    BY <1>1, <2>2, Zenon
  <2> QED BY <2>3
<1> QED BY <1>2 DEF Min

(* Entry finds the entry of a frame exactly when there is one. *)
LEMMA EntryFound ==
  ASSUME NEW list \in Seq(GrantEntry), NEW pfn
  PROVE  /\ Entry(list, pfn) = 0 <=> pfn \notin Pfns(list)
         /\ Entry(list, pfn) # 0 => /\ Entry(list, pfn) \in 1..Len(list)
                                    /\ list[Entry(list, pfn)].pfn = pfn
<1> DEFINE at == {i \in 1..Len(list) : list[i].pfn = pfn}
<1>1. at \in SUBSET Nat /\ (at = {} <=> pfn \notin Pfns(list))
  BY DEF Pfns
<1>2. at # {} => Min(at) \in at
  BY <1>1, MinExists
<1> QED BY <1>1, <1>2 DEF Entry

(* grant_add to an entry that is there changes no frame. *)
LEMMA MergedList ==
  ASSUME NEW list \in Seq(GrantEntry), NEW i \in 1..Len(list), NEW rights \in SUBSET AllRights
  PROVE  LET new == Widened(list, i, rights)
         IN /\ new \in Seq(GrantEntry) /\ Pfns(new) = Pfns(list) /\ (Unique(list) => Unique(new))
            /\ \A f, x : Has(new, f, x) => Has(list, f, x) \/ (f = list[i].pfn /\ x \in rights)
<1> DEFINE e   == [list[i] EXCEPT !.rights = @ \cup rights]
           new == Widened(list, i, rights)
<1>1. list[i] \in GrantEntry
  BY ElementOfSeq
<1>2. e \in GrantEntry /\ e.pfn = list[i].pfn /\ e.rights = list[i].rights \cup rights
  BY <1>1 DEF GrantEntry
<1>3. new = [list EXCEPT ![i] = e]
  BY DEF Widened
<1>4. /\ new \in Seq(GrantEntry)
      /\ Len(new) = Len(list)
      /\ \A j \in 1..Len(list) : new[j] = IF j = i THEN e ELSE list[j]
  BY <1>2, <1>3, ExceptSeq
<1>5. \A j \in 1..Len(list) : new[j].pfn = list[j].pfn
  BY <1>2, <1>4
<1> HIDE DEF new
<1>6. Pfns(new) = Pfns(list) /\ (Unique(list) => Unique(new))
  BY <1>4, <1>5 DEF Pfns, Unique
<1> HIDE DEF e
<1>7. ASSUME NEW f, NEW x, Has(new, f, x)
      PROVE  Has(list, f, x) \/ (f = list[i].pfn /\ x \in rights)
  <2>1. PICK j \in 1..Len(list) : new[j].pfn = f /\ x \in new[j].rights
    BY <1>4, <1>7 DEF Has
  <2>2. CASE j = i
    BY <1>2, <1>4, <2>1, <2>2 DEF Has
  <2>3. CASE j # i
    BY <1>4, <2>1, <2>3 DEF Has
  <2> QED BY <2>2, <2>3
<1> QED BY <1>4, <1>6, <1>7 DEF new

(* grant_add of a frame that has no entry yet. *)
LEMMA AppendedList ==
  ASSUME NEW list \in Seq(GrantEntry), NEW e \in GrantEntry, e.pfn \notin Pfns(list)
  PROVE  /\ Append(list, e) \in Seq(GrantEntry)
         /\ Pfns(Append(list, e)) = Pfns(list) \cup {e.pfn}
         /\ Unique(list) => Unique(Append(list, e))
         /\ \A f, x : Has(Append(list, e), f, x) => Has(list, f, x) \/ (f = e.pfn /\ x \in e.rights)
<1> DEFINE new == Append(list, e)
<1>1. /\ new \in Seq(GrantEntry)
      /\ Len(new) = Len(list) + 1
      /\ \A j \in 1..Len(list) : new[j] = list[j]
      /\ new[Len(list) + 1] = e
      /\ Len(list) \in Nat
  BY AppendProperties, LenProperties
<1> HIDE DEF new
<1>2. \A j \in 1..Len(new) : j \in 1..Len(list) \/ j = Len(list) + 1
  BY <1>1
<1>3. Pfns(new) = Pfns(list) \cup {e.pfn}
  BY <1>1, <1>2 DEF Pfns
<1>4. \A j \in 1..Len(list) : list[j].pfn # e.pfn
  BY DEF Pfns
<1>5. Unique(list) => Unique(new)
  BY <1>1, <1>2, <1>4 DEF Unique
<1>6. ASSUME NEW f, NEW x, Has(new, f, x)
      PROVE  Has(list, f, x) \/ (f = e.pfn /\ x \in e.rights)
  <2>1. PICK j \in 1..Len(new) : new[j].pfn = f /\ x \in new[j].rights
    BY <1>6 DEF Has
  <2> QED BY <1>1, <1>2, <2>1 DEF Has
<1> QED BY <1>1, <1>3, <1>5, <1>6 DEF new

(* grant_drop takes out the only entry of a frame. *)
LEMMA RemovedList ==
  ASSUME NEW list \in Seq(GrantEntry), Unique(list), NEW i \in 1..Len(list)
  PROVE  /\ RemoveAt(list, i) \in Seq(GrantEntry)
         /\ Pfns(RemoveAt(list, i)) = Pfns(list) \ {list[i].pfn}
         /\ Unique(RemoveAt(list, i))
         /\ \A f, x : Has(RemoveAt(list, i), f, x) => Has(list, f, x)
<1> DEFINE a   == SubSeq(list, 1, i - 1)
           b   == SubSeq(list, i + 1, Len(list))
           new == RemoveAt(list, i)
<1>1. Len(list) \in Nat /\ \A j \in 1..Len(list) : list[j] \in GrantEntry
  BY LenProperties, ElementOfSeq
<1>2. a \in Seq(GrantEntry) /\ Len(a) = i - 1 /\ \A j \in 1..(i - 1) : a[j] = list[j]
  BY <1>1, SubSeqProperties
<1>3. /\ b \in Seq(GrantEntry) /\ Len(b) = Len(list) - i
      /\ \A j \in 1..(Len(list) - i) : b[j] = list[i + j]
  BY <1>1, SubSeqProperties
<1>4. new = a \o b
  BY DEF RemoveAt
<1>5. /\ new \in Seq(GrantEntry) /\ Len(new) = Len(list) - 1
      /\ \A j \in 1..(Len(list) - 1) : new[j] = IF j < i THEN list[j] ELSE list[j + 1]
  <2>1. /\ a \o b \in Seq(GrantEntry) /\ Len(a \o b) = Len(a) + Len(b)
        /\ \A j \in 1..(Len(a) + Len(b)) : (a \o b)[j] = IF j <= Len(a) THEN a[j] ELSE b[j - Len(a)]
    BY <1>2, <1>3, ConcatProperties
  <2> HIDE DEF a, b, new
  <2>2. Len(a) + Len(b) = Len(list) - 1
    BY <1>1, <1>2, <1>3
  <2>3. ASSUME NEW j \in 1..(Len(list) - 1)
        PROVE  new[j] = IF j < i THEN list[j] ELSE list[j + 1]
    <3>1. CASE j < i
      BY <3>1, <1>1, <1>2, <1>4, <2>1, <2>2
    <3>2. CASE j >= i
      <4>1. new[j] = b[j - (i - 1)] /\ j - (i - 1) \in 1..(Len(list) - i)
        BY <3>2, <1>1, <1>2, <1>4, <2>1, <2>2, SMTT(30)
      <4>2. b[j - (i - 1)] = list[i + (j - (i - 1))]
        BY <4>1, <1>3
      <4>3. i + (j - (i - 1)) = j + 1
        BY <1>1
      <4> QED BY <3>2, <4>1, <4>2, <4>3
    <3> QED BY <3>1, <3>2, <1>1
  <2> QED BY <2>1, <2>2, <2>3, <1>4
<1> HIDE DEF a, b, new
<1>6. Unique(new)
  <2> SUFFICES ASSUME NEW j \in 1..(Len(list) - 1), NEW k \in 1..(Len(list) - 1),
                      new[j].pfn = new[k].pfn
               PROVE  j = k
    BY <1>5, SMTT(30) DEF Unique
  <2> DEFINE Old(l) == IF l < i THEN l ELSE l + 1
  <2>1. Old(j) \in 1..Len(list) /\ Old(k) \in 1..Len(list)
    BY <1>1
  <2>2. list[Old(j)].pfn = list[Old(k)].pfn
    BY <1>1, <1>5, SMTT(30)
  <2>3. Old(j) = Old(k)
    BY <2>1, <2>2 DEF Unique
  <2> QED BY <2>3, <1>1
<1>7. Pfns(new) \subseteq Pfns(list) \ {list[i].pfn}
  BY <1>1, <1>5, SMTT(30) DEF Unique, Pfns
<1>8. Pfns(list) \ {list[i].pfn} \subseteq Pfns(new)
  <2> SUFFICES ASSUME NEW k \in 1..Len(list), list[k].pfn # list[i].pfn
               PROVE  \E j \in 1..Len(new) : new[j].pfn = list[k].pfn
    BY DEF Pfns
  <2>1. CASE k < i
    BY <2>1, <1>1, <1>5
  <2>2. CASE k > i
    <3>1. k - 1 \in 1..(Len(list) - 1) /\ ~(k - 1 < i) /\ (k - 1) + 1 = k
      BY <2>2, <1>1
    <3> QED BY <3>1, <1>5
  <2> QED BY <2>1, <2>2, <1>1
<1>9. ASSUME NEW f, NEW x, Has(new, f, x) PROVE Has(list, f, x)
  <2>1. PICK j \in 1..(Len(list) - 1) : new[j].pfn = f /\ x \in new[j].rights
    BY <1>5, <1>9 DEF Has
  <2>2. j \in 1..Len(list) /\ j + 1 \in 1..Len(list)
    BY <1>1
  <2> QED BY <1>5, <2>1, <2>2 DEF Has
<1> QED BY <1>5, <1>6, <1>7, <1>8, <1>9 DEF new

-----------------------------------------------------------------------------
(* The invariant. *)

LEMMA InvInit == Init => Inv
<1> SUFFICES ASSUME Init PROVE Inv
  OBVIOUS
<1> USE GrantAssumption
<1> DEFINE root == [i \in 1..FbPages |-> [pfn |-> FbStart + i - 1, rights |-> AllRights]]
<1>1. ASSUME NEW i \in 1..FbPages PROVE root[i] \in GrantEntry /\ root[i].pfn \in Framebuffer
  <2>1. FbStart + i - 1 \in Framebuffer
    BY DEF Framebuffer
  <2> QED BY <2>1 DEF GrantEntry
<1>2. root \in Seq(GrantEntry) /\ Len(root) = FbPages
  <2>1. root \in [1..FbPages -> GrantEntry]
    BY <1>1
  <2> HIDE DEF root
  <2>2. root \in Seq(GrantEntry)
    BY <2>1, SeqDef
  <2>3. DOMAIN root = 1..FbPages /\ DOMAIN root = 1..Len(root) /\ Len(root) \in Nat
    BY <2>1, <2>2, LenProperties
  <2> QED BY <2>2, <2>3
<1>3. Unique(root)
  BY <1>2 DEF Unique
<1>4. Pfns(root) = Framebuffer
  <2>1. Pfns(root) \subseteq Framebuffer
    BY <1>1, <1>2 DEF Pfns
  <2>2. ASSUME NEW f \in Framebuffer PROVE f \in Pfns(root)
    <3>1. f - FbStart + 1 \in 1..FbPages /\ FbStart + (f - FbStart + 1) - 1 = f
      BY DEF Framebuffer
    <3> QED BY <3>1, <1>2 DEF Pfns
  <2> QED BY <2>1, <2>2
<1>5. /\ <<>> \in Seq(GrantEntry) /\ Unique(<<>>) /\ Pfns(<<>>) = {}
  BY EmptySeq DEF Unique, Pfns
<1> HIDE DEF root
<1>6. grant_list = [t \in Task |-> IF t = RootTask THEN root ELSE <<>>]
  BY DEF Init, root
<1>7. grant_list \in [Task -> Seq(GrantEntry)]
  BY <1>2, <1>5, <1>6
<1>8. g_refs \in [Frame -> Nat]
  BY DEF Init
<1>9. \A t \in Task : Unique(grant_list[t]) /\ Pfns(grant_list[t]) \subseteq Given
  BY <1>3, <1>4, <1>5, <1>6 DEF Given
<1>10. ASSUME NEW f \in Frame PROVE g_refs[f] = Cardinality(Holders(f))
  <2>1. CASE f \in Framebuffer
    <3>1. Holders(f) = {RootTask}
      BY <2>1, <1>4, <1>5, <1>6 DEF Holders
    <3> QED BY <2>1, <3>1, FS_Singleton DEF Init
  <2>2. CASE f \notin Framebuffer
    <3>1. Holders(f) = {}
      BY <2>2, <1>4, <1>5, <1>6 DEF Holders
    <3> QED BY <2>2, <3>1, FS_EmptySet DEF Init
  <2> QED BY <2>1, <2>2
<1>11. ptes \in [Task -> [Page -> GivenPte]]
  BY DEF Init, GivenPte
<1> QED BY <1>7, <1>8, <1>9, <1>10, <1>11 DEF Inv

(* Who passes grant_holds has a frame that may be given away. *)
LEMMA HeldIsGiven ==
  ASSUME Inv, NEW t \in Task, NEW pfn, NEW rights, grant_holds(t, pfn, rights)
  PROVE  pfn \in Frame /\ pfn \in Given
<1>1. CASE t = RootTask /\ grant_pool_test(pfn)
  BY <1>1 DEF grant_pool_test, Given
<1>2. CASE Entry(grant_list[t], pfn) # 0
  <2>1. grant_list[t] \in Seq(GrantEntry) /\ Pfns(grant_list[t]) \subseteq Given
    BY DEF Inv
  <2>2. pfn \in Pfns(grant_list[t])
    BY <1>2, <2>1, EntryFound, SMTT(30)
  <2> QED BY <2>1, <2>2 DEF grant_holds
<1> QED BY <1>1, <1>2 DEF grant_holds

(* The holders of a frame, as many as its count, when one list changes. *)
LEMMA HoldersOne ==
  ASSUME Inv, NEW t \in Task, NEW pfn \in Frame, NEW new \in Seq(GrantEntry),
         Unique(new), Pfns(new) \subseteq Given,
         grant_list' = [grant_list EXCEPT ![t] = new],
         g_refs' \in [Frame -> Nat], ptes' = ptes,
         \A f \in Frame \ {pfn} : g_refs'[f] = g_refs[f],
         \/ Pfns(new) = Pfns(grant_list[t]) /\ g_refs'[pfn] = g_refs[pfn]
         \/ /\ Pfns(new) = Pfns(grant_list[t]) \cup {pfn} /\ pfn \notin Pfns(grant_list[t])
            /\ g_refs'[pfn] = (g_refs[pfn] + 1) % UINT16
         \/ /\ Pfns(new) = Pfns(grant_list[t]) \ {pfn} /\ pfn \in Pfns(grant_list[t])
            /\ g_refs'[pfn] = IF g_refs[pfn] > 0 THEN g_refs[pfn] - 1 ELSE 0
  PROVE  Inv'
<1>1. grant_list \in [Task -> Seq(GrantEntry)] /\ g_refs \in [Frame -> Nat]
  BY DEF Inv
<1>2. grant_list' \in [Task -> Seq(GrantEntry)]
  BY <1>1
<1>3. \A u \in Task : grant_list'[u] = IF u = t THEN new ELSE grant_list[u]
  BY <1>1
<1>4. \A u \in Task : Unique(grant_list'[u]) /\ Pfns(grant_list'[u]) \subseteq Given
  BY <1>3 DEF Inv
<1>5. ASSUME NEW f \in Frame PROVE IsFiniteSet(Holders(f)) /\ g_refs[f] = Cardinality(Holders(f))
  <2>1. Holders(f) \subseteq Task
    BY DEF Holders
  <2> QED BY <2>1, FS_Subset, GrantAssumption DEF Inv
<1>6. ASSUME NEW f \in Frame, f # pfn \/ Pfns(new) = Pfns(grant_list[t])
      PROVE  g_refs'[f] = Cardinality(Holders(f)')
  <2>1. f \in Pfns(new) <=> f \in Pfns(grant_list[t])
    BY <1>6
  <2>2. Holders(f)' = Holders(f)
    BY <1>3, <2>1 DEF Holders
  <2>3. g_refs'[f] = g_refs[f]
    BY <1>6
  <2> QED BY <1>5, <2>2, <2>3
<1>7. CASE Pfns(new) = Pfns(grant_list[t]) \cup {pfn} /\ pfn \notin Pfns(grant_list[t])
  <2>1. Holders(pfn)' = Holders(pfn) \cup {t} /\ t \notin Holders(pfn)
    BY <1>3, <1>7 DEF Holders
  <2>2. Cardinality(Holders(pfn)') = Cardinality(Holders(pfn)) + 1
    BY <1>5, <2>1, FS_AddElement, ZenonT(40)
  <2>3. g_refs'[pfn] = (g_refs[pfn] + 1) % UINT16
    BY <1>7
  <2>4. Holders(pfn)' \subseteq Task
    BY <2>1 DEF Holders
  <2>5. Cardinality(Holders(pfn)') <= Cardinality(Task) /\ Cardinality(Task) \in Nat
    BY <2>4, FS_Subset, FS_CardinalityType, GrantAssumption, SMTT(30)
  <2>6. g_refs'[pfn] = Cardinality(Holders(pfn)')
    <3> DEFINE n == Cardinality(Holders(pfn))
    <3>1. n + 1 <= Cardinality(Task) /\ Cardinality(Task) \in Nat
      BY <2>2, <2>5
    <3>2. g_refs[pfn] = n /\ n \in Nat
      BY <1>1, <1>5
    <3>3. UINT16 \in Nat \ {0} /\ Cardinality(Task) < UINT16
      BY GrantAssumption
    <3>4. g_refs'[pfn] = (n + 1) % UINT16 /\ Cardinality(Holders(pfn)') = n + 1
      BY <2>2, <2>3, <3>2, SMTT(30)
    <3> HIDE DEF n
    <3> QED BY <3>1, <3>2, <3>3, <3>4, SMTT(30)
  <2> QED BY <1>2, <1>4, <1>6, <2>6, SMTT(30) DEF Inv, Given
<1>8. CASE Pfns(new) = Pfns(grant_list[t]) \ {pfn} /\ pfn \in Pfns(grant_list[t])
  <2>1. Holders(pfn)' = Holders(pfn) \ {t} /\ t \in Holders(pfn)
    BY <1>3, <1>8 DEF Holders
  <2>2. Cardinality(Holders(pfn)') = Cardinality(Holders(pfn)) - 1
    BY <1>5, <2>1, FS_RemoveElement, ZenonT(40)
  <2>3. Cardinality(Holders(pfn)') \in Nat
    BY <1>5, <2>1, FS_RemoveElement, FS_CardinalityType
  <2>4. g_refs'[pfn] = Cardinality(Holders(pfn)')
    BY <1>1, <1>5, <1>8, <2>2, <2>3, SMTT(30)
  <2> QED BY <1>2, <1>4, <1>6, <2>4 DEF Inv, Given
<1>9. CASE Pfns(new) = Pfns(grant_list[t])
  BY <1>2, <1>4, <1>6, <1>9, SMTT(30) DEF Inv, Given
<1> QED BY <1>7, <1>8, <1>9

LEMMA GrantStep ==
  ASSUME Inv, NEW cur \in Task, NEW target \in Task, NEW pa, NEW rights \in Rights,
         SYS_GRANT(cur, target, pa, rights)
  PROVE  Inv'
<1> DEFINE p    == pa \div PAGE_SIZE
           list == grant_list[target]
           i    == Entry(list, p)
<1>1. p \in Frame /\ p \in Given
  BY HeldIsGiven DEF SYS_GRANT
<1>2. /\ grant_list \in [Task -> Seq(GrantEntry)] /\ g_refs \in [Frame -> Nat]
      /\ Unique(list) /\ Pfns(list) \subseteq Given /\ rights \in SUBSET AllRights
  BY GrantAssumption DEF Inv
<1>3. CASE i # 0
  <2> DEFINE new == Widened(list, i, rights)
  <2>1. i \in 1..Len(list)
    BY <1>2, <1>3, EntryFound
  <2>2. new \in Seq(GrantEntry) /\ Pfns(new) = Pfns(list) /\ Unique(new)
    BY <1>2, <2>1, MergedList
  <2>3. grant_list' = [grant_list EXCEPT ![target] = new] /\ g_refs' = g_refs /\ ptes' = ptes
    BY <1>3 DEF SYS_GRANT, grant_add, Counted
  <2> HIDE DEF new
  <2> QED BY <1>1, <1>2, <2>2, <2>3, HoldersOne
<1>4. CASE i = 0
  <2> DEFINE e   == [pfn |-> p, rights |-> rights]
             new == Append(list, e)
  <2>1. e \in GrantEntry /\ e.pfn = p /\ p \notin Pfns(list)
    BY <1>1, <1>2, <1>4, EntryFound DEF GrantEntry
  <2>2. new \in Seq(GrantEntry) /\ Pfns(new) = Pfns(list) \cup {p} /\ Unique(new)
    BY <1>2, <2>1, AppendedList
  <2>3. /\ grant_list' = [grant_list EXCEPT ![target] = new]
        /\ g_refs' = [g_refs EXCEPT ![p] = (@ + 1) % UINT16] /\ ptes' = ptes
    BY <1>4 DEF SYS_GRANT, grant_add, Counted
  <2> HIDE DEF new
  <2>4. /\ g_refs' \in [Frame -> Nat] /\ g_refs'[p] = (g_refs[p] + 1) % UINT16
        /\ \A f \in Frame \ {p} : g_refs'[f] = g_refs[f]
    BY <1>1, <1>2, <2>3, GrantAssumption
  <2>5. Pfns(new) \subseteq Given
    BY <1>1, <1>2, <2>2
  <2> QED BY <1>1, <2>1, <2>2, <2>3, <2>4, <2>5, HoldersOne
<1> QED BY <1>3, <1>4

LEMMA DropStep ==
  ASSUME Inv, NEW t \in Task, NEW p \in Frame, grant_drop(t, p)
  PROVE  Inv'
<1> DEFINE list == grant_list[t]
           i    == Entry(list, p)
           new  == RemoveAt(list, i)
<1>1. /\ grant_list \in [Task -> Seq(GrantEntry)] /\ g_refs \in [Frame -> Nat]
      /\ Unique(list) /\ Pfns(list) \subseteq Given
  BY DEF Inv
<1>2. i \in 1..Len(list) /\ list[i].pfn = p /\ p \in Pfns(list)
  BY <1>1, EntryFound DEF grant_drop
<1>3. new \in Seq(GrantEntry) /\ Pfns(new) = Pfns(list) \ {p} /\ Unique(new)
  BY <1>1, <1>2, RemovedList
<1>4. /\ grant_list' = [grant_list EXCEPT ![t] = new] /\ ptes' = ptes
      /\ g_refs' = [g_refs EXCEPT ![p] = IF @ > 0 THEN @ - 1 ELSE 0]
  BY DEF grant_drop
<1> HIDE DEF new
<1>5. /\ g_refs' \in [Frame -> Nat] /\ g_refs'[p] = IF g_refs[p] > 0 THEN g_refs[p] - 1 ELSE 0
      /\ \A f \in Frame \ {p} : g_refs'[f] = g_refs[f]
  BY <1>1, <1>4
<1>6. Pfns(new) \subseteq Given
  BY <1>1, <1>3
<1> QED BY <1>2, <1>3, <1>4, <1>5, <1>6, HoldersOne

(* The lists and the counts stay as they are in SYS_MAP and SYS_UNMAP. *)
LEMMA ListsUnchanged ==
  ASSUME Inv, UNCHANGED <<grant_list, g_refs>>,
         ptes' \in [Task -> [Page -> GivenPte]]
  PROVE  Inv'
<1>1. \A f \in Frame : Holders(f)' = Holders(f)
  BY DEF Holders
<1> QED BY <1>1 DEF Inv

(* What the kernel's two loops go through. *)

(* A multiple of the step below another is at least a step below it. *)
LEMMA StepBelow ==
  ASSUME NEW s \in Nat \ {0}, NEW x \in Nat, NEW y \in Nat, x % s = 0, y % s = 0, x < y
  PROVE  x + s <= y
<1>1. x = s * (x \div s) /\ y = s * (y \div s) /\ x \div s \in Nat /\ y \div s \in Nat
  OBVIOUS
<1>2. x \div s < y \div s
  BY <1>1
<1>3. x \div s + 1 <= y \div s
  BY <1>1, <1>2
<1>4. s * (x \div s + 1) <= s * (y \div s)
  BY <1>1, <1>3
<1> QED BY <1>1, <1>4

(* Multiples add up to a multiple. *)
LEMMA MultiplesAdd ==
  ASSUME NEW s \in Nat \ {0}, NEW x \in Nat, NEW y \in Nat, x % s = 0, y % s = 0
  PROVE  (x + y) % s = 0
<1>1. x = s * (x \div s) /\ y = s * (y \div s) /\ x \div s \in Nat /\ y \div s \in Nat
  OBVIOUS
<1> DEFINE n == x \div s + y \div s
<1>2. n \in Nat /\ x + y = s * n
  BY <1>1
<1> HIDE DEF n
<1>3. \A k \in Nat : (s * k) % s = 0
  OBVIOUS
<1>4. (s * n) % s = 0
  BY <1>2, <1>3, SMTT(30)
<1> QED BY <1>2, <1>4

(* Rounding down gives a multiple, at most what is rounded. *)
LEMMA DownMultiple ==
  ASSUME NEW s \in Nat \ {0}, NEW x \in Nat
  PROVE  /\ Down(x, s) \in Nat /\ Down(x, s) <= x /\ Down(x, s) % s = 0
         /\ Down(x, s) = s * (x \div s)
  BY DEF Down

(* A whole number of pages further on, the page is the same however the    *)
(* address was rounded.                                                    *)
LEMMA PageFurther ==
  ASSUME NEW s \in Nat \ {0}, NEW x \in Nat, NEW d \in Nat, d % s = 0
  PROVE  (Down(x, s) + d) \div s = (x + d) \div s
<1> DEFINE q == x \div s
           r == x % s
           n == d \div s
<1>1. q \in Nat /\ r \in 0..(s - 1) /\ n \in Nat /\ x = s * q + r /\ d = s * n
  OBVIOUS
<1>2. Down(x, s) + d = s * (q + n) /\ x + d = s * (q + n) + r
  BY <1>1 DEF Down
<1>3. \A k \in Nat, e \in 0..(s - 1) : (s * k + e) \div s = k
  OBVIOUS
<1> HIDE DEF q, r, n
<1>4. q + n \in Nat /\ 0 \in 0..(s - 1) /\ s * (q + n) = s * (q + n) + 0
  BY <1>1
<1>5. (s * (q + n) + 0) \div s = q + n /\ (s * (q + n) + r) \div s = q + n
  BY <1>1, <1>3, <1>4
<1> QED BY <1>2, <1>4, <1>5

(* The loop of SYS_MAP that looks the frames up comes by every frame that  *)
(* the loop of pmap_map maps, for the calls of the kind CheckedInFull.     *)
LEMMA AllLookedUp ==
  ASSUME NEW va \in 0..(WORD - 1), NEW pa \in 0..(WORD - 1), NEW size \in 0..(WORD - 1),
         CheckedInFull(va, pa, size, FALSE),
         NEW v \in Loop(MapFrom(va, PAGE_SIZE), MapTo(va, size, PAGE_SIZE), PAGE_SIZE)
  PROVE  \E p \in Checked(pa, size) :
           p \div PAGE_SIZE = Word(Down(pa, PAGE_SIZE) + (v - MapFrom(va, PAGE_SIZE))) \div PAGE_SIZE
<1> DEFINE d   == v - va
           end == MapTo(va, size, PAGE_SIZE)
           sum == va + size + (PAGE_SIZE - 1)
<1>1. PAGE_SIZE \in Nat \ {0} /\ WORD \in Nat \ {0} /\ va \in Nat /\ pa \in Nat /\ size \in Nat
  BY GrantAssumption
<1>2. va % PAGE_SIZE = 0 /\ pa + size < WORD
  BY DEF CheckedInFull
<1>3. MapFrom(va, PAGE_SIZE) = va
  BY <1>1, <1>2 DEF MapFrom, Down
<1>4. end \in Nat /\ end % PAGE_SIZE = 0 /\ end <= sum
  <2>1. sum \in Nat /\ Word(sum) \in Nat /\ Word(sum) <= sum
    BY <1>1 DEF Word
  <2>2. end = Down(Word(sum), PAGE_SIZE)
    BY DEF MapTo
  <2> HIDE DEF sum, end
  <2>3. end \in Nat /\ end % PAGE_SIZE = 0 /\ end <= Word(sum)
    BY <1>1, <2>1, <2>2, DownMultiple
  <2> QED BY <2>1, <2>3
<1>5. v \in va..(end - 1) /\ d % PAGE_SIZE = 0
  BY <1>3 DEF Loop
<1> HIDE DEF end
<1>6. d \in Nat /\ v \in Nat /\ v < end /\ v = va + d
  BY <1>1, <1>4, <1>5
<1>7. v % PAGE_SIZE = 0
  BY <1>1, <1>2, <1>5, <1>6, MultiplesAdd
<1>8. d < size
  <2>1. v + PAGE_SIZE <= end
    BY <1>1, <1>4, <1>6, <1>7, StepBelow
  <2> QED BY <1>1, <1>4, <1>6, <2>1
<1> HIDE DEF d
<1>9. pa + d \in Checked(pa, size)
  <2>1. Word(pa + size) = pa + size
    BY <1>1, <1>2 DEF Word
  <2>2. pa + d \in pa..(pa + size - 1) /\ (pa + d) - pa = d
    BY <1>1, <1>6, <1>8
  <2> QED BY <1>5, <2>1, <2>2 DEF Checked, Loop
<1>10. Word(Down(pa, PAGE_SIZE) + d) = Down(pa, PAGE_SIZE) + d
  <2>1. Down(pa, PAGE_SIZE) \in Nat /\ Down(pa, PAGE_SIZE) <= pa
    BY <1>1, DownMultiple
  <2> HIDE DEF Down
  <2>2. Down(pa, PAGE_SIZE) + d \in Nat /\ Down(pa, PAGE_SIZE) + d < WORD
    BY <1>1, <1>2, <1>6, <1>8, <2>1
  <2> QED BY <1>1, <2>2 DEF Word
<1>11. (pa + d) \div PAGE_SIZE = (Down(pa, PAGE_SIZE) + d) \div PAGE_SIZE
  BY <1>1, <1>5, <1>6, PageFurther
<1> QED BY <1>3, <1>9, <1>10, <1>11 DEF d

(* A set of addresses that is not empty has a last one. *)
LEMMA MaxExists ==
  ASSUME NEW n \in Nat, NEW S \in SUBSET (0..n), S # {}
  PROVE  Max(S) \in S
<1> DEFINE T == {n - x : x \in S}
<1>0. \A x \in S : x \in Nat /\ n - x \in Nat
  OBVIOUS
<1>1. T \in SUBSET Nat /\ T # {}
  BY <1>0
<1>2. PICK m \in T : \A y \in T : m <= y
  BY <1>1, MinExists
<1>3. PICK x \in S : m = n - x
  BY <1>2
<1>4. \A y \in S : x >= y
  <2> TAKE y \in S
  <2>1. n - y \in T
    OBVIOUS
  <2>2. n - x <= n - y
    BY <1>2, <1>3, <2>1
  <2> QED BY <1>0, <2>2
<1> QED BY <1>3, <1>4 DEF Max

(* What pmap_map writes: a frame that was looked up, for a checked call. *)
LEMMA MappedGiven ==
  ASSUME NEW table \in [Page -> GivenPte], NEW va \in 0..(WORD - 1), NEW pa \in 0..(WORD - 1),
         NEW size \in 0..(WORD - 1), NEW huge \in BOOLEAN, NEW step \in Nat \ {0},
         step = IF huge THEN PAGE_SIZE_HUGE ELSE PAGE_SIZE,
         NEW done, done \subseteq Loop(MapFrom(va, step), MapTo(va, size, step), step),
         \A p \in Checked(pa, size) : p \div PAGE_SIZE \in Frame /\ p \div PAGE_SIZE \in Given
  PROVE  Mapped(table, va, pa, step, done, CheckedInFull(va, pa, size, huge)) \in [Page -> GivenPte]
<1> DEFINE checked == CheckedInFull(va, pa, size, huge)
           end     == MapTo(va, size, step)
           pages   == step \div PAGE_SIZE
<1>1. PAGE_SIZE \in Nat \ {0} /\ WORD \in Nat \ {0} /\ VPAGES \in Nat \ {0} /\ PFNS \in Nat \ {0}
  BY GrantAssumption
<1>2. end \in Nat /\ MapFrom(va, step) \in Nat
  <2>1. va \in Nat /\ Word(va + size + (step - 1)) \in Nat
    BY <1>1 DEF Word
  <2> QED BY <2>1, DownMultiple DEF MapTo, MapFrom
<1>3. done \subseteq 0..end /\ \A v \in done : v \in Nat /\ v - MapFrom(va, step) \in Nat
  BY <1>2 DEF Loop
<1> HIDE DEF end
<1> SUFFICES ASSUME NEW w \in Page
             PROVE  Mapped(table, va, pa, step, done, checked)[w] \in GivenPte
  BY DEF Mapped
<1> DEFINE at   == {v \in done : w \in PageOf(v)..(PageOf(v) + pages - 1)}
           v    == Max(at)
           phys == Word(Down(pa, step) + (v - MapFrom(va, step)))
           pfn  == (phys \div PAGE_SIZE + (w - PageOf(v))) % PFNS
           pte  == [pfn |-> pfn, huge |-> step # PAGE_SIZE, checked |-> checked]
<1>4. Mapped(table, va, pa, step, done, checked)[w]
        = IF at = {} \/ (table[w].huge /\ ~(step # PAGE_SIZE)) THEN table[w] ELSE pte
  BY SMTT(30) DEF Mapped
<1>5. CASE at = {}
  BY <1>4, <1>5, SMTT(30)
<1>6. CASE at # {}
  <2>1. v \in at
    BY <1>2, <1>3, <1>6, MaxExists
  <2>2. v \in done /\ w \in PageOf(v)..(PageOf(v) + pages - 1)
    BY <2>1
  <2> HIDE DEF v, at
  <2>3. v \in Nat /\ v - MapFrom(va, step) \in Nat /\ PageOf(v) \in Nat
    BY <1>1, <1>3, <2>2 DEF PageOf
  <2>4. phys \in Nat
    <3>0. pa \in Nat
      BY <1>1
    <3>1. Down(pa, step) \in Nat
      BY <3>0, DownMultiple
    <3> DEFINE a == Down(pa, step) + (v - MapFrom(va, step))
    <3>2. a \in Nat /\ phys = Word(a)
      BY <2>3, <3>1
    <3> HIDE DEF a, phys
    <3> QED BY <1>1, <3>2 DEF Word
  <2>5. w - PageOf(v) \in Nat
    BY <1>1, <2>2, <2>3 DEF Page
  <2>6. pfn \in Nat
    BY <1>1, <2>4, <2>5
  <2>7. checked \in BOOLEAN
    BY DEF CheckedInFull
  <2>8. ASSUME checked PROVE pfn \in Given
    <3>1. ~huge /\ step = PAGE_SIZE
      BY <2>8 DEF CheckedInFull
    <3>2. CheckedInFull(va, pa, size, FALSE)
      BY <2>8, <3>1 DEF CheckedInFull
    <3>3. v \in Loop(MapFrom(va, PAGE_SIZE), MapTo(va, size, PAGE_SIZE), PAGE_SIZE)
      BY <2>2, <3>1
    <3>4a. phys = Word(Down(pa, PAGE_SIZE) + (v - MapFrom(va, PAGE_SIZE)))
      BY <3>1
    <3>4. PICK p \in Checked(pa, size) : p \div PAGE_SIZE = phys \div PAGE_SIZE
      <4>1. \E p \in Checked(pa, size) :
              p \div PAGE_SIZE
                = Word(Down(pa, PAGE_SIZE) + (v - MapFrom(va, PAGE_SIZE))) \div PAGE_SIZE
        BY <3>2, <3>3, AllLookedUp, ZenonT(40)
      <4> HIDE DEF phys
      <4> QED BY <3>4a, <4>1
    <3>5. phys \div PAGE_SIZE \in Frame /\ phys \div PAGE_SIZE \in Given
      BY <3>4
    <3>6. w - PageOf(v) = 0
      BY <1>1, <2>2, <2>3, <2>5, <3>1, SMTT(30)
    <3> HIDE DEF phys
    <3>7. pfn = phys \div PAGE_SIZE
      <4> DEFINE f == phys \div PAGE_SIZE
                 u == w - PageOf(v)
      <4>0. g_frames \in Nat /\ g_frames <= PFNS
        BY GrantAssumption
      <4>1. u = 0 /\ pfn = (f + u) % PFNS /\ f \in 0..(g_frames - 1)
        BY <3>5, <3>6 DEF Frame
      <4> HIDE DEF f, u, pfn
      <4>2. f + u = f /\ f % PFNS = f
        BY <1>1, <4>0, <4>1, SMTT(30)
      <4> QED BY <4>1, <4>2 DEF f
    <3> QED BY <3>5, <3>7
  <2> HIDE DEF pfn, checked
  <2>9. pte \in GivenPte
    BY <2>6, <2>7, <2>8 DEF GivenPte, Pte
  <2> QED BY <1>4, <2>9
<1> QED BY <1>5, <1>6

(* A table with such entries is put where the address space's was. *)
LEMMA TablesGiven ==
  ASSUME Inv, NEW target \in Task, NEW table \in [Page -> GivenPte]
  PROVE  InTables(target, table) \in [Task -> [Page -> GivenPte]]
  BY DEF Inv, InTables

LEMMA MapStep ==
  ASSUME Inv, NEW cur \in Task, NEW target \in Task, NEW va \in Vas, NEW pa \in Pas,
         NEW size \in Lengths, NEW huge \in BOOLEAN, NEW prot,
         SYS_MAP(cur, target, va, pa, size, huge, prot)
  PROVE  Inv'
<1> DEFINE step == IF huge THEN PAGE_SIZE_HUGE ELSE PAGE_SIZE
           vas  == Loop(MapFrom(va, step), MapTo(va, size, step), step)
<1>1. \A p \in Checked(pa, size) : p \div PAGE_SIZE \in Frame /\ p \div PAGE_SIZE \in Given
  BY HeldIsGiven DEF SYS_MAP
<1>2. PICK done \in SUBSET vas :
        ptes' = InTables(target, Mapped(ptes[target], va, pa, step, done,
                                        CheckedInFull(va, pa, size, huge)))
  BY DEF SYS_MAP
<1>3. /\ va \in 0..(WORD - 1) /\ pa \in 0..(WORD - 1) /\ size \in 0..(WORD - 1)
      /\ step \in Nat \ {0}
  BY GrantAssumption
<1>4. ptes[target] \in [Page -> GivenPte]
  BY SMTT(30) DEF Inv
<1> HIDE DEF step
<1>5. Mapped(ptes[target], va, pa, step, done, CheckedInFull(va, pa, size, huge)) \in [Page -> GivenPte]
  BY <1>1, <1>2, <1>3, <1>4, MappedGiven, SMTT(30) DEF step
<1>6. ptes' \in [Task -> [Page -> GivenPte]]
  BY <1>2, <1>5, TablesGiven, SMTT(30)
<1> QED BY <1>6, ListsUnchanged DEF SYS_MAP

LEMMA UnmapStep ==
  ASSUME Inv, NEW cur \in Task, NEW target \in Task, NEW va \in Vas, NEW size \in Lengths,
         SYS_UNMAP(cur, target, va, size)
  PROVE  Inv'
<1>1. NotMapped \in GivenPte
  BY DEF GivenPte, Pte, NotMapped
<1>2. PICK out : ptes' = InTables(target, [w \in Page |-> IF w \in out THEN NotMapped
                                                         ELSE ptes[target][w]])
  <2> DEFINE met == {w \in {PageOf(v) : v \in Loop(Down(va, PAGE_SIZE), Word(va + size), PAGE_SIZE)} :
                       ptes[target][w].pfn \notin {NoFrame, 0}}
             unit(w) == IF ptes[target][w].huge THEN {u \in Page : u \div HugePages = w \div HugePages}
                        ELSE {w}
  <2>1. ptes' = InTables(target, [w \in Page |-> IF \E u \in met : w \in unit(u) THEN NotMapped
                                                 ELSE ptes[target][w]])
    BY DEF SYS_UNMAP
  <2> HIDE DEF met, unit
  <2>2. \A w : w \in UNION {unit(u) : u \in met} <=> \E u \in met : w \in unit(u)
    OBVIOUS
  <2> QED BY <2>1, <2>2
<1>3. [w \in Page |-> IF w \in out THEN NotMapped ELSE ptes[target][w]] \in [Page -> GivenPte]
  BY <1>1 DEF Inv
<1>4. ptes' \in [Task -> [Page -> GivenPte]]
  BY <1>2, <1>3, TablesGiven, SMTT(30)
<1> QED BY <1>4, ListsUnchanged, ZenonT(40) DEF SYS_UNMAP

LEMMA InvImplies == Inv => RefsExact /\ KernelFramesKept
<1> SUFFICES ASSUME Inv PROVE RefsExact /\ KernelFramesKept
  OBVIOUS
<1>1. \A t \in Task : grant_list[t] \in Seq(GrantEntry) /\ Unique(grant_list[t])
                     /\ Pfns(grant_list[t]) \subseteq Given
  BY DEF Inv
<1>2. ASSUME NEW f \in Frame
      PROVE  g_refs[f] = Cardinality({t \in Task : Entry(grant_list[t], f) # 0})
  <2>1. \A t \in Task : Entry(grant_list[t], f) # 0 <=> f \in Pfns(grant_list[t])
    BY <1>1, EntryFound
  <2>2. {t \in Task : Entry(grant_list[t], f) # 0} = Holders(f)
    BY <2>1 DEF Holders
  <2> QED BY <2>2 DEF Inv
<1>3. ASSUME NEW t \in Task
      PROVE  /\ \A e \in ToSet(grant_list[t]) : e.pfn \in Given
             /\ \A w \in Page : ptes[t][w].checked => ptes[t][w].pfn \in Given
  BY <1>1 DEF Inv, ToSet, Pfns, GivenPte
<1> QED BY <1>1, <1>2, <1>3 DEF RefsExact, KernelFramesKept, Unique, Given

LEMMA GrantInvariant == Spec => []Inv
<1>1. Inv /\ [Next]_grantVars => Inv'
  <2> SUFFICES ASSUME Inv, [Next]_grantVars PROVE Inv'
    OBVIOUS
  <2>1. ASSUME NEW cur \in Task, NEW target \in Task, NEW va \in Vas, NEW size \in Lengths,
               NEW pa \in Pas, NEW huge \in BOOLEAN, NEW prot \in Prots,
               SYS_MAP(cur, target, va, pa, size, huge, prot)
        PROVE  Inv'
    BY <2>1, MapStep
  <2>2. ASSUME NEW cur \in Task, NEW target \in Task, NEW va \in Vas, NEW size \in Lengths,
               SYS_UNMAP(cur, target, va, size)
        PROVE  Inv'
    BY <2>2, UnmapStep
  <2>3. ASSUME NEW cur \in Task, NEW target \in Task, NEW pa \in Pas, NEW rights \in Rights,
               SYS_GRANT(cur, target, pa, rights)
        PROVE  Inv'
    BY <2>3, GrantStep
  <2>4. ASSUME NEW target \in Task, NEW p \in Frame, grant_drop(target, p)
        PROVE  Inv'
    BY <2>4, DropStep
  <2>5. CASE UNCHANGED grantVars
    BY <2>5, ListsUnchanged DEF grantVars, Inv
  <2> QED BY <2>1, <2>2, <2>3, <2>4, <2>5, SMTT(30) DEF Next
<1> QED BY <1>1, InvInit, PTL DEF Spec

-----------------------------------------------------------------------------
(* Rights. *)

LEMMA RightsHas ==
  ASSUME NEW lists \in [Task -> Seq(GrantEntry)], NEW f, NEW x
  PROVE  x \in UNION {UNION {e.rights : e \in {y \in ToSet(lists[t]) : y.pfn = f}} : t \in Task}
           <=> \E t \in Task : Has(lists[t], f, x)
<1>1. ASSUME NEW t \in Task
      PROVE  x \in UNION {e.rights : e \in {y \in ToSet(lists[t]) : y.pfn = f}} <=> Has(lists[t], f, x)
  <2>1. DOMAIN lists[t] = 1..Len(lists[t])
    BY LenProperties
  <2> QED BY <2>1 DEF ToSet, Has
<1> QED BY <1>1

LEMMA GrantedHas ==
  ASSUME Inv, NEW f, NEW x
  PROVE  x \in GrantedRights(f) <=> \E t \in Task : Has(grant_list[t], f, x)
<1>1. grant_list \in [Task -> Seq(GrantEntry)]
  BY DEF Inv
<1> QED BY <1>1, RightsHas DEF GrantedRights

(* A grant of a frame somebody has been granted rests on an entry, with    *)
(* the rights it passes on: the root server's own hold has ended.          *)
LEMMA GrantedFromEntry ==
  ASSUME Inv, NEW cur \in Task, NEW p, NEW rights, grant_holds(cur, p, rights),
         NEW t \in Task, NEW y, Has(grant_list[t], p, y)
  PROVE  \A x \in rights : Has(grant_list[cur], p, x)
<1>1. p \in Frame
  BY DEF grant_holds
<1>2. Holders(p) # {} /\ Holders(p) \subseteq Task /\ IsFiniteSet(Holders(p))
  <2>1. t \in Holders(p) /\ Holders(p) \subseteq Task
    BY DEF Holders, Pfns, Has
  <2> QED BY <2>1, FS_Subset, GrantAssumption, SMTT(30)
<1>3. g_refs[p] # 0
  <2>1. Cardinality(Holders(p)) # 0
    BY <1>2, FS_EmptySet
  <2> QED BY <1>1, <2>1 DEF Inv
<1> DEFINE i == Entry(grant_list[cur], p)
<1>4. i # 0 /\ rights \subseteq grant_list[cur][i].rights
  BY <1>3, SMTT(30) DEF grant_holds, Ungranted
<1>5. i \in 1..Len(grant_list[cur]) /\ grant_list[cur][i].pfn = p
  BY <1>4, EntryFound, SMTT(30) DEF Inv
<1> QED BY <1>4, <1>5 DEF Has

LEMMA RightsStep == Inv /\ Inv' /\ [Next]_grantVars => [RightsKept]_grantVars
<1> SUFFICES ASSUME Inv, Inv', [Next]_grantVars,
                    NEW f \in Frame, NEW y, y \in GrantedRights(f), NEW x, x \in GrantedRights(f)'
             PROVE  x \in GrantedRights(f)
  BY DEF RightsKept
<1>1. grant_list \in [Task -> Seq(GrantEntry)] /\ grant_list' \in [Task -> Seq(GrantEntry)]
  BY DEF Inv
<1>2. PICK u \in Task : Has(grant_list'[u], f, x)
  BY <1>1, RightsHas DEF GrantedRights
<1>3. PICK o \in Task : Has(grant_list[o], f, y)
  BY GrantedHas
<1> SUFFICES \E t \in Task : Has(grant_list[t], f, x)
  BY GrantedHas
<1>4. CASE grant_list'[u] = grant_list[u]
  BY <1>2, <1>4
<1>5. ASSUME NEW cur \in Task, NEW pa, NEW rights \in Rights, SYS_GRANT(cur, u, pa, rights)
      PROVE  \E t \in Task : Has(grant_list[t], f, x)
  <2> DEFINE p    == pa \div PAGE_SIZE
             list == grant_list[u]
             i    == Entry(list, p)
  <2>1. p \in Frame /\ rights \in SUBSET AllRights /\ grant_holds(cur, p, rights)
    BY <1>5, GrantAssumption DEF SYS_GRANT, grant_add
  <2>2. Has(list, f, x) \/ (f = p /\ x \in rights)
    <3>1. CASE i # 0
      <4>1. i \in 1..Len(list) /\ list[i].pfn = p
        BY <1>1, <3>1, EntryFound, SMTT(30)
      <4>2. grant_list'[u] = Widened(list, i, rights)
        BY <1>1, <1>5, <3>1, SMTT(30) DEF SYS_GRANT, grant_add
      <4> HIDE DEF i, list
      <4> QED BY <1>1, <1>2, <2>1, <4>1, <4>2, MergedList, SMTT(30) DEF list
    <3>2. CASE i = 0
      <4> DEFINE e == [pfn |-> p, rights |-> rights]
      <4>1. e \in GrantEntry /\ e.pfn = p /\ e.rights = rights /\ e.pfn \notin Pfns(list)
        BY <1>1, <2>1, <3>2, EntryFound DEF GrantEntry
      <4>2. grant_list'[u] = Append(list, e)
        BY <1>1, <1>5, <3>2 DEF SYS_GRANT, grant_add
      <4> HIDE DEF e, list
      <4> QED BY <1>1, <1>2, <4>1, <4>2, AppendedList, SMTT(30) DEF list
    <3> QED BY <3>1, <3>2, SMTT(30)
  <2>3. f = p /\ x \in rights => Has(grant_list[cur], f, x)
    BY <1>3, <2>1, GrantedFromEntry
  <2> QED BY <2>2, <2>3, SMTT(30)
<1>6. ASSUME NEW p \in Frame, grant_drop(u, p) PROVE Has(grant_list[u], f, x)
  <2> DEFINE list == grant_list[u]
             i    == Entry(list, p)
  <2>1. i \in 1..Len(list) /\ Unique(list)
    BY <1>1, <1>6, EntryFound, SMTT(30) DEF grant_drop, Inv
  <2>2. grant_list'[u] = RemoveAt(list, i)
    BY <1>1, <1>6 DEF grant_drop
  <2> HIDE DEF i, list
  <2> QED BY <1>1, <1>2, <2>1, <2>2, RemovedList, SMTT(30) DEF list
<1>7. ASSUME NEW cur \in Task, NEW target \in Task, NEW pa, NEW rights \in Rights,
             SYS_GRANT(cur, target, pa, rights), target # u
      PROVE  grant_list'[u] = grant_list[u]
  BY <1>1, <1>7 DEF SYS_GRANT, grant_add
<1>8. ASSUME NEW target \in Task, NEW p, grant_drop(target, p), target # u
      PROVE  grant_list'[u] = grant_list[u]
  BY <1>1, <1>8, SMTT(30) DEF grant_drop
<1>9. ASSUME NEW cur \in Task, NEW target \in Task, NEW va \in Vas, NEW size \in Lengths,
             \/ \E pa \in Pas, huge \in BOOLEAN, prot \in Prots :
                  SYS_MAP(cur, target, va, pa, size, huge, prot)
             \/ SYS_UNMAP(cur, target, va, size)
      PROVE  grant_list'[u] = grant_list[u]
  BY <1>9 DEF SYS_MAP, SYS_UNMAP
<1>10. CASE UNCHANGED grantVars
  BY <1>4, <1>10 DEF grantVars
<1>11. ASSUME NEW cur \in Task, NEW target \in Task,
              \/ \E pa \in Pas, rights \in Rights : SYS_GRANT(cur, target, pa, rights)
              \/ \E p \in Frame : grant_drop(target, p)
       PROVE  \E t \in Task : Has(grant_list[t], f, x)
  <2>1. CASE target = u
    BY <1>5, <1>6, <1>11, <2>1, ZenonT(40)
  <2>2. CASE target # u
    BY <1>4, <1>7, <1>8, <1>11, <2>2, ZenonT(40)
  <2> QED BY <2>1, <2>2
<1> QED BY <1>4, <1>9, <1>10, <1>11, ZenonT(40) DEF Next

-----------------------------------------------------------------------------
(* g_refs counts the address spaces a frame is granted to, each with one   *)
(* entry, through every order of grants, merged grants and drops: the      *)
(* count that ends the root server's hold (grant_holds) is never stale.    *)
THEOREM CountsExact == Spec => []RefsExact
  BY GrantInvariant, InvImplies, PTL

(* No frame outside the pool and the framebuffer is granted by any         *)
(* sequence of system calls, and none is in the entry of a page mapped     *)
(* from the start of a page, without PROT_HUGE and up to an address that   *)
(* does not wrap: for such a call the loop of SYS_MAP that looks the       *)
(* frames up and the one of pmap_map go through the same frames.           *)
THEOREM KernelFramesSafe == Spec => []KernelFramesKept
  BY GrantInvariant, InvImplies, PTL

(* Once a frame is granted, no chain of SYS_GRANT between any tasks, the   *)
(* root server included, brings up a right on it that nobody had.          *)
THEOREM RightsOnlyShrink == Spec => RightsNeverGrow
  BY GrantInvariant, RightsStep, PTL DEF Spec, RightsNeverGrow
=============================================================================
