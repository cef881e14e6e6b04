----------------------------- MODULE ListProofs -----------------------------
(***************************************************************************)
(* The lists of include/koharu/list.h, for any number of lists and nodes.  *)
(*                                                                         *)
(* A list with the nodes s and the head h is a ring: Elem(h, s, i) is its  *)
(* i-th element, with the head at both ends.  Adding at either end is a    *)
(* case of an insertion after the k-th element, and taking a node off is   *)
(* the removal of the k-th one; the two lemmas say what these do to a      *)
(* ring, and the invariant that the rings do not meet leaves the others    *)
(* alone.                                                                  *)
(***************************************************************************)
EXTENDS List, TLAPS

USE ZenonT(40)

On(s, n) == \E i \in 1..Len(s) : s[i] = n
Distinct(s) == \A i, j \in 1..Len(s) : s[i] = s[j] => i = j

Elem(h, s, i) == IF i = 0 \/ i = Len(s) + 1 THEN h ELSE s[i]

Ringed(nx, pv, h, s) ==
  \A i \in 0..Len(s) : /\ nx[Elem(h, s, i)] = Elem(h, s, i + 1)
                       /\ pv[Elem(h, s, i + 1)] = Elem(h, s, i)

Item == ListHead \cup ListNode

ListTypes ==
  /\ next \in [Item -> Item \cup {NULL}] /\ prev \in [Item -> Item \cup {NULL}]
  /\ content \in [ListHead -> Seq(ListNode)]

Apart == \A g, h \in ListHead, n \in ListNode : On(content[g], n) /\ On(content[h], n) => g = h
Unlinked == \A n \in ListNode : next[n] = NULL <=> \A h \in ListHead : ~On(content[h], n)

LInv ==
  /\ ListTypes
  /\ \A h \in ListHead : Distinct(content[h]) /\ Ringed(next, prev, h, content[h])
  /\ Apart /\ Unlinked

(* The elements of a ring. *)
LEMMA Elems ==
  ASSUME NEW h \in ListHead, NEW s \in Seq(ListNode), Distinct(s)
  PROVE  /\ Len(s) \in Nat /\ \A i \in 1..Len(s) : s[i] \in ListNode /\ On(s, s[i])
         /\ \A i \in 0..(Len(s) + 1) : Elem(h, s, i) \in Item /\ Elem(h, s, i) # NULL
         /\ \A i \in 0..(Len(s) + 1) : Elem(h, s, i) = h \/ On(s, Elem(h, s, i))
         /\ \A i, j \in 0..Len(s) : Elem(h, s, i) = Elem(h, s, j) => i = j
         /\ \A i, j \in 1..(Len(s) + 1) : Elem(h, s, i) = Elem(h, s, j) => i = j
<1>1. Len(s) \in Nat /\ \A i \in 1..Len(s) : s[i] \in ListNode
  BY SMTT(30)
<1>2. \A i \in 1..Len(s) : s[i] \in ListNode /\ On(s, s[i]) /\ s[i] # h /\ s[i] # NULL
  BY <1>1, ListAssumption DEF On
<1>3. \A i \in 0..(Len(s) + 1) : i = 0 \/ i = Len(s) + 1 \/ i \in 1..Len(s)
  BY <1>1, SMTT(30)
<1>4. ASSUME NEW i \in 0..(Len(s) + 1)
      PROVE  /\ Elem(h, s, i) \in Item /\ Elem(h, s, i) # NULL
             /\ Elem(h, s, i) = h \/ On(s, Elem(h, s, i))
  BY <1>2, <1>3, ListAssumption DEF Elem, Item
<1>5. ASSUME NEW i \in 0..Len(s), NEW j \in 0..Len(s), Elem(h, s, i) = Elem(h, s, j) PROVE i = j
  <2>1. \A k \in 0..Len(s) : (k = 0 \/ k \in 1..Len(s)) /\ k # Len(s) + 1
    BY <1>1, SMTT(30)
  <2> QED BY <1>2, <1>5, <2>1 DEF Elem, Distinct
<1>6. ASSUME NEW i \in 1..(Len(s) + 1), NEW j \in 1..(Len(s) + 1), Elem(h, s, i) = Elem(h, s, j)
      PROVE  i = j
  <2>1. \A k \in 1..(Len(s) + 1) : (k = Len(s) + 1 \/ k \in 1..Len(s)) /\ k # 0
    BY <1>1, SMTT(30)
  <2> QED BY <1>2, <1>6, <2>1 DEF Elem, Distinct
<1> QED BY <1>1, <1>2, <1>4, <1>5, <1>6

(* A ring whose pointers stay is a ring. *)
LEMMA RingSame ==
  ASSUME NEW h \in ListHead, NEW s \in Seq(ListNode), Distinct(s),
         NEW nx, NEW pv, Ringed(nx, pv, h, s), NEW mx, NEW qv,
         \A y : y = h \/ On(s, y) => mx[y] = nx[y] /\ qv[y] = pv[y]
  PROVE  Ringed(mx, qv, h, s)
<1>1. SUFFICES ASSUME NEW i \in 0..Len(s)
               PROVE  /\ mx[Elem(h, s, i)] = Elem(h, s, i + 1)
                      /\ qv[Elem(h, s, i + 1)] = Elem(h, s, i)
  BY DEF Ringed
<1>2. i \in 0..(Len(s) + 1) /\ i + 1 \in 0..(Len(s) + 1)
  BY Elems, SMTT(30)
<1>3. /\ Elem(h, s, i) = h \/ On(s, Elem(h, s, i))
      /\ Elem(h, s, i + 1) = h \/ On(s, Elem(h, s, i + 1))
  BY <1>2, Elems
<1> QED BY <1>3 DEF Ringed

(* t is s with n after the k-th element. *)
Inserted(s, k, n, t) ==
  /\ Len(t) = Len(s) + 1
  /\ \A i \in 1..Len(t) : t[i] = IF i <= k THEN s[i] ELSE IF i = k + 1 THEN n ELSE s[i - 1]

LEMMA InsertedElems ==
  ASSUME NEW h \in ListHead, NEW s \in Seq(ListNode), NEW t \in Seq(ListNode), NEW n,
         NEW k \in 0..Len(s), Inserted(s, k, n, t), Distinct(s), ~On(s, n)
  PROVE  /\ \A i \in 0..(Len(t) + 1) :
              Elem(h, t, i) = IF i <= k THEN Elem(h, s, i)
                              ELSE IF i = k + 1 THEN n ELSE Elem(h, s, i - 1)
         /\ Distinct(t)
         /\ \A y : On(t, y) <=> y = n \/ On(s, y)
<1>1. Len(s) \in Nat /\ Len(t) = Len(s) + 1 /\ k \in Nat /\ k <= Len(s)
  BY Elems, SMTT(30) DEF Inserted
<1>2. \A i \in 1..Len(t) : t[i] = IF i <= k THEN s[i] ELSE IF i = k + 1 THEN n ELSE s[i - 1]
  BY DEF Inserted
<1>3. ASSUME NEW i \in 0..(Len(t) + 1)
      PROVE  Elem(h, t, i) = IF i <= k THEN Elem(h, s, i)
                             ELSE IF i = k + 1 THEN n ELSE Elem(h, s, i - 1)
  <2>1. CASE i = 0
    BY <1>1, <2>1, SMTT(30) DEF Elem
  <2>2. CASE i = Len(t) + 1
    BY <1>1, <2>2, SMTT(30) DEF Elem
  <2>3. CASE i \in 1..Len(t)
    <3>1. i # 0 /\ i # Len(t) + 1
      BY <1>1, <2>3, SMTT(30)
    <3>2. Elem(h, t, i) = IF i <= k THEN s[i] ELSE IF i = k + 1 THEN n ELSE s[i - 1]
      BY <1>2, <2>3, <3>1 DEF Elem
    <3>3. (i <= k => i # Len(s) + 1) /\ (~(i <= k) /\ i # k + 1 => i - 1 # 0 /\ i - 1 # Len(s) + 1)
      BY <1>1, <2>3, SMTT(30)
    <3> QED BY <3>1, <3>2, <3>3 DEF Elem
  <2> QED BY <1>1, <2>1, <2>2, <2>3, SMTT(30)
<1>4. \A i \in 1..Len(t) : /\ i <= k => i \in 1..Len(s)
                           /\ ~(i <= k) /\ i # k + 1 => i - 1 \in 1..Len(s)
  BY <1>1, SMTT(30)
<1>5. Distinct(t)
  <2> SUFFICES ASSUME NEW i \in 1..Len(t), NEW j \in 1..Len(t), t[i] = t[j] PROVE i = j
    BY DEF Distinct
  <2>1. \A a, b \in 1..Len(s) : s[a] = s[b] => a = b
    BY DEF Distinct
  <2>2. \A a \in 1..Len(s) : s[a] # n
    BY DEF On
  <2>3. i = k + 1 <=> j = k + 1
    <3>1. ~(k + 1 <= k)
      BY <1>1, SMTT(30)
    <3> QED BY <1>2, <1>4, <2>2, <3>1
  <2>4. CASE i # k + 1 /\ j # k + 1
    <3>1. (IF i <= k THEN i ELSE i - 1) = (IF j <= k THEN j ELSE j - 1)
      BY <1>2, <1>4, <2>1, <2>4
    <3> QED BY <1>1, <2>4, <3>1, SMTT(30)
  <2> QED BY <2>3, <2>4
<1>6. ASSUME NEW y PROVE On(t, y) <=> y = n \/ On(s, y)
  <2>1. On(t, y) => y = n \/ On(s, y)
    BY <1>2, <1>4 DEF On
  <2>2. k + 1 \in 1..Len(t) /\ ~(k + 1 <= k)
    BY <1>1, SMTT(30)
  <2>3. On(t, n)
    BY <1>2, <2>2 DEF On
  <2>4. ASSUME NEW i \in 1..Len(s) PROVE On(t, s[i])
    <3>1. CASE i <= k
      <4>1. i \in 1..Len(t)
        BY <1>1, SMTT(30)
      <4> QED BY <1>2, <3>1, <4>1 DEF On
    <3>2. CASE ~(i <= k)
      <4>1. i + 1 \in 1..Len(t) /\ ~(i + 1 <= k) /\ i + 1 # k + 1 /\ (i + 1) - 1 = i
        BY <1>1, <3>2, SMTT(30)
      <4>2. t[i + 1] = s[i]
        BY <1>2, <4>1, SMTT(30)
      <4> QED BY <4>1, <4>2 DEF On
    <3> QED BY <3>1, <3>2
  <2> QED BY <2>1, <2>3, <2>4 DEF On
<1> QED BY <1>3, <1>5, <1>6

(* The pointers of __list_add make the ring of the longer list. *)
LEMMA RingInsert ==
  ASSUME NEW h \in ListHead, NEW s \in Seq(ListNode), NEW t \in Seq(ListNode), NEW n \in ListNode,
         NEW k \in 0..Len(s), Inserted(s, k, n, t), Distinct(s), ~On(s, n),
         NEW nx, NEW pv, Ringed(nx, pv, h, s), NEW mx, NEW qv,
         \A y \in Item :
           /\ mx[y] = IF y = n THEN Elem(h, s, k + 1) ELSE IF y = Elem(h, s, k) THEN n ELSE nx[y]
           /\ qv[y] = IF y = n THEN Elem(h, s, k) ELSE IF y = Elem(h, s, k + 1) THEN n ELSE pv[y]
  PROVE  Ringed(mx, qv, h, t)
<1>1. Len(s) \in Nat /\ Len(t) = Len(s) + 1 /\ k \in Nat /\ k <= Len(s)
  BY Elems, SMTT(30) DEF Inserted
<1>2. \A i \in 0..(Len(t) + 1) : Elem(h, t, i) = IF i <= k THEN Elem(h, s, i)
                                                 ELSE IF i = k + 1 THEN n ELSE Elem(h, s, i - 1)
  BY InsertedElems, SMTT(30)
<1>3. \A i \in 0..(Len(s) + 1) : Elem(h, s, i) \in Item /\ Elem(h, s, i) # n
  BY Elems, ListAssumption, SMTT(30)
<1>4. \A i \in 0..Len(s) : i # k => Elem(h, s, i) # Elem(h, s, k)
  BY Elems
<1>5. \A i \in 1..(Len(s) + 1) : i # k + 1 => Elem(h, s, i) # Elem(h, s, k + 1)
  <2>1. k + 1 \in 1..(Len(s) + 1)
    BY <1>1, SMTT(30)
  <2> QED BY <2>1, Elems
<1>6. /\ n \in Item /\ Elem(h, s, k) \in Item /\ Elem(h, s, k) # n
      /\ Elem(h, s, k + 1) \in Item /\ Elem(h, s, k + 1) # n
  <2>1. k \in 0..(Len(s) + 1) /\ k + 1 \in 0..(Len(s) + 1)
    BY <1>1, SMTT(30)
  <2> QED BY <1>3, <2>1 DEF Item
<1>7. /\ mx[n] = Elem(h, s, k + 1) /\ mx[Elem(h, s, k)] = n
      /\ qv[n] = Elem(h, s, k) /\ qv[Elem(h, s, k + 1)] = n
  BY <1>6
<1>8. ASSUME NEW i \in 0..Len(s), i # k
      PROVE  mx[Elem(h, s, i)] = Elem(h, s, i + 1) /\ qv[Elem(h, s, i + 1)] = Elem(h, s, i)
  <2>1. i \in 0..(Len(s) + 1) /\ i + 1 \in 0..(Len(s) + 1) /\ i + 1 \in 1..(Len(s) + 1) /\ i + 1 # k + 1
    BY <1>1, <1>8, SMTT(30)
  <2>2. mx[Elem(h, s, i)] = nx[Elem(h, s, i)]
    BY <1>3, <1>4, <1>8, <2>1
  <2>3. qv[Elem(h, s, i + 1)] = pv[Elem(h, s, i + 1)]
    BY <1>3, <1>5, <2>1
  <2> QED BY <2>2, <2>3 DEF Ringed
<1>9. SUFFICES ASSUME NEW i \in 0..Len(t)
               PROVE  /\ mx[Elem(h, t, i)] = Elem(h, t, i + 1)
                      /\ qv[Elem(h, t, i + 1)] = Elem(h, t, i)
  BY DEF Ringed
<1>10. i \in 0..(Len(t) + 1) /\ i + 1 \in 0..(Len(t) + 1)
  BY <1>1, SMTT(30)
<1>11. CASE i < k
  <2>1. i <= k /\ i + 1 <= k /\ i \in 0..Len(s) /\ i # k
    BY <1>1, <1>11, SMTT(30)
  <2>2. Elem(h, t, i) = Elem(h, s, i) /\ Elem(h, t, i + 1) = Elem(h, s, i + 1)
    BY <1>2, <1>10, <2>1
  <2> QED BY <1>8, <2>1, <2>2
<1>12. CASE i = k
  <2>1. i <= k /\ ~(i + 1 <= k) /\ i + 1 = k + 1
    BY <1>1, <1>12, SMTT(30)
  <2>2. Elem(h, t, i) = Elem(h, s, k) /\ Elem(h, t, i + 1) = n
    BY <1>2, <1>10, <1>12, <2>1
  <2> QED BY <1>7, <2>2
<1>13. CASE i = k + 1
  <2>1. ~(i <= k) /\ ~(i + 1 <= k) /\ i + 1 # k + 1 /\ (i + 1) - 1 = k + 1
    BY <1>1, <1>13, SMTT(30)
  <2>2. Elem(h, t, i) = n /\ Elem(h, t, i + 1) = Elem(h, s, k + 1)
    BY <1>2, <1>10, <1>13, <2>1
  <2> QED BY <1>7, <2>2
<1>14. CASE i > k + 1
  <2>1. /\ ~(i <= k) /\ i # k + 1 /\ ~(i + 1 <= k) /\ i + 1 # k + 1 /\ (i + 1) - 1 = (i - 1) + 1
        /\ i - 1 \in 0..Len(s) /\ i - 1 # k
    BY <1>1, <1>14, SMTT(30)
  <2>2. Elem(h, t, i) = Elem(h, s, i - 1) /\ Elem(h, t, i + 1) = Elem(h, s, (i - 1) + 1)
    BY <1>2, <1>10, <2>1
  <2> QED BY <1>8, <2>1, <2>2
<1>15. i < k \/ i = k \/ i = k + 1 \/ i > k + 1
  BY <1>1, SMTT(30)
<1> QED BY <1>11, <1>12, <1>13, <1>14, <1>15

(* t is s without its k-th element. *)
Removed(s, k, t) ==
  /\ Len(t) = Len(s) - 1
  /\ \A i \in 1..Len(t) : t[i] = IF i < k THEN s[i] ELSE s[i + 1]

LEMMA RemovedElems ==
  ASSUME NEW h \in ListHead, NEW s \in Seq(ListNode), NEW t \in Seq(ListNode),
         NEW k \in 1..Len(s), Removed(s, k, t), Distinct(s)
  PROVE  /\ \A i \in 0..(Len(t) + 1) :
              Elem(h, t, i) = IF i < k THEN Elem(h, s, i) ELSE Elem(h, s, i + 1)
         /\ Distinct(t)
         /\ \A y : On(t, y) <=> y # s[k] /\ On(s, y)
<1>1. Len(s) \in Nat /\ Len(t) = Len(s) - 1 /\ Len(t) \in Nat /\ k \in Nat /\ k <= Len(s) /\ k >= 1
  BY Elems, SMTT(30) DEF Removed
<1>2. \A i \in 1..Len(t) : t[i] = IF i < k THEN s[i] ELSE s[i + 1]
  BY DEF Removed
<1>3. ASSUME NEW i \in 0..(Len(t) + 1)
      PROVE  Elem(h, t, i) = IF i < k THEN Elem(h, s, i) ELSE Elem(h, s, i + 1)
  <2>1. CASE i = 0
    BY <1>1, <2>1, SMTT(30) DEF Elem
  <2>2. CASE i = Len(t) + 1
    BY <1>1, <2>2, SMTT(30) DEF Elem
  <2>3. CASE i \in 1..Len(t)
    <3>1. /\ i # 0 /\ i # Len(t) + 1 /\ i + 1 # 0
          /\ i # Len(s) + 1 /\ i + 1 # Len(s) + 1
      BY <1>1, <2>3, SMTT(30)
    <3> QED BY <1>2, <2>3, <3>1 DEF Elem
  <2> QED BY <1>1, <2>1, <2>2, <2>3, SMTT(30)
<1>4. \A i \in 1..Len(t) : i \in 1..Len(s) /\ i + 1 \in 1..Len(s) /\ (i < k => i # k) /\ (~(i < k) => i + 1 # k)
  BY <1>1, SMTT(30)
<1>5. \A a, b \in 1..Len(s) : s[a] = s[b] => a = b
  BY DEF Distinct
<1>6. Distinct(t)
  <2> SUFFICES ASSUME NEW i \in 1..Len(t), NEW j \in 1..Len(t), t[i] = t[j] PROVE i = j
    BY DEF Distinct
  <2>1. (IF i < k THEN i ELSE i + 1) = (IF j < k THEN j ELSE j + 1)
    BY <1>2, <1>4, <1>5
  <2> QED BY <1>1, <2>1, SMTT(30)
<1>7. ASSUME NEW y PROVE On(t, y) <=> y # s[k] /\ On(s, y)
  <2>1. On(t, y) => y # s[k] /\ On(s, y)
    BY <1>2, <1>4, <1>5 DEF On
  <2>2. ASSUME NEW i \in 1..Len(s), s[i] # s[k] PROVE On(t, s[i])
    <3>1. i # k
      BY <2>2
    <3>2. CASE i < k
      <4>1. i \in 1..Len(t)
        BY <1>1, <3>2, SMTT(30)
      <4> QED BY <1>2, <3>2, <4>1 DEF On
    <3>3. CASE ~(i < k)
      <4>1. i - 1 \in 1..Len(t) /\ ~(i - 1 < k) /\ (i - 1) + 1 = i
        BY <1>1, <3>1, <3>3, SMTT(30)
      <4>2. t[i - 1] = s[i]
        BY <1>2, <4>1
      <4> QED BY <4>1, <4>2 DEF On
    <3> QED BY <3>2, <3>3
  <2> QED BY <2>1, <2>2 DEF On
<1> QED BY <1>3, <1>6, <1>7

(* The pointers of list_del make the ring of the shorter list. *)
LEMMA RingRemove ==
  ASSUME NEW h \in ListHead, NEW s \in Seq(ListNode), NEW t \in Seq(ListNode),
         NEW k \in 1..Len(s), Removed(s, k, t), Distinct(s),
         NEW nx, NEW pv, Ringed(nx, pv, h, s), NEW mx, NEW qv,
         \A y \in Item :
           /\ mx[y] = IF y = s[k] THEN NULL
                      ELSE IF y = Elem(h, s, k - 1) THEN Elem(h, s, k + 1) ELSE nx[y]
           /\ qv[y] = IF y = s[k] THEN NULL
                      ELSE IF y = Elem(h, s, k + 1) THEN Elem(h, s, k - 1) ELSE pv[y]
  PROVE  Ringed(mx, qv, h, t)
<1>1. Len(s) \in Nat /\ Len(t) = Len(s) - 1 /\ Len(t) \in Nat /\ k \in Nat /\ k <= Len(s) /\ k >= 1
  BY Elems, SMTT(30) DEF Removed
<1>2. \A i \in 0..(Len(t) + 1) : Elem(h, t, i) = IF i < k THEN Elem(h, s, i) ELSE Elem(h, s, i + 1)
  BY RemovedElems
<1>3. \A i \in 0..(Len(s) + 1) : Elem(h, s, i) \in Item
  BY Elems
<1>4. \A i, j \in 0..Len(s) : Elem(h, s, i) = Elem(h, s, j) => i = j
  BY Elems
<1>5. \A i, j \in 1..(Len(s) + 1) : Elem(h, s, i) = Elem(h, s, j) => i = j
  BY Elems
<1>6. Elem(h, s, k) = s[k] /\ k \in 0..Len(s) /\ k \in 1..(Len(s) + 1)
  BY <1>1, SMTT(30) DEF Elem
<1>7. k - 1 \in 0..Len(s) /\ k - 1 # k /\ k + 1 \in 1..(Len(s) + 1) /\ k + 1 # k
  BY <1>1, SMTT(30)
<1>8. ASSUME NEW i \in 0..Len(s), i # k, i # k - 1
      PROVE  mx[Elem(h, s, i)] = Elem(h, s, i + 1) /\ qv[Elem(h, s, i + 1)] = Elem(h, s, i)
  <2>1. /\ i \in 0..(Len(s) + 1) /\ i + 1 \in 0..(Len(s) + 1) /\ i + 1 \in 1..(Len(s) + 1)
        /\ i + 1 # k + 1 /\ i + 1 # k
    BY <1>1, <1>8, SMTT(30)
  <2>2. mx[Elem(h, s, i)] = nx[Elem(h, s, i)]
    <3>1. Elem(h, s, i) # s[k] /\ Elem(h, s, i) # Elem(h, s, k - 1)
      BY <1>4, <1>6, <1>7, <1>8
    <3> QED BY <1>3, <2>1, <3>1
  <2>3. qv[Elem(h, s, i + 1)] = pv[Elem(h, s, i + 1)]
    <3>1. Elem(h, s, i + 1) # s[k] /\ Elem(h, s, i + 1) # Elem(h, s, k + 1)
      BY <1>5, <1>6, <1>7, <2>1
    <3> QED BY <1>3, <2>1, <3>1
  <2> QED BY <2>2, <2>3 DEF Ringed
<1>9. mx[Elem(h, s, k - 1)] = Elem(h, s, k + 1) /\ qv[Elem(h, s, k + 1)] = Elem(h, s, k - 1)
  <2>1. Elem(h, s, k - 1) # s[k] /\ Elem(h, s, k + 1) # s[k]
    BY <1>4, <1>5, <1>6, <1>7
  <2>2. k - 1 \in 0..(Len(s) + 1) /\ k + 1 \in 0..(Len(s) + 1)
    BY <1>1, SMTT(30)
  <2> QED BY <1>3, <2>1, <2>2
<1>10. SUFFICES ASSUME NEW i \in 0..Len(t)
                PROVE  /\ mx[Elem(h, t, i)] = Elem(h, t, i + 1)
                       /\ qv[Elem(h, t, i + 1)] = Elem(h, t, i)
  BY DEF Ringed
<1>11. i \in 0..(Len(t) + 1) /\ i + 1 \in 0..(Len(t) + 1)
  BY <1>1, SMTT(30)
<1>12. CASE i + 1 < k
  <2>1. i < k /\ i \in 0..Len(s) /\ i # k /\ i # k - 1
    BY <1>1, <1>12, SMTT(30)
  <2>2. Elem(h, t, i) = Elem(h, s, i) /\ Elem(h, t, i + 1) = Elem(h, s, i + 1)
    BY <1>2, <1>11, <1>12, <2>1
  <2> QED BY <1>8, <2>1, <2>2
<1>13. CASE i + 1 = k
  <2>1. i < k /\ ~(i + 1 < k) /\ i = k - 1
    BY <1>1, <1>13, SMTT(30)
  <2>2. Elem(h, t, i) = Elem(h, s, k - 1) /\ Elem(h, t, i + 1) = Elem(h, s, k + 1)
    BY <1>2, <1>11, <1>13, <2>1
  <2> QED BY <1>9, <2>2
<1>14. CASE i + 1 > k
  <2>1. ~(i < k) /\ ~(i + 1 < k) /\ i + 1 \in 0..Len(s) /\ i + 1 # k /\ i + 1 # k - 1
    BY <1>1, <1>14, SMTT(30)
  <2>2. Elem(h, t, i) = Elem(h, s, i + 1) /\ Elem(h, t, i + 1) = Elem(h, s, (i + 1) + 1)
    BY <1>2, <1>11, <2>1
  <2> QED BY <1>8, <2>1, <2>2
<1>15. i + 1 < k \/ i + 1 = k \/ i + 1 > k
  BY <1>1, SMTT(30)
<1> QED BY <1>12, <1>13, <1>14, <1>15

LEMMA Concatenated ==
  ASSUME NEW S, NEW a \in Seq(S), NEW b \in Seq(S)
  PROVE  /\ a \o b \in Seq(S) /\ Len(a \o b) = Len(a) + Len(b) /\ Len(a) \in Nat /\ Len(b) \in Nat
         /\ \A i \in 1..(Len(a) + Len(b)) : (a \o b)[i] = IF i <= Len(a) THEN a[i] ELSE b[i - Len(a)]
  BY SMTT(30)

LEMMA WithoutRemoved ==
  ASSUME NEW s \in Seq(ListNode), Distinct(s), NEW k \in 1..Len(s)
  PROVE  Without(s, s[k]) \in Seq(ListNode) /\ Removed(s, k, Without(s, s[k]))
<1> DEFINE a == SubSeq(s, 1, k - 1)
           b == SubSeq(s, k + 1, Len(s))
<1>1. Without(s, s[k]) = a \o b
  <2>1. IndexOf(s, s[k]) = k
    BY DEF Distinct, IndexOf
  <2> QED BY <2>1 DEF Without
<1>2. a \in Seq(ListNode) /\ Len(a) = k - 1 /\ \A i \in 1..(k - 1) : a[i] = s[i]
  BY SMTT(30)
<1>3. b \in Seq(ListNode) /\ Len(b) = Len(s) - k /\ \A i \in 1..(Len(s) - k) : b[i] = s[k + i]
  BY SMTT(30)
<1> HIDE DEF a, b
<1>5. /\ a \o b \in Seq(ListNode) /\ Len(a \o b) = Len(a) + Len(b)
      /\ \A i \in 1..(Len(a) + Len(b)) : (a \o b)[i] = IF i <= Len(a) THEN a[i] ELSE b[i - Len(a)]
  BY <1>2, <1>3, Concatenated
<1>6. Len(s) \in Nat
  BY SMTT(30)
<1>7. Len(a) + Len(b) = Len(s) - 1
  BY <1>2, <1>3, <1>6, SMTT(30)
<1>8. ASSUME NEW i \in 1..(Len(s) - 1) PROVE (a \o b)[i] = IF i < k THEN s[i] ELSE s[i + 1]
  <2>1. CASE i < k
    <3>1. i <= k - 1 /\ i \in 1..(k - 1)
      BY <1>6, <2>1, SMTT(30)
    <3> QED BY <1>2, <1>5, <1>7, <2>1, <3>1
  <2>2. CASE ~(i < k)
    <3>1. ~(i <= k - 1) /\ i - (k - 1) \in 1..(Len(s) - k) /\ k + (i - (k - 1)) = i + 1
      BY <1>6, <2>2, SMTT(30)
    <3>2. (a \o b)[i] = b[i - (k - 1)] /\ b[i - (k - 1)] = s[k + (i - (k - 1))]
      BY <1>2, <1>3, <1>5, <1>7, <3>1
    <3> QED BY <2>2, <3>1, <3>2
  <2> QED BY <2>1, <2>2
<1> QED BY <1>1, <1>5, <1>7, <1>8 DEF Removed

-----------------------------------------------------------------------------
(* The invariant. *)

LEMMA ListInit ==
  ASSUME list_init
  PROVE  LInv
<1>1. /\ next = [x \in Item |-> IF x \in ListHead THEN x ELSE NULL] /\ prev = next
      /\ content = [h \in ListHead |-> <<>>]
  BY DEF list_init, Item
<1>2. <<>> \in Seq(ListNode) /\ Len(<<>>) = 0 /\ \A n : ~On(<<>>, n)
  BY SMTT(30) DEF On
<1>3. ListTypes
  BY <1>1, <1>2 DEF ListTypes, Item
<1>4. ASSUME NEW h \in ListHead PROVE Distinct(content[h]) /\ Ringed(next, prev, h, content[h])
  <2>1. content[h] = <<>> /\ next[h] = h /\ prev[h] = h
    BY <1>1 DEF Item
  <2>2. \A i : ~(i \in 1..0)
    BY SMTT(30)
  <2>3. \A i \in 0..0 : i = 0 /\ i + 1 = 0 + 1
    BY SMTT(30)
  <2> QED BY <1>2, <2>1, <2>2, <2>3 DEF Distinct, Ringed, Elem
<1>5. Apart /\ Unlinked
  BY <1>1, <1>2, ListAssumption DEF Apart, Unlinked, Item
<1> QED BY <1>3, <1>4, <1>5 DEF LInv

(* Adding a node that is on no list after the k-th element of a list. *)
LEMMA AddStep ==
  ASSUME LInv, NEW n \in ListNode, next[n] = NULL, NEW h \in ListHead,
         NEW k \in 0..Len(content[h]), NEW t \in Seq(ListNode), Inserted(content[h], k, n, t),
         __list_add(n, Elem(h, content[h], k), Elem(h, content[h], k + 1)),
         content' = [content EXCEPT ![h] = t]
  PROVE  LInv'
<1>new. PICK s, p, x : s = content[h] /\ p = Elem(h, s, k) /\ x = Elem(h, s, k + 1)
  OBVIOUS
<1>1. /\ s \in Seq(ListNode) /\ Distinct(s) /\ Ringed(next, prev, h, s) /\ ~On(s, n)
      /\ \A g \in ListHead : content[g] \in Seq(ListNode) /\ ~On(content[g], n)
  BY <1>new DEF LInv, ListTypes, Unlinked
<1>2. p \in Item /\ x \in Item /\ (p = h \/ On(s, p)) /\ (x = h \/ On(s, x)) /\ p # NULL /\ x # NULL
  <2>1. k \in 0..(Len(s) + 1) /\ k + 1 \in 0..(Len(s) + 1) /\ Len(s) \in Nat
    BY <1>new, <1>1, Elems, SMTT(30)
  <2> QED BY <1>new, <1>1, <2>1, Elems
<1>3. n \in Item /\ n # p /\ n # x /\ n # NULL
  BY <1>1, <1>2, ListAssumption DEF Item
<1>4. /\ next' = [next EXCEPT ![n] = x, ![p] = n] /\ prev' = [prev EXCEPT ![x] = n, ![n] = p]
      /\ next \in [Item -> Item \cup {NULL}] /\ prev \in [Item -> Item \cup {NULL}]
  BY <1>new DEF __list_add, LInv, ListTypes
<1>5. \A y \in Item : /\ next'[y] = IF y = n THEN x ELSE IF y = p THEN n ELSE next[y]
                      /\ prev'[y] = IF y = n THEN p ELSE IF y = x THEN n ELSE prev[y]
  BY <1>2, <1>3, <1>4
<1>6. \A g \in ListHead : content'[g] = IF g = h THEN t ELSE content[g]
  BY DEF LInv, ListTypes
<1>7. ListTypes'
  <2>1. next' \in [Item -> Item \cup {NULL}] /\ prev' \in [Item -> Item \cup {NULL}]
    BY <1>2, <1>3, <1>4
  <2> QED BY <2>1 DEF LInv, ListTypes, Item
<1>8. Distinct(t) /\ \A y : On(t, y) <=> y = n \/ On(s, y)
  BY <1>new, <1>1, InsertedElems
<1>9. Ringed(next', prev', h, t)
  BY <1>new, <1>1, <1>5, RingInsert, SMTT(30)
<1>10. ASSUME NEW g \in ListHead, g # h
       PROVE  Distinct(content[g]) /\ Ringed(next', prev', g, content[g])
  <2>1. /\ Distinct(content[g]) /\ Ringed(next, prev, g, content[g])
        /\ content[g] \in Seq(ListNode) /\ ~On(content[g], n)
    BY <1>1 DEF LInv
  <2>2. ASSUME NEW y, y = g \/ On(content[g], y) PROVE next'[y] = next[y] /\ prev'[y] = prev[y]
    <3>1. y \in Item
      BY <2>1, <2>2, Elems, SMTT(30) DEF On, Item
    <3>2. y # n /\ y # h /\ ~On(s, y)
      <4>1. CASE y = g
        BY <1>1, <1>10, <4>1, Elems, ListAssumption, SMTT(30) DEF On
      <4>2. CASE On(content[g], y)
        <5>1. y \in ListNode
          BY <2>1, <4>2, Elems, SMTT(30) DEF On
        <5> QED BY <1>new, <1>10, <2>1, <4>2, <5>1, ListAssumption DEF LInv, Apart
      <4> QED BY <2>2, <4>1, <4>2
    <3> QED BY <1>2, <1>5, <3>1, <3>2
  <2> QED BY <2>1, <2>2, RingSame
<1>11. \A g \in ListHead : Distinct(content'[g]) /\ Ringed(next', prev', g, content'[g])
  BY <1>6, <1>8, <1>9, <1>10
<1>12. \A g \in ListHead : \A y : On(content'[g], y) <=> On(content[g], y) \/ (g = h /\ y = n)
  BY <1>new, <1>6, <1>8
<1>13. Apart'
  <2>1. ASSUME NEW f \in ListHead, NEW g \in ListHead, NEW y \in ListNode,
               On(content'[f], y), On(content'[g], y)
        PROVE  f = g
    <3>1. CASE y = n
      BY <1>1, <1>12, <2>1, <3>1
    <3>2. CASE y # n
      <4>1. On(content[f], y) /\ On(content[g], y)
        BY <1>12, <2>1, <3>2
      <4> QED BY <4>1 DEF LInv, Apart
    <3> QED BY <3>1, <3>2
  <2> QED BY <2>1 DEF Apart
<1>14. Unlinked'
  <2>1. ASSUME NEW m \in ListNode
        PROVE  next'[m] = NULL <=> \A g \in ListHead : ~On(content'[g], m)
    <3>1. CASE m = n
      BY <1>2, <1>3, <1>5, <1>12, <3>1
    <3>2. CASE m # n /\ m = p
      <4>1. On(content[h], m)
        BY <1>new, <1>2, <3>2, ListAssumption
      <4> QED BY <1>2, <1>3, <1>5, <1>12, <3>2, <4>1
    <3>3. CASE m # n /\ m # p
      <4>1. next'[m] = next[m]
        BY <1>5, <3>3 DEF Item
      <4>2. next[m] = NULL <=> \A g \in ListHead : ~On(content[g], m)
        BY DEF LInv, Unlinked
      <4> QED BY <1>12, <3>3, <4>1, <4>2
    <3> QED BY <3>1, <3>2, <3>3
  <2> QED BY <2>1 DEF Unlinked
<1> QED BY <1>7, <1>11, <1>13, <1>14 DEF LInv

LEMMA HeadStep ==
  ASSUME LInv, NEW n \in ListNode, NEW h \in ListHead, list_add(n, h)
  PROVE  LInv'
<1>new. PICK s, t : s = content[h] /\ t = <<n>> \o s
  OBVIOUS
<1>1. s \in Seq(ListNode) /\ Distinct(s) /\ Ringed(next, prev, h, s) /\ Len(s) \in Nat
  BY <1>new, Elems DEF LInv, ListTypes
<1>2. <<n>> \in Seq(ListNode) /\ Len(<<n>>) = 1 /\ <<n>>[1] = n
  BY SMTT(30)
<1>3. t \in Seq(ListNode) /\ Inserted(s, 0, n, t)
  <2>1. /\ t \in Seq(ListNode) /\ Len(t) = 1 + Len(s)
        /\ \A i \in 1..(1 + Len(s)) : t[i] = IF i <= 1 THEN <<n>>[i] ELSE s[i - 1]
    BY <1>new, <1>1, <1>2, Concatenated
  <2>2. \A i \in 1..(1 + Len(s)) : ~(i <= 0) /\ (i <= 1 <=> i = 0 + 1) /\ (i = 0 + 1 => i = 1)
    BY <1>1, SMTT(30)
  <2>3. 1 + Len(s) = Len(s) + 1
    BY <1>1, SMTT(30)
  <2> QED BY <1>2, <2>1, <2>2, <2>3 DEF Inserted
<1>4. 0 \in 0..Len(s) /\ Elem(h, s, 0) = h
  BY <1>1, SMTT(30) DEF Elem
<1>5. next[h] = Elem(h, s, 0 + 1)
  BY <1>1, <1>4 DEF Ringed
<1>6. /\ next[n] = NULL /\ __list_add(n, Elem(h, s, 0), Elem(h, s, 0 + 1))
      /\ content' = [content EXCEPT ![h] = t]
  BY <1>new, <1>4, <1>5 DEF list_add
<1> QED BY <1>new, <1>3, <1>4, <1>6, AddStep

LEMMA TailStep ==
  ASSUME LInv, NEW n \in ListNode, NEW h \in ListHead, list_add_tail(n, h)
  PROVE  LInv'
<1>new. PICK s, t, k : s = content[h] /\ t = Append(s, n) /\ k = Len(s)
  OBVIOUS
<1>1. s \in Seq(ListNode) /\ Distinct(s) /\ Ringed(next, prev, h, s) /\ k \in Nat /\ k = Len(s)
  BY <1>new, Elems DEF LInv, ListTypes
<1>2. t \in Seq(ListNode) /\ Inserted(s, k, n, t)
  <2>1. /\ t \in Seq(ListNode) /\ Len(t) = k + 1
        /\ \A i \in 1..(k + 1) : t[i] = IF i = k + 1 THEN n ELSE s[i]
    BY <1>new, <1>1, SMTT(30)
  <2>2. \A i \in 1..(k + 1) : i <= k <=> i # k + 1
    BY <1>1, SMTT(30)
  <2> QED BY <1>1, <2>1, <2>2 DEF Inserted
<1>3. k \in 0..k /\ Elem(h, s, k + 1) = h
  BY <1>1, SMTT(30) DEF Elem
<1>4. prev[h] = Elem(h, s, k)
  BY <1>1, <1>3 DEF Ringed
<1>5. /\ next[n] = NULL /\ __list_add(n, Elem(h, s, k), Elem(h, s, k + 1))
      /\ content' = [content EXCEPT ![h] = t]
  BY <1>new, <1>3, <1>4 DEF list_add_tail
<1> QED BY <1>new, <1>2, <1>3, <1>5, AddStep

LEMMA DelStep ==
  ASSUME LInv, NEW n \in ListNode, list_del(n)
  PROVE  LInv'
<1>1. PICK h \in ListHead : On(content[h], n)
  BY DEF list_del, LInv, Unlinked
<1>2. PICK k \in 1..Len(content[h]) : content[h][k] = n
  BY <1>1 DEF On
<1>new. PICK s, p, x, t :
          /\ s = content[h] /\ p = Elem(h, s, k - 1) /\ x = Elem(h, s, k + 1)
          /\ t = Without(s, n)
  OBVIOUS
<1>3. /\ s \in Seq(ListNode) /\ Distinct(s) /\ Ringed(next, prev, h, s) /\ Len(s) \in Nat
      /\ k \in 1..Len(s) /\ s[k] = n
  BY <1>new, <1>2, Elems DEF LInv, ListTypes
<1>4. t \in Seq(ListNode) /\ Removed(s, k, t)
  BY <1>new, <1>3, WithoutRemoved
<1>5. /\ k - 1 \in 0..Len(s) /\ (k - 1) + 1 = k /\ k \in 0..Len(s) /\ k # 0 /\ k # Len(s) + 1
      /\ k - 1 \in 0..(Len(s) + 1) /\ k + 1 \in 0..(Len(s) + 1)
  BY <1>3, SMTT(30)
<1>6. p \in Item /\ x \in Item /\ (p = h \/ On(s, p)) /\ (x = h \/ On(s, x)) /\ p # NULL /\ x # NULL
  BY <1>new, <1>3, <1>5, Elems
<1>7. next[n] = x /\ prev[n] = p
  <2>1. Elem(h, s, k) = n
    BY <1>3, <1>5 DEF Elem
  <2>2. next[Elem(h, s, k)] = x /\ prev[Elem(h, s, (k - 1) + 1)] = p
    BY <1>new, <1>3, <1>5 DEF Ringed
  <2> QED BY <1>5, <2>1, <2>2
<1>8. /\ next' = [next EXCEPT ![p] = x, ![n] = NULL] /\ prev' = [prev EXCEPT ![x] = p, ![n] = NULL]
      /\ next \in [Item -> Item \cup {NULL}] /\ prev \in [Item -> Item \cup {NULL}] /\ n \in Item
  BY <1>7 DEF list_del, LInv, ListTypes, Item
<1>9. \A y \in Item : /\ next'[y] = IF y = n THEN NULL ELSE IF y = p THEN x ELSE next[y]
                      /\ prev'[y] = IF y = n THEN NULL ELSE IF y = x THEN p ELSE prev[y]
  BY <1>6, <1>8
<1>10. \A g \in ListHead \ {h} : ~On(content[g], n)
  BY <1>1 DEF LInv, Apart
<1>11. \A g \in ListHead : content'[g] = IF g = h THEN t ELSE content[g]
  <2>1. \A g \in ListHead : content'[g] = Without(content[g], n)
    BY DEF list_del
  <2>2. \A g \in ListHead \ {h} : Without(content[g], n) = content[g]
    BY <1>10 DEF Without, On
  <2> QED BY <1>new, <2>1, <2>2
<1>12. ListTypes'
  <2>1. next' \in [Item -> Item \cup {NULL}] /\ prev' \in [Item -> Item \cup {NULL}]
    BY <1>6, <1>8
  <2>2. content' = [g \in ListHead |-> Without(content[g], n)]
    BY DEF list_del
  <2>3. \A g \in ListHead : content'[g] \in Seq(ListNode)
    BY <1>4, <1>11 DEF LInv, ListTypes
  <2>4. content' \in [ListHead -> Seq(ListNode)]
    BY <2>2, <2>3
  <2> QED BY <2>1, <2>4 DEF ListTypes, Item
<1>13. Distinct(t) /\ \A y : On(t, y) <=> y # n /\ On(s, y)
  BY <1>3, <1>4, RemovedElems, SMTT(30)
<1>14. Ringed(next', prev', h, t)
  <2>1. \A y \in Item :
          /\ next'[y] = IF y = s[k] THEN NULL
                        ELSE IF y = Elem(h, s, k - 1) THEN Elem(h, s, k + 1) ELSE next[y]
          /\ prev'[y] = IF y = s[k] THEN NULL
                        ELSE IF y = Elem(h, s, k + 1) THEN Elem(h, s, k - 1) ELSE prev[y]
    BY <1>new, <1>3, <1>9
  <2> QED BY <1>3, <1>4, <2>1, RingRemove, SMTT(30)
<1>15. ASSUME NEW g \in ListHead, g # h
       PROVE  Distinct(content[g]) /\ Ringed(next', prev', g, content[g])
  <2>1. /\ Distinct(content[g]) /\ Ringed(next, prev, g, content[g])
        /\ content[g] \in Seq(ListNode) /\ ~On(content[g], n)
    BY <1>10, <1>15 DEF LInv, ListTypes
  <2>2. ASSUME NEW y, y = g \/ On(content[g], y) PROVE next'[y] = next[y] /\ prev'[y] = prev[y]
    <3>1. y \in Item
      <4>1. CASE y = g
        BY <4>1 DEF Item
      <4>2. CASE On(content[g], y)
        <5>1. y \in ListNode
          BY <2>1, <4>2, Elems DEF On
        <5> QED BY <5>1 DEF Item
      <4> QED BY <2>2, <4>1, <4>2
    <3>2. y # n /\ y # h /\ ~On(s, y)
      <4>1. CASE y = g
        BY <1>3, <1>15, <4>1, Elems, ListAssumption DEF On
      <4>2. CASE On(content[g], y)
        <5>1. y \in ListNode
          BY <2>1, <4>2, Elems DEF On
        <5> QED BY <1>new, <1>15, <2>1, <4>2, <5>1, ListAssumption DEF LInv, Apart
      <4> QED BY <2>2, <4>1, <4>2
    <3> QED BY <1>6, <1>9, <3>1, <3>2
  <2> QED BY <2>1, <2>2, RingSame, SMTT(30)
<1>16. \A g \in ListHead : Distinct(content'[g]) /\ Ringed(next', prev', g, content'[g])
  BY <1>11, <1>13, <1>14, <1>15
<1>17. \A g \in ListHead : \A y : On(content'[g], y) <=> On(content[g], y) /\ y # n
  BY <1>new, <1>10, <1>11, <1>13
<1>18. Apart'
  BY <1>17 DEF LInv, Apart
<1>19. Unlinked'
  <2>1. ASSUME NEW m \in ListNode
        PROVE  next'[m] = NULL <=> \A g \in ListHead : ~On(content'[g], m)
    <3>1. CASE m = n
      BY <1>8, <1>9, <1>17, <3>1
    <3>2. CASE m # n /\ m = p
      <4>1. On(content[h], m)
        BY <1>new, <1>6, <3>2, ListAssumption
      <4> QED BY <1>6, <1>9, <1>17, <3>2, <4>1
    <3>3. CASE m # n /\ m # p
      <4>1. next'[m] = next[m]
        BY <1>9, <3>3 DEF Item
      <4>2. next[m] = NULL <=> \A g \in ListHead : ~On(content[g], m)
        BY DEF LInv, Unlinked
      <4> QED BY <1>17, <3>3, <4>1, <4>2
    <3> QED BY <3>1, <3>2, <3>3
  <2> QED BY <2>1 DEF Unlinked
<1> QED BY <1>12, <1>16, <1>18, <1>19 DEF LInv

LEMMA ListStep ==
  ASSUME LInv, [ListNext]_listVars
  PROVE  LInv'
<1>1. CASE UNCHANGED listVars
  BY <1>1 DEF listVars, LInv, ListTypes, Apart, Unlinked
<1>2. CASE ListNext
  BY <1>2, HeadStep, TailStep, DelStep DEF ListNext
<1> QED BY <1>1, <1>2

LEMMA RingElem ==
  ASSUME NEW h \in ListHead, content[h] \in Seq(ListNode)
  PROVE  \A i \in 0..(Len(content[h]) + 1) : Ring(h)[i + 1] = Elem(h, content[h], i)
<1>new. PICK s : s = content[h]
  OBVIOUS
<1>1. s \in Seq(Item) /\ <<h>> \in Seq(Item) /\ Len(<<h>>) = 1 /\ <<h>>[1] = h /\ Len(s) \in Nat
  BY <1>new, SMTT(30) DEF Item
<1>new2. PICK a : a = <<h>> \o s
  OBVIOUS
<1>2. /\ a \in Seq(Item) /\ Len(a) = 1 + Len(s)
      /\ \A i \in 1..(1 + Len(s)) : a[i] = IF i <= 1 THEN <<h>>[i] ELSE s[i - 1]
  BY <1>new2, <1>1, Concatenated
<1>3. \A i \in 1..(1 + Len(s) + 1) :
        (a \o <<h>>)[i] = IF i <= 1 + Len(s) THEN a[i] ELSE <<h>>[i - (1 + Len(s))]
  BY <1>1, <1>2, Concatenated, SMTT(30)
<1>4. Ring(h) = a \o <<h>>
  BY <1>new, <1>new2 DEF Ring
<1>5. ASSUME NEW i \in 0..(Len(s) + 1) PROVE Ring(h)[i + 1] = Elem(h, s, i)
  <2>0. i + 1 \in 1..(1 + Len(s) + 1)
    BY <1>1, SMTT(30)
  <2>1. CASE i = 0
    <3>1. i + 1 = 1 /\ 1 <= 1 + Len(s) /\ 1 \in 1..(1 + Len(s)) /\ 1 <= 1
      BY <1>1, <2>1, SMTT(30)
    <3> QED BY <1>1, <1>2, <1>3, <1>4, <2>0, <2>1, <3>1 DEF Elem
  <2>2. CASE i \in 1..Len(s)
    <3>1. /\ i + 1 <= 1 + Len(s) /\ i + 1 \in 1..(1 + Len(s)) /\ ~(i + 1 <= 1) /\ (i + 1) - 1 = i
          /\ i # 0 /\ i # Len(s) + 1
      BY <1>1, <2>2, SMTT(30)
    <3>2. Ring(h)[i + 1] = a[i + 1]
      BY <1>3, <1>4, <2>0, <3>1
    <3>3. a[i + 1] = s[i]
      BY <1>2, <3>1
    <3> QED BY <3>1, <3>2, <3>3 DEF Elem
  <2>3. CASE i = Len(s) + 1
    <3>1. ~(i + 1 <= 1 + Len(s)) /\ (i + 1) - (1 + Len(s)) = 1
      BY <1>1, <2>3, SMTT(30)
    <3> QED BY <1>1, <1>3, <1>4, <2>0, <2>3, <3>1 DEF Elem
  <2>4. i = 0 \/ i \in 1..Len(s) \/ i = Len(s) + 1
    BY <1>1, SMTT(30)
  <2> QED BY <2>1, <2>2, <2>3, <2>4
<1> QED BY <1>new, <1>5

LEMMA ListExact ==
  ASSUME LInv
  PROVE  RingsExact
<1>1. ASSUME NEW h \in ListHead
      PROVE  /\ \A i \in 1..(Len(content[h]) + 1) : /\ next[Ring(h)[i]] = Ring(h)[i + 1]
                                                    /\ prev[Ring(h)[i + 1]] = Ring(h)[i]
             /\ list_empty(h) <=> content[h] = <<>>
  <2>new. PICK s : s = content[h]
    OBVIOUS
  <2>1. s \in Seq(ListNode) /\ Distinct(s) /\ Ringed(next, prev, h, s) /\ Len(s) \in Nat
    BY <2>new, Elems DEF LInv, ListTypes
  <2>2. ASSUME NEW i \in 1..(Len(s) + 1)
        PROVE  next[Ring(h)[i]] = Ring(h)[i + 1] /\ prev[Ring(h)[i + 1]] = Ring(h)[i]
    <3>1. /\ i - 1 \in 0..Len(s) /\ (i - 1) + 1 = i /\ i - 1 \in 0..(Len(s) + 1)
          /\ i \in 0..(Len(s) + 1)
      BY <2>1, SMTT(30)
    <3>2. Ring(h)[(i - 1) + 1] = Elem(h, s, i - 1) /\ Ring(h)[i + 1] = Elem(h, s, i)
      BY <2>new, <2>1, <3>1, RingElem
    <3>3. next[Elem(h, s, i - 1)] = Elem(h, s, (i - 1) + 1) /\ prev[Elem(h, s, (i - 1) + 1)] = Elem(h, s, i - 1)
      BY <2>1, <3>1 DEF Ringed
    <3> QED BY <3>1, <3>2, <3>3
  <2>3. next[h] = Elem(h, s, 1)
    <3>1. 0 \in 0..Len(s) /\ 0 + 1 = 1
      BY <2>1, SMTT(30)
    <3>2. next[Elem(h, s, 0)] = Elem(h, s, 0 + 1)
      BY <2>1, <3>1 DEF Ringed
    <3>3. Elem(h, s, 0) = h
      BY DEF Elem
    <3> QED BY <3>1, <3>2, <3>3
  <2>4. CASE s = <<>>
    <3>1. Len(s) + 1 = 1
      BY <2>4, SMTT(30)
    <3>2. Elem(h, s, 1) = h
      BY <3>1 DEF Elem
    <3> QED BY <2>new, <2>2, <2>3, <2>4, <3>2 DEF list_empty
  <2>5. CASE s # <<>>
    <3>1. 1 \in 1..Len(s) /\ Len(s) + 1 # 1 /\ 1 # 0
      BY <2>1, <2>5, SMTT(30)
    <3>2. Elem(h, s, 1) = s[1] /\ s[1] # h
      BY <2>1, <3>1, Elems, ListAssumption, SMTT(30) DEF Elem
    <3> QED BY <2>new, <2>2, <2>3, <2>5, <3>2 DEF list_empty
  <2> QED BY <2>4, <2>5
<1>2. ASSUME NEW g \in ListHead, NEW h \in ListHead,
             NEW i \in 1..Len(content[g]), NEW j \in 1..Len(content[h]), content[g][i] = content[h][j]
      PROVE  g = h /\ i = j
  <2>1. On(content[g], content[g][i]) /\ On(content[h], content[g][i]) /\ content[g][i] \in ListNode
    BY <1>2, Elems DEF LInv, ListTypes
  <2>2. g = h
    BY <2>1 DEF LInv, Apart
  <2> QED BY <1>2, <2>2 DEF LInv, Distinct
<1>3. \A n \in ListNode :
        next[n] = NULL <=> \A h \in ListHead : \A i \in 1..Len(content[h]) : content[h][i] # n
  BY DEF LInv, Unlinked, On
<1> QED BY <1>1, <1>2, <1>3 DEF RingsExact

(* After any calls of list_add, list_add_tail and list_del on any number   *)
(* of lists, the pointers from each head are the ring of its nodes, both   *)
(* ways; no node is on two lists or twice on one, and the null pointers    *)
(* tell the nodes that are on none.                                        *)
THEOREM ListsAreRings == ListSpec => []RingsExact
<1>1. ListSpec => []LInv
  BY ListInit, ListStep, PTL DEF ListSpec
<1> QED BY <1>1, ListExact, PTL
=============================================================================
