--------------------------------- MODULE Vma ---------------------------------
(***************************************************************************)
(* The root server's address ranges, user/vma.c: a range is a node of a    *)
(* fixed pool, which is in an RbTree by start address and in a list        *)
(* between its neighbours, or on the free list, linked through next.       *)
(***************************************************************************)
EXTENDS RbTree, SequencesExt

CONSTANTS
  MaxAddr,   \* addresses are 0 .. MaxAddr
  Pool       \* vma_pool, a sequence of the nodes

VARIABLES
  tree,
  start, end,    \* the ranges
  prev, next,    \* the list, and the free list
  first, last,
  vma_free

vars == <<tree, start, end, prev, next, first, last, vma_free>>

vma_set_init ==
  /\ tree = Empty
  /\ first = Nil /\ last = Nil
  /\ next = [v \in Node |-> LET i == CHOOSE i \in 1..Len(Pool) : Pool[i] = v
                            IN IF i = Len(Pool) THEN Nil ELSE Pool[i + 1]]
  /\ vma_free = Pool[1]

Init ==
  /\ vma_set_init
  /\ prev = [v \in Node |-> Nil]
  /\ start = [v \in Node |-> 0] /\ end = [v \in Node |-> 0]

(* the neighbours of a range that starts at s *)
NextOf(s) == RB_NFIND(tree, start, s)

PrevOf(s) == IF NextOf(s) # Nil THEN Step(tree, "L", NextOf(s)) ELSE RB_MINMAX(tree, "R")

(* vma_insert returns -1 *)
Refused(s, e) ==
  \/ PrevOf(s) # Nil /\ end[PrevOf(s)] > s
  \/ NextOf(s) # Nil /\ start[NextOf(s)] < e
  \/ vma_free = Nil

vma_insert(s, e) ==
  LET v == vma_free
      p == PrevOf(s)
      n == NextOf(s)
  IN
  /\ ~Refused(s, e)
  /\ vma_free' = next[v]
  /\ start' = [start EXCEPT ![v] = s]
  /\ end' = [end EXCEPT ![v] = e]
  /\ next' = [x \in Node |-> IF x = v THEN n ELSE IF x = p THEN v ELSE next[x]]
  /\ prev' = [x \in Node |-> IF x = v THEN p ELSE IF x = n THEN v ELSE prev[x]]
  /\ first' = IF p = Nil THEN v ELSE first
  /\ last' = IF n = Nil THEN v ELSE last
  /\ tree' = RB_INSERT(tree, start', v)

Holds(v, a) == v # Nil /\ start[v] <= a /\ a < end[v]

(* the range that holds address a; the tree must not be empty *)
vma_find(a) ==
  LET n == RB_NFIND(tree, start, a)
      v == IF n # Nil THEN n ELSE RB_MINMAX(tree, "R")
      p == Step(tree, "L", v)
  IN IF Holds(v, a) THEN v ELSE IF Holds(p, a) THEN p ELSE Nil

(* Mutant of Unlinked: the links of the neighbours are left alone. *)
UnlinkedNot(v, link, other) == link

(* v's neighbour on the other side gets v's link *)
Unlinked(v, link, other) ==
  IF other[v] = Nil THEN link ELSE [link EXCEPT ![other[v]] = link[v]]

(* What a free node holds but next does not matter: vma_insert sets it.   *)
vma_remove(v) ==
  /\ v \in Node
  /\ next' = [Unlinked(v, next, prev) EXCEPT ![v] = vma_free]
  /\ prev' = [Unlinked(v, prev, next) EXCEPT ![v] = Nil]
  /\ first' = IF prev[v] = Nil THEN next[v] ELSE first
  /\ last' = IF next[v] = Nil THEN prev[v] ELSE last
  /\ tree' = RB_REMOVE(tree, v)
  /\ vma_free' = v
  /\ start' = [start EXCEPT ![v] = 0]
  /\ end' = [end EXCEPT ![v] = 0]

(* the nodes linked from v *)
RECURSIVE Linked(_, _, _)
Linked(link, v, fuel) ==
  IF v = Nil \/ fuel = 0 THEN <<>> ELSE <<v>> \o Linked(link, link[v], fuel - 1)

Chain(link, v) == Linked(link, v, Len(Pool) + 1)
InUse == ToSet(Chain(next, first))

Next ==
  \/ \E s \in 0..MaxAddr, e \in 0..MaxAddr : s < e /\ vma_insert(s, e)
  \/ \E v \in InUse : vma_remove(v)

Spec == Init /\ [][Next]_vars

-----------------------------------------------------------------------------
(* Properties. *)

RECURSIVE InOrder(_)
InOrder(n) ==
  IF n = Nil THEN <<>> ELSE InOrder(tree.child["L"][n]) \o <<n>> \o InOrder(tree.child["R"][n])

(* The list and the tree hold the same ranges in the same order, forwards  *)
(* and backwards, and the free list has all other nodes, each once.        *)
ListIsTree ==
  /\ Chain(next, first) = InOrder(tree.root)
  /\ Chain(prev, last) = Reverse(InOrder(tree.root))
  /\ IsInjective(Chain(next, vma_free))
  /\ ToSet(Chain(next, vma_free)) = Node \ InUse

(* The ranges are disjoint and sorted, and vma_insert refuses a range      *)
(* exactly when it would overlap one or no node is left.                   *)
RangesExact ==
  /\ \A v \in InUse : start[v] < end[v] /\ (next[v] # Nil => end[v] <= start[next[v]])
  /\ \A s \in 0..MaxAddr, e \in 0..MaxAddr : s < e =>
       (Refused(s, e) <=> \/ \E v \in InUse : start[v] < e /\ s < end[v]
                          \/ vma_free = Nil)

(* vma_find finds the range that holds an address, if there is any range.  *)
FindExact ==
  InUse # {} => \A a \in 0..MaxAddr :
    vma_find(a) = IF \E v \in InUse : a \in start[v]..(end[v] - 1)
                  THEN CHOOSE v \in InUse : a \in start[v]..(end[v] - 1) ELSE Nil
=============================================================================
