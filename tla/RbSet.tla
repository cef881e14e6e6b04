-------------------------------- MODULE RbSet --------------------------------
(***************************************************************************)
(* A set of numbers kept in an RbTree: every node is its own key, so that  *)
(* all the shapes the tree can take are reached.                           *)
(***************************************************************************)
EXTENDS RbTree, FiniteSetsExt

CONSTANT MaxKey

VARIABLES tree, members

vars == <<tree, members>>

Key == [n \in Node |-> n]

Init == tree = Empty /\ members = {}

Insert(n) ==
  /\ tree' = RB_INSERT(tree, Key, n)
  /\ members' = members \cup {n}

Remove(n) ==
  /\ n \in members
  /\ tree' = RB_REMOVE(tree, n)
  /\ members' = members \ {n}

Next == \E n \in Node : Insert(n) \/ Remove(n)

Spec == Init /\ [][Next]_vars

-----------------------------------------------------------------------------
(* Properties. *)

(* the nodes below n; at most Cardinality(Node) steps down *)
RECURSIVE Below(_, _, _)
Below(T, n, fuel) ==
  IF n = Nil \/ fuel = 0 THEN {}
  ELSE {n} \cup Below(T, T.child["L"][n], fuel - 1) \cup Below(T, T.child["R"][n], fuel - 1)

Under(T, n) == Below(T, n, Cardinality(Node) + 1)

(* Whatever is inserted and removed, in whatever order, the tree holds the *)
(* members and nothing else, in search order, and every parent pointer     *)
(* leads back: no rotation or replacement drops a subtree.                 *)
SearchTree ==
  /\ Under(tree, tree.root) = members
  /\ tree.root # Nil => tree.up[tree.root] = Nil
  /\ \A n \in members :
       /\ \A m \in Under(tree, tree.child["L"][n]) : m < n
       /\ \A m \in Under(tree, tree.child["R"][n]) : m > n
       /\ \A d \in Side : tree.child[d][n] # Nil => tree.up[tree.child[d][n]] = n

RECURSIVE Rank(_, _)
Rank(T, n) ==
  IF n = Nil THEN 0 - 1
  ELSE Rank(T, T.child["L"][n]) + (IF "L" \in T.red[n] THEN 2 ELSE 1)

(* The red sides define ranks: seen from both children a node has the same *)
(* rank, and a leaf has rank 0.  So a path is at most twice the logarithm  *)
(* of the size, whatever was removed.                                      *)
RankBalanced ==
  \A n \in members :
    /\ Rank(tree, n) = Rank(tree, tree.child["R"][n]) + (IF "R" \in tree.red[n] THEN 2 ELSE 1)
    /\ \A d \in Side : tree.child[d][n] # Nil \/ tree.child[Opp(d)][n] # Nil \/ tree.red[n] = {}
    /\ Cardinality(Under(tree, n)) >= 2^(Rank(tree, n) \div 2)

(* Every search answers from the set: RB_FIND, RB_NFIND, the least and the *)
(* greatest node, and the neighbours RB_NEXT and RB_PREV.                  *)
SearchesExact ==
  LET Least(S) == IF S = {} THEN Nil ELSE Min(S)
      Most(S)  == IF S = {} THEN Nil ELSE Max(S)
  IN
  /\ RB_MINMAX(tree, "L") = Least(members) /\ RB_MINMAX(tree, "R") = Most(members)
  /\ \A k \in Node : /\ RB_FIND(tree, Key, k) = IF k \in members THEN k ELSE Nil
                     /\ RB_NFIND(tree, Key, k) = Least({m \in members : m >= k})
  /\ \A n \in members : /\ Step(tree, "R", n) = Least({m \in members : m > n})
                        /\ Step(tree, "L", n) = Most({m \in members : m < n})
=============================================================================
