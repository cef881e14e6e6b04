------------------------------- MODULE RbTree -------------------------------
(***************************************************************************)
(* The rank-balanced tree of user/include/tree.h (the RB_ macros), which   *)
(* the root server's address ranges are kept in.                           *)
(*                                                                         *)
(* A tree is a value: its root, the two children and the parent of every   *)
(* node, and the "red" sides of every node, the two low bits of the parent *)
(* pointer in the code.  A red side is one whose child is two ranks lower  *)
(* than the node instead of one.  The code writes everything twice, for    *)
(* left and right; here a side is a parameter.                             *)
(***************************************************************************)
EXTENDS Integers, FiniteSets

CONSTANTS Node, Nil

Side == {"L", "R"}
Opp(d) == IF d = "L" THEN "R" ELSE "L"

Empty ==
  [root  |-> Nil,
   child |-> [d \in Side |-> [n \in Node |-> Nil]],
   up    |-> [n \in Node |-> Nil],
   red   |-> [n \in Node |-> {}]]

-----------------------------------------------------------------------------
(* RB_SET_PARENT, RB_FLIP_LEFT and RB_FLIP_RIGHT, RB_SWAP_CHILD *)

SetParent(T, n, p) == IF n = Nil THEN T ELSE [T EXCEPT !.up[n] = p]
SetChild(T, n, d, c) == [T EXCEPT !.child[d][n] = c]
Flip(T, n, d) == [T EXCEPT !.red[n] = IF d \in @ THEN @ \ {d} ELSE @ \cup {d}]
Clear(T, n) == [T EXCEPT !.red[n] = {}]

(* the side of parent p that child n is on *)
SideOf(T, p, n) == IF T.child["L"][p] = n THEN "L" ELSE "R"

SwapChild(T, out, in) ==
  LET p == T.up[out] IN
  IF p = Nil THEN [T EXCEPT !.root = in] ELSE SetChild(T, p, SideOf(T, p, out), in)

(* RB_ROTATE_LEFT is Rotate(T, "L", n): n goes down to the left. *)
Rotate(T, d, n) ==
  LET top   == T.child[Opp(d)][n]
      inner == T.child[d][top]
      moved == SetParent(SetChild(T, n, Opp(d), inner), inner, n)
      swap  == SwapChild(SetParent(moved, top, T.up[n]), n, top)
  IN SetParent(SetChild(swap, top, d, n), n, top)

-----------------------------------------------------------------------------
(* RB_INSERT and RB_REMOVE *)

(* RB_SET, for a node without parent; also what becomes of the fields of a *)
(* removed node, which do not matter until it is inserted again.           *)
Forget(T, n) ==
  [T EXCEPT !.up[n] = Nil, !.red[n] = {}, !.child["L"][n] = Nil, !.child["R"][n] = Nil]

RECURSIVE InsertColor(_, _)
InsertColor(T, n) ==
  LET p == T.up[n] IN
  IF p = Nil THEN T
  ELSE LET d == SideOf(T, p, n)
           o == Opp(d)
           F == Flip(T, p, o)
       IN
  IF d \in T.red[p] THEN Flip(T, p, d)
  ELSE IF o \in F.red[p] THEN InsertColor(F, p)
  ELSE IF o \in F.red[n] THEN Clear(Rotate(F, o, p), n)
  ELSE LET c == F.child[o][n]
           R == Rotate(Flip(F, n, d), d, n)
           G == IF d \in R.red[c] THEN Flip(R, n, o)
                ELSE IF o \in R.red[c] THEN Flip(R, p, d) ELSE R
       IN Clear(Rotate(G, o, p), c)

(* The node of the tree with key k that a search ends at: the path from n  *)
(* down, as <<last node, the one with the least key above k>>.             *)
RECURSIVE Search(_, _, _, _, _)
Search(T, K, k, n, best) ==
  IF n = Nil THEN [found |-> Nil, next |-> best]
  ELSE IF k < K[n] THEN Search(T, K, k, T.child["L"][n], n)
  ELSE IF k > K[n] THEN Search(T, K, k, T.child["R"][n], best)
  ELSE [found |-> n, next |-> n]

RECURSIVE Leaf(_, _, _, _)
Leaf(T, K, k, n) ==
  LET c == T.child[IF k < K[n] THEN "L" ELSE "R"][n] IN
  IF c = Nil THEN n ELSE Leaf(T, K, k, c)

RB_FIND(T, K, k) == Search(T, K, k, T.root, Nil).found
RB_NFIND(T, K, k) == Search(T, K, k, T.root, Nil).next

(* K is the key of every node.  A node whose key is taken is not inserted. *)
RB_INSERT(T, K, n) ==
  IF RB_FIND(T, K, K[n]) # Nil THEN T
  ELSE LET p == IF T.root = Nil THEN Nil ELSE Leaf(T, K, K[n], T.root)
           S == SetParent(Forget(T, n), n, p)
       IN InsertColor(IF p = Nil THEN [S EXCEPT !.root = n]
                      ELSE SetChild(S, p, IF K[n] < K[p] THEN "L" ELSE "R", n), n)

(* Mutant of SibRed: a sibling with one red side is taken for one with two. *)
SibRedAny(T, s) == T.red[s] # {}

(* both children of the sibling are two ranks lower *)
SibRed(T, s) == T.red[s] = Side

(* n, a child of p, has become one rank lower *)
RECURSIVE RemoveLoop(_, _, _)
RemoveLoop(T, p, n) ==
  LET d == SideOf(T, p, n)
      o == Opp(d)
      s == T.child[o][p]
      F == Flip(T, s, o)
      Continue(S) == IF S.up[p] = Nil THEN S ELSE RemoveLoop(S, S.up[p], p)
  IN
  IF d \notin T.red[p] THEN Flip(T, p, d)
  ELSE IF o \in T.red[p] THEN Continue(Flip(T, p, o))
  ELSE IF SibRed(T, s) THEN Continue(Clear(T, s))
  ELSE IF d \in F.red[s] THEN Rotate(Flip(F, p, d), d, p)
  ELSE IF o \in F.red[s] THEN Rotate(F, d, p)
  ELSE LET e == F.child[d][s]
           R == Rotate(Flip(F, p, d), o, s)
           G == IF o \in R.red[e] THEN Flip(R, s, d) ELSE R
           H == IF d \in G.red[e] THEN Flip(G, p, o) ELSE G
       IN Rotate([H EXCEPT !.red[e] = Side], d, p)

RemoveColor(T, p, n) ==
  IF T.child["L"][p] = n /\ T.child["R"][p] = n
  THEN LET S == Clear(T, p) IN
       IF S.up[p] = Nil THEN S ELSE RemoveLoop(S, S.up[p], p)
  ELSE RemoveLoop(T, p, n)

RECURSIVE Extreme(_, _, _)
Extreme(T, d, n) == IF T.child[d][n] = Nil THEN n ELSE Extreme(T, d, T.child[d][n])

(* A node with two children is replaced by the next one, n, which takes    *)
(* over its place, its children and its red sides.                         *)
RB_REMOVE(T, old) ==
  LET left  == T.child["L"][old]
      right == T.child["R"][old]
      Finish(S, n, c, p) ==
        LET W == SetParent(SwapChild(S, old, n), c, p)
        IN Forget(IF p = Nil THEN W ELSE RemoveColor(W, p, c), old)
      Replace(S, n) ==
        [S EXCEPT !.child["L"][n] = S.child["L"][old], !.child["R"][n] = S.child["R"][old],
                  !.up = [@ EXCEPT ![left] = n, ![n] = S.up[old]], !.red[n] = S.red[old]]
      n == Extreme(T, "L", right)
      c == T.child["R"][n]
  IN
  IF left = Nil THEN Finish(T, right, right, T.up[old])
  ELSE IF right = Nil THEN Finish(T, left, left, T.up[old])
  ELSE IF n = right THEN Finish(Replace(SetChild(T, old, "R", c), n), n, c, n)
  ELSE Finish(Replace(SetParent(SetChild(T, T.up[n], "L", c), right, n), n), n, c, T.up[n])

-----------------------------------------------------------------------------
(* RB_MINMAX, RB_NEXT is Step(T, "R", n), RB_PREV is Step(T, "L", n) *)

RB_MINMAX(T, d) == IF T.root = Nil THEN Nil ELSE Extreme(T, d, T.root)

RECURSIVE Climb(_, _, _)
Climb(T, d, n) ==
  LET p == T.up[n] IN
  IF p = Nil THEN Nil ELSE IF T.child[d][p] = n THEN Climb(T, d, p) ELSE p

Step(T, d, n) ==
  IF T.child[d][n] # Nil THEN Extreme(T, Opp(d), T.child[d][n]) ELSE Climb(T, d, n)
=============================================================================
