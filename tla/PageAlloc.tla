----------------------------- MODULE PageAlloc ------------------------------
(***************************************************************************)
(* What pmm_alloc_pages and pmm_free_pages promise: a block of 2^order     *)
(* frames is aligned to its size, comes from the managed memory, and is    *)
(* nobody else's until it is freed.                                        *)
(***************************************************************************)
EXTENDS Naturals

CONSTANT MAX_BUDDY_ORDER

VARIABLES
  managed,  \* the frames the allocator has been given, once and for all
  live      \* the blocks handed out, as <<first frame, order>>

Order == 0..(MAX_BUDDY_ORDER - 1)

Frames(b) == b[1]..(b[1] + 2^b[2] - 1)

Init == managed \subseteq Nat /\ live = {}

Alloc(p, o) ==
  /\ p % 2^o = 0
  /\ Frames(<<p, o>>) \subseteq managed
  /\ \A b \in live : Frames(b) \cap Frames(<<p, o>>) = {}
  /\ live' = live \cup {<<p, o>>}

Free(b) == live' = live \ {b}

Next ==
  /\ \/ \E p \in managed, o \in Order : Alloc(p, o)
     \/ \E b \in live : Free(b)
  /\ UNCHANGED managed

Spec == Init /\ [][Next]_<<managed, live>>
=============================================================================
