------------------------------ MODULE FifoLock ------------------------------
(***************************************************************************)
(* What a spin lock promises: the processors that asked for it form a      *)
(* queue, and only the first of them may be inside, in the order they      *)
(* asked.  SpinLock is shown to implement this.                            *)
(***************************************************************************)
EXTENDS Sequences, Naturals

CONSTANT CPU

VARIABLES queue,   \* the processors that asked for the lock, oldest first
          inside   \* the processors that hold it

vars == <<queue, inside>>

Init == queue = <<>> /\ inside = {}

Waiting(c) == \E i \in 1..Len(queue) : queue[i] = c

Ask(c) ==
  /\ ~Waiting(c)
  /\ queue' = Append(queue, c)
  /\ UNCHANGED inside

Enter(c) ==
  /\ queue # <<>> /\ Head(queue) = c
  /\ inside = {}
  /\ inside' = {c}
  /\ UNCHANGED queue

(* An uncontended try: ask and enter at once. *)
TryEnter(c) ==
  /\ queue = <<>>
  /\ queue' = <<c>>
  /\ inside' = {c}

Leave(c) ==
  /\ inside = {c}
  /\ queue' = Tail(queue)
  /\ inside' = {}

Next == \E c \in CPU : Ask(c) \/ Enter(c) \/ TryEnter(c) \/ Leave(c)

Spec == Init /\ [][Next]_vars
=============================================================================
