-------------------------------- MODULE Heap --------------------------------
(***************************************************************************)
(* What a heap promises its users: a buffer has at least the bytes asked   *)
(* for, at the alignment asked for, and they belong to no other buffer     *)
(* until it is freed.  A call may fail, and then changes nothing.          *)
(***************************************************************************)
EXTENDS Naturals

VARIABLE buffers   \* the buffers in use: address -> [size, align] asked for

Bytes(p, n) == p..(p + n - 1)

(* buffers without p, and with a new one at q *)
Moved(p, q, n, a) ==
  /\ q % a = 0
  /\ \A r \in DOMAIN buffers \ {p} : Bytes(r, buffers[r].size) \cap Bytes(q, n) = {}
  /\ buffers' = [r \in (DOMAIN buffers \ {p}) \cup {q} |->
                   IF r = q THEN [size |-> n, align |-> a] ELSE buffers[r]]

Init == buffers = [p \in {} |-> [size |-> 0, align |-> 1]]

Malloc ==
  \E q \in DOMAIN buffers' \ DOMAIN buffers :
    Moved(q, q, buffers'[q].size, buffers'[q].align)

Free(p) == buffers' = [r \in DOMAIN buffers \ {p} |-> buffers[r]]

Realloc(p) ==
  \E q \in DOMAIN buffers' : Moved(p, q, buffers'[q].size, buffers'[q].align)

Next == Malloc \/ \E p \in DOMAIN buffers : Free(p) \/ Realloc(p)

Spec == Init /\ [][Next]_buffers
=============================================================================
