-------------------------------- MODULE List --------------------------------
(***************************************************************************)
(* The intrusive lists of include/koharu/list.h: rings of next and prev    *)
(* pointers through a head.  The run queues, the IPC and futex queues, the *)
(* hash buckets and the grant lists are made of them; the other modules    *)
(* model those as sequences, which this module justifies.                  *)
(*                                                                         *)
(* A node is added only when it is on no list, and taken off only when it  *)
(* is on one: what LinkedOnce, ReadyIffQueued and WaitqsExact say of the   *)
(* users.                                                                  *)
(***************************************************************************)
EXTENDS Naturals, Sequences

CONSTANTS ListHead, ListNode, NULL

ASSUME ListAssumption == NULL \notin ListHead \cup ListNode /\ ListHead \cap ListNode = {}

VARIABLES next, prev,
          content   \* the nodes of each list, in order; not in the code

listVars == <<next, prev, content>>

list_init ==
  /\ next = [x \in ListHead \cup ListNode |-> IF x \in ListHead THEN x ELSE NULL]
  /\ prev = next
  /\ content = [h \in ListHead |-> <<>>]

(* Mutant of __list_add: the old neighbour keeps its prev pointer. *)
__list_add_forward(n, p, x) ==
  /\ prev' = [prev EXCEPT ![n] = p]
  /\ next' = [next EXCEPT ![n] = x, ![p] = n]

__list_add(n, p, x) ==
  /\ prev' = [prev EXCEPT ![x] = n, ![n] = p]
  /\ next' = [next EXCEPT ![n] = x, ![p] = n]

list_add(n, h) ==
  /\ next[n] = NULL
  /\ __list_add(n, h, next[h])
  /\ content' = [content EXCEPT ![h] = <<n>> \o @]

list_add_tail(n, h) ==
  /\ next[n] = NULL
  /\ __list_add(n, prev[h], h)
  /\ content' = [content EXCEPT ![h] = Append(@, n)]

IndexOf(s, n) == CHOOSE i \in 1..Len(s) : s[i] = n

Without(s, n) ==
  IF \E i \in 1..Len(s) : s[i] = n
  THEN SubSeq(s, 1, IndexOf(s, n) - 1) \o SubSeq(s, IndexOf(s, n) + 1, Len(s))
  ELSE s

list_del(n) ==
  /\ next[n] # NULL
  /\ prev' = [prev EXCEPT ![next[n]] = prev[n], ![n] = NULL]
  /\ next' = [next EXCEPT ![prev[n]] = next[n], ![n] = NULL]
  /\ content' = [h \in ListHead |-> Without(content[h], n)]

list_empty(h) == next[h] = h

ListNext ==
  \E n \in ListNode :
    \/ \E h \in ListHead : list_add(n, h) \/ list_add_tail(n, h)
    \/ list_del(n)

ListSpec == list_init /\ [][ListNext]_listVars

-----------------------------------------------------------------------------
(* Properties. *)

(* a list from its head back to its head *)
Ring(h) == <<h>> \o content[h] \o <<h>>

(* However nodes are added at either end and taken out of the middle, the  *)
(* next pointers from a head pass through the nodes of its list in order   *)
(* and come back, the prev pointers do the same backwards, list_empty      *)
(* tells an empty list, and a node is on one list, once, or on none, which *)
(* its null pointers tell.                                                 *)
RingsExact ==
  /\ \A h \in ListHead :
       /\ \A i \in 1..(Len(content[h]) + 1) : /\ next[Ring(h)[i]] = Ring(h)[i + 1]
                                              /\ prev[Ring(h)[i + 1]] = Ring(h)[i]
       /\ list_empty(h) <=> content[h] = <<>>
  /\ \A g, h \in ListHead : \A i \in 1..Len(content[g]), j \in 1..Len(content[h]) :
       content[g][i] = content[h][j] => g = h /\ i = j
  /\ \A n \in ListNode :
       next[n] = NULL <=> \A h \in ListHead : \A i \in 1..Len(content[h]) : content[h][i] # n
=============================================================================
