------------------------------ MODULE MCSched -------------------------------
(* Three threads and short quanta, so that expiry, demotion and boost meet. *)
EXTENDS Sched, TLC

CONSTANTS root, a, b

Threads == {root, a, b}

AllByRoot == [t \in Threads |-> root]

(* The levels differ, as in the source, and the boost comes before a       *)
(* lowest-level quantum is over.                                           *)
Quanta == 0 :> 1 @@ 1 :> 2 @@ 2 :> 3 @@ 3 :> 4

(* the lowest level, and one that has no queue *)
AnyLevel == {3, 4}
AnyQuantum == {0}
None == {}
=============================================================================
