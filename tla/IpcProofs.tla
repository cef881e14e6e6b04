----------------------------- MODULE IpcProofs ------------------------------
(***************************************************************************)
(* Type correctness of Ipc, the agreement of every endpoint's state with   *)
(* its wait queue, and that Ipc implements Dispatch, for every set of      *)
(* threads and every topology.                                             *)
(*                                                                         *)
(* Then rendezvous and calls between clients and servers, for every set of *)
(* threads: no node is linked twice, nobody who is blocked is forgotten,   *)
(* every call gets its own reply, and a server keeps its reply context     *)
(* until it has replied.  IpcInv is the inductive invariant.  First what   *)
(* the operations have in common, as changes of an array of threads; then  *)
(* that the operators of Ipc make these changes, and that every action     *)
(* keeps the invariant.                                                    *)
(***************************************************************************)
EXTENDS IpcInvariant, TLAPS

USE ZenonT(40)

(* Unlinking the first node keeps a thread consistent: the state becomes   *)
(* INACTIVE exactly with the last node.                                    *)
LEMMA DropHeadOK ==
  ASSUME NEW r, RecOK(r), r.waitq # <<>>
  PROVE  RecOK(DropHead(r))
<1> DEFINE q == r.waitq
<1>1. q \in Seq(Node) /\ q # <<>>
  BY DEF RecOK, ThreadRec
<1>2. /\ Tail(q) \in Seq(Node)
      /\ Len(Tail(q)) = Len(q) - 1
      /\ \A i \in 1..Len(Tail(q)) : Tail(q)[i] = q[i + 1] /\ i + 1 \in 1..Len(q)
  BY <1>1, SMTT(30)
<1>3. /\ DropHead(r) \in ThreadRec
      /\ DropHead(r).waitq = Tail(q)
      /\ DropHead(r).ep = IF Tail(q) = <<>> THEN "INACTIVE" ELSE r.ep
  BY <1>2 DEF DropHead, RecOK, ThreadRec
<1>4. r.ep # "INACTIVE"
  BY <1>1 DEF RecOK
<1> QED BY <1>2, <1>3, <1>4 DEF RecOK

(* Replacing one consistent thread by another. *)
LEMMA GoodExcept ==
  ASSUME NEW T, Good(T), NEW t \in Thread, NEW r, RecOK(r)
  PROVE  Good([T EXCEPT ![t] = r])
  BY DEF Good, RecOK

(* sched_wakeup only changes the state field. *)
LEMMA WakeOK ==
  ASSUME NEW T, Good(T), NEW t \in Thread
  PROVE  Good(Wake(T, t))
<1> DEFINE r == [T[t] EXCEPT !.state = "READY"]
<1>1. RecOK(r)
  BY DEF Good, RecOK, ThreadRec
<1>2. [T EXCEPT ![t].state = "READY"] = [T EXCEPT ![t] = r]
  BY DEF Good
<1> QED BY <1>1, <1>2, GoodExcept DEF Wake

(* Linking a node makes the queue non-empty.  A sender links itself only   *)
(* onto a queue that holds no receiver.                                    *)
LEMMA EnqueueOK ==
  ASSUME NEW T, Good(T), NEW t \in Thread, NEW n \in Node,
         NEW s \in {"WAIT_SEND", "WAIT_RECV"},
         s = "WAIT_SEND" => T[t].ep # "WAIT_RECV" /\ n.list = "ipc_list"
  PROVE  Good(Enqueue(T, t, s, n))
<1> DEFINE q == T[t].waitq
           r == [T[t] EXCEPT !.ep = s, !.waitq = Append(q, n)]
<1>1. RecOK(T[t]) /\ q \in Seq(Node) /\ T[t] \in ThreadRec
  BY DEF Good, RecOK, ThreadRec
<1>2. /\ Append(q, n) \in Seq(Node) /\ Append(q, n) # <<>>
      /\ Len(Append(q, n)) = Len(q) + 1
      /\ \A i \in 1..Len(q) : Append(q, n)[i] = q[i]
      /\ Append(q, n)[Len(q) + 1] = n
  BY <1>1, SMTT(30)
<1>3. r \in ThreadRec /\ r.ep = s /\ r.waitq = Append(q, n)
  BY <1>1, <1>2 DEF ThreadRec
<1>4. s = "WAIT_SEND" => \A i \in 1..Len(Append(q, n)) : Append(q, n)[i].list = "ipc_list"
  <2> SUFFICES ASSUME s = "WAIT_SEND", NEW i \in 1..Len(Append(q, n))
               PROVE  Append(q, n)[i].list = "ipc_list"
    BY SMTT(30)
  <2>1. \A j \in 1..Len(q) : q[j].list = "ipc_list"
    <3>1. CASE T[t].ep = "INACTIVE"
      BY <3>1, <1>1, SMTT(30) DEF RecOK
    <3>2. CASE T[t].ep = "WAIT_SEND"
      BY <3>2, <1>1 DEF RecOK
    <3> QED BY <3>1, <3>2, <1>1 DEF ThreadRec
  <2>2. i \in 1..Len(q) \/ i = Len(q) + 1
    BY <1>1, <1>2, SMTT(30)
  <2> QED BY <2>1, <2>2, <1>2
<1>5. RecOK(r)
  BY <1>2, <1>3, <1>4 DEF RecOK
<1> QED BY <1>5, GoodExcept DEF Enqueue

(* Storing a message into a consistent thread. *)
LEMMA FillOK ==
  ASSUME NEW r, RecOK(r), NEW m \in Msg, NEW s \in Thread, NEW n \in Nat
  PROVE  /\ RecOK([r EXCEPT !.msg = m, !.sender = s, !.prev_seq = n])
         /\ RecOK([r EXCEPT !.msg = m, !.sender = s])
         /\ RecOK([r EXCEPT !.msg = m])
         /\ RecOK([r EXCEPT !.sender = s])
         /\ RecOK([r EXCEPT !.call_seq = n])
  BY DEF RecOK, ThreadRec

(* ipc_deliver_msg, on a queue that has a node. *)
LEMMA DeliverMsgOK ==
  ASSUME NEW T, Good(T), NEW r \in Thread, NEW from \in Thread,
         NEW words \in Msg, NEW seq \in Nat, T[r].waitq # <<>>
  PROVE  Good(ipc_deliver_msg(T, r, from, words, seq))
<1> DEFINE d == [DropHead(T[r]) EXCEPT !.msg = words, !.sender = from, !.prev_seq = seq]
<1>1. RecOK(d)
  BY DropHeadOK, FillOK DEF Good
<1> QED BY <1>1, GoodExcept, WakeOK DEF ipc_deliver_msg

(* ipc_deliver_reply, on a queue that has a node. *)
LEMMA DeliverReplyOK ==
  ASSUME NEW T, Good(T), NEW r \in Thread, NEW from \in Thread,
         NEW words \in Msg, T[r].waitq # <<>>
  PROVE  Good(ipc_deliver_reply(T, r, from, words))
<1> DEFINE d == [DropHead(T[r]) EXCEPT !.msg = words, !.sender = from]
<1>1. RecOK(d)
  BY DropHeadOK, FillOK DEF Good
<1> QED BY <1>1, GoodExcept, WakeOK DEF ipc_deliver_reply

(* ipc_accept, on a queue that has a node. *)
LEMMA AcceptOK ==
  ASSUME NEW T, Good(T), NEW r \in Thread, T[r].waitq # <<>>
  PROVE  Good(ipc_accept(T, r))
<1> DEFINE snd == Head(T[r].waitq).of
           n   == IF T[snd].ep = "WAIT_RECV" THEN T[snd].call_seq ELSE 0
           d   == [DropHead(T[r]) EXCEPT !.msg = T[snd].msg, !.sender = snd, !.prev_seq = n]
           T1  == [T EXCEPT ![r] = d]
<1>1. T[r].waitq \in Seq(Node) /\ T[r].waitq # <<>>
  BY DEF Good, ThreadRec
<1>2. Head(T[r].waitq) \in Node
  BY <1>1, SMTT(30)
<1>3. snd \in Thread
  BY <1>2 DEF Node
<1>4. T[snd].msg \in Msg /\ n \in Nat
  BY <1>3 DEF Good, ThreadRec
<1>5. RecOK(d)
  BY <1>3, <1>4, DropHeadOK, FillOK DEF Good
<1>6. Good(T1)
  BY <1>5, GoodExcept
<1>7. ipc_accept(T, r) = IF T1[snd].ep # "WAIT_RECV" THEN Wake(T1, snd) ELSE T1
  BY DEF ipc_accept, Accepted
<1> QED BY <1>3, <1>6, <1>7, WakeOK

(* The reply half of ipc_reply_recv. *)
LEMMA ReplyToOK ==
  ASSUME NEW T, Good(T), NEW t \in Thread, NEW words \in Msg
  PROVE  Good(ReplyTo(T, t, words))
<1>1. T[t].sender \in Thread
  BY DEF Good, ThreadRec
<1> QED BY <1>1, DeliverReplyOK DEF ReplyTo

(* Setting a thread's state field. *)
LEMMA StateOK ==
  ASSUME NEW T, Good(T), NEW t \in Thread,
         NEW s \in {"READY", "RUNNING", "BLOCKED", "TERMINATED"}
  PROVE  Good([T EXCEPT ![t].state = s])
<1> DEFINE r == [T[t] EXCEPT !.state = s]
<1>1. RecOK(r)
  BY DEF Good, RecOK, ThreadRec
<1>2. [T EXCEPT ![t].state = s] = [T EXCEPT ![t] = r]
  BY DEF Good
<1> QED BY <1>1, <1>2, GoodExcept

(* Handing the processor over. *)
LEMMA GiveUpOK ==
  ASSUME NEW T, Good(T), current \in Thread,
         NEW s \in {"READY", "BLOCKED", "TERMINATED"}, GiveUp(T, s)
  PROVE  Good(threads') /\ current' \in Thread
<1> DEFINE left == [T EXCEPT ![current].state = s]
<1>1. Good(left)
  BY StateOK
<1>2. CASE \E next \in Thread :
             /\ left[next].state = "READY"
             /\ threads' = [left EXCEPT ![next].state = "RUNNING"]
             /\ current' = next
  <2>1. PICK next \in Thread : /\ threads' = [left EXCEPT ![next].state = "RUNNING"]
                               /\ current' = next
    BY <1>2
  <2> HIDE DEF left
  <2>2. Good([left EXCEPT ![next].state = "RUNNING"])
    BY <1>1, StateOK
  <2> QED BY <2>1, <2>2
<1>3. CASE threads' = left /\ UNCHANGED current
  BY <1>1, <1>3
<1> QED BY <1>2, <1>3 DEF GiveUp

(* What ipc_recv and ipc_reply_recv share. *)
LEMMA ReceiveOK ==
  ASSUME TypeOK, NEW T, Good(T), NEW t \in Thread, Receive(T, t)
  PROVE  /\ Good(threads') /\ current' \in Thread
         /\ request' \in [Thread -> Msg]
         /\ broken' \in BOOLEAN
         /\ kstack' \in [Thread -> [at : {"user", "send", "recv", "call"},
                                    saved : Thread, to : Thread]]
<1>1. CASE T[t].ep = "WAIT_SEND"
  <2>1. T[t].waitq # <<>>
    BY <1>1 DEF Good, RecOK
  <2>2. Good(ipc_accept(T, t))
    BY <2>1, AcceptOK
  <2>3. ipc_accept(T, t)[t].msg \in Msg
    BY <2>2 DEF Good, ThreadRec
  <2> QED BY <1>1, <2>2, <2>3 DEF Receive, Stay, TypeOK
<1>2. CASE T[t].ep # "WAIT_SEND"
  <2>1. IpcNode(t) \in Node
    BY DEF IpcNode, Node
  <2>2. Good(Enqueue(T, t, "WAIT_RECV", IpcNode(t)))
    BY <2>1, EnqueueOK
  <2>3. Good(threads') /\ current' \in Thread
    BY <1>2, <2>2, GiveUpOK DEF Receive, sched_block, TypeOK
  <2>4. broken' \in BOOLEAN
    <3>1. broken' = Linked(T, IpcNode(t))
      BY <1>2 DEF Receive
    <3> QED BY <3>1 DEF Linked
  <2> QED BY <1>2, <2>3, <2>4, TopologyAssumption, SMTT(30) DEF Receive, Sleep, TypeOK
<1> QED BY <1>1, <1>2

(* It is the conjunction of the two properties. *)
LEMMA PartsAreInv == Parts <=> TypeOK /\ EndpointMatchesQueue
  BY DEF Parts, TypeOK, RestOK, Good, RecOK, EndpointMatchesQueue

(* The boot state is consistent: every queue is empty. *)
LEMMA InitOK == Init => Parts
<1> SUFFICES ASSUME Init PROVE Good(threads) /\ current \in Thread /\ RestOK
  BY DEF Parts
<1>1. NoMsg \in Msg
  BY TopologyAssumption DEF NoMsg, Msg
<1>2. \A s \in {"READY", "RUNNING"} : RecOK(NewThread(s))
  BY <1>1, TopologyAssumption, SMTT(30) DEF NewThread, RecOK, ThreadRec
<1>3. Good(threads)
  BY <1>2 DEF Init, Good, RecOK
<1>4. RestOK
  BY <1>1, TopologyAssumption DEF Init, RestOK, UserMode
<1> QED BY <1>3, <1>4, TopologyAssumption DEF Init

(* A frame written by Sleep is a frame. *)
LEMMA SleepOK ==
  ASSUME RestOK, NEW t \in Thread, NEW at \in {"send", "recv", "call"},
         NEW saved \in Thread, NEW to \in Thread, Sleep(t, at, saved, to)
  PROVE  kstack' \in [Thread -> [at : {"user", "send", "recv", "call"},
                                 saved : Thread, to : Thread]]
  BY DEF RestOK, Sleep

(* ipc_send. *)
LEMMA SendOK ==
  ASSUME Parts, NEW t \in Thread, NEW target \in Thread, ipc_send(t, target)
  PROVE  Parts'
<1> USE DEF Parts
<1> DEFINE words == [op |-> "send", from |-> t, to |-> target, seq |-> 0]
           own   == [threads EXCEPT ![t].msg = words]
<1>1. words \in Msg
  BY DEF Msg
<1>2. CASE threads[target].ep = "WAIT_RECV"
  <2>1. Good(ipc_deliver_msg(threads, target, t, words, 0))
    BY <1>1, <1>2, DeliverMsgOK, SMTT(30) DEF Good, RecOK
  <2> QED BY <1>2, <2>1 DEF ipc_send, Stay, RestOK
<1>3. CASE threads[target].ep # "WAIT_RECV"
  <2>1. own = [threads EXCEPT ![t] = [threads[t] EXCEPT !.msg = words]]
    BY DEF Good
  <2>2. RecOK([threads[t] EXCEPT !.msg = words])
    BY <1>1, FillOK, TopologyAssumption DEF Good
  <2>3. Good(own)
    BY <2>1, <2>2, GoodExcept
  <2>4. own[target].ep # "WAIT_RECV"
    BY <1>3 DEF Good, ThreadRec
  <2>5. IpcNode(t) \in Node /\ IpcNode(t).list = "ipc_list"
    BY DEF IpcNode, Node
  <2>6. Good(Enqueue(own, target, "WAIT_SEND", IpcNode(t)))
    BY <2>3, <2>4, <2>5, EnqueueOK
  <2>7. Good(threads') /\ current' \in Thread
    BY <1>3, <2>6, GiveUpOK DEF ipc_send, sched_block
  <2>8. broken' \in BOOLEAN
    BY <1>3 DEF ipc_send, Linked
  <2>9. Sleep(t, "send", Root, target) /\ UNCHANGED <<registered, request, answer>>
    BY <1>3 DEF ipc_send
  <2> QED BY <2>7, <2>8, <2>9, SleepOK, TopologyAssumption DEF RestOK
<1> QED BY <1>2, <1>3

(* ipc_recv and ipc_reply_recv. *)
LEMMA RecvOK ==
  ASSUME Parts, NEW t \in Thread, ipc_recv(t) \/ ipc_reply_recv(t)
  PROVE  Parts'
<1> USE DEF Parts
<1>1. TypeOK
  BY PartsAreInv
<1>2. UNCHANGED <<registered, answer>>
  BY DEF ipc_recv, ipc_reply_recv
<1>3. CASE ipc_recv(t)
  BY <1>1, <1>2, <1>3, ReceiveOK DEF ipc_recv, RestOK
<1>4. CASE ipc_reply_recv(t)
  <2> DEFINE words == [op |-> "reply", from |-> t, to |-> request[t].from, seq |-> request[t].seq]
  <2>1. words \in Msg
    BY DEF RestOK, Msg
  <2>2. Good(ReplyTo(threads, t, words))
    BY <2>1, ReplyToOK
  <2>3. Receive(ReplyTo(threads, t, words), t)
    BY <1>4 DEF ipc_reply_recv
  <2> HIDE DEF words
  <2> QED BY <1>1, <1>2, <2>2, <2>3, ReceiveOK DEF RestOK
<1> QED BY <1>3, <1>4

(* ipc_call. *)
LEMMA CallOK ==
  ASSUME Parts, NEW t \in Thread, NEW target \in Thread, ipc_call(t, target)
  PROVE  Parts'
<1> USE DEF Parts
<1> DEFINE seq   == threads[t].call_seq + 1
           words == [op |-> "call", from |-> t, to |-> target, seq |-> seq]
           base  == [threads EXCEPT ![t].call_seq = seq]
           slot  == Enqueue(base, t, "WAIT_RECV", WaitNode(t))
           own   == [slot EXCEPT ![t].msg = words]
           sent  == IF slot[target].ep = "WAIT_RECV"
                    THEN ipc_deliver_msg(slot, target, t, words, seq)
                    ELSE Enqueue(own, target, "WAIT_SEND", IpcNode(t))
<1>1. seq \in Nat
  <2>1. threads[t].call_seq \in Nat
    BY DEF Good, ThreadRec
  <2> QED BY <2>1, SMTT(30)
<1>2. words \in Msg
  BY <1>1 DEF Msg
<1>3. Good(base)
  <2>1. base = [threads EXCEPT ![t] = [threads[t] EXCEPT !.call_seq = seq]]
    BY DEF Good
  <2>2. \A m \in Msg : RecOK([threads[t] EXCEPT !.call_seq = seq])
    BY <1>1, FillOK DEF Good
  <2> QED BY <1>2, <2>1, <2>2, GoodExcept
<1>4. Good(slot)
  <2>1. WaitNode(t) \in Node
    BY DEF WaitNode, Node
  <2> HIDE DEF base
  <2> QED BY <1>3, <2>1, EnqueueOK
<1>5. Good(sent)
  <2> HIDE DEF slot, words, seq
  <2>1. CASE slot[target].ep = "WAIT_RECV"
    <3>1. slot[target].waitq # <<>>
      BY <1>4, <2>1 DEF Good, RecOK
    <3> QED BY <1>1, <1>2, <1>4, <2>1, <3>1, DeliverMsgOK
  <2>2. CASE slot[target].ep # "WAIT_RECV"
    <3>1. own = [slot EXCEPT ![t] = [slot[t] EXCEPT !.msg = words]]
      BY <1>4 DEF Good
    <3>2. RecOK([slot[t] EXCEPT !.msg = words])
      BY <1>1, <1>2, <1>4, FillOK DEF Good
    <3>3. Good(own)
      BY <1>4, <3>1, <3>2, GoodExcept
    <3>4. own[target].ep # "WAIT_RECV"
      BY <1>4, <2>2, SMTT(30) DEF Good, ThreadRec
    <3>5. IpcNode(t) \in Node /\ IpcNode(t).list = "ipc_list"
      BY DEF IpcNode, Node
    <3> HIDE DEF own
    <3> QED BY <2>2, <3>3, <3>4, <3>5, EnqueueOK
  <2> QED BY <2>1, <2>2
<1>6. sched_block(sent) /\ Sleep(t, "call", threads[t].sender, target)
  BY DEF ipc_call
<1>7. broken' \in BOOLEAN
  BY DEF ipc_call, Linked
<1>8. UNCHANGED <<registered, request, answer>>
  BY DEF ipc_call
<1>9. threads[t].sender \in Thread
  BY DEF Good, ThreadRec
<1> HIDE DEF sent
<1>10. Good(threads') /\ current' \in Thread
  BY <1>5, <1>6, GiveUpOK DEF sched_block
<1> QED BY <1>6, <1>7, <1>8, <1>9, <1>10, SleepOK DEF RestOK

(* The return of a blocked operation to user mode. *)
LEMMA ReturnOK ==
  ASSUME Parts, NEW t \in Thread, IpcReturn(t)
  PROVE  Parts'
<1> USE DEF Parts
<1>1. threads[t].msg \in Msg /\ threads[t].sender \in Thread
  BY DEF Good, ThreadRec
<1>2. kstack[t].saved \in Thread /\ kstack[t].to \in Thread
  BY DEF RestOK
<1>3. UserMode \in [at : {"user", "send", "recv", "call"}, saved : Thread, to : Thread]
  BY TopologyAssumption DEF UserMode
<1>4. RestOK'
  <2>1. kstack' \in [Thread -> [at : {"user", "send", "recv", "call"},
                               saved : Thread, to : Thread]]
    BY <1>3 DEF IpcReturn, RestOK
  <2>2. request' \in [Thread -> Msg]
    BY <1>1 DEF IpcReturn, RestOK
  <2>3. answer' \in [Thread -> [msg : Msg, sender : Thread, to : Thread]]
    <3> DEFINE a == [msg |-> threads[t].msg, sender |-> threads[t].sender, to |-> kstack[t].to]
    <3>1. a \in [msg : Msg, sender : Thread, to : Thread]
      BY <1>1, <1>2
    <3>2. answer' = [answer EXCEPT ![t] = a] \/ answer' = answer
      BY DEF IpcReturn
    <3> HIDE DEF a
    <3> QED BY <3>1, <3>2 DEF RestOK
  <2> QED BY <2>1, <2>2, <2>3 DEF IpcReturn, RestOK
<1>5. Good(threads')
  <2>1. CASE kstack[t].at = "call"
    <3> DEFINE r == [threads[t] EXCEPT !.sender = kstack[t].saved]
    <3>1. RecOK(r)
      BY <1>1, <1>2, FillOK DEF Good
    <3>2. threads' = [threads EXCEPT ![t] = r]
      BY <2>1 DEF IpcReturn, Good
    <3> HIDE DEF r
    <3> QED BY <3>1, <3>2, GoodExcept
  <2>2. CASE kstack[t].at # "call"
    BY <2>2 DEF IpcReturn
  <2> QED BY <2>1, <2>2
<1> QED BY <1>4, <1>5 DEF IpcReturn

(* Preemption and TC_DESTROY leave the queues alone. *)
LEMMA OtherOK ==
  ASSUME Parts, NEW t \in Thread, NEW target \in Thread,
         Preempt(t) \/ thread_destroy(t, target)
  PROVE  Parts'
<1> USE DEF Parts
<1>1. CASE Preempt(t)
  <2>1. Good(threads') /\ current' \in Thread
    BY <1>1, GiveUpOK DEF Preempt
  <2> QED BY <1>1, <2>1 DEF Preempt, RestOK
<1>2. CASE thread_destroy(t, target)
  <2>1. Good(threads') /\ current' \in Thread
    BY <1>2, GiveUpOK DEF thread_destroy
  <2> QED BY <1>2, <2>1 DEF thread_destroy, RestOK
<1> QED BY <1>1, <1>2

(* Every step preserves the invariant. *)
LEMMA NextOK == Parts /\ [Next]_vars => Parts'
<1> SUFFICES ASSUME Parts, [Next]_vars PROVE Parts'
  BY SMTT(30)
<1>1. CASE UNCHANGED vars
  BY <1>1 DEF vars, Parts, Good, RestOK
<1>2. CASE Next
  BY <1>2, SendOK, RecvOK, CallOK, ReturnOK, OtherOK DEF Next, Step
<1> QED BY <1>1, <1>2

(* Every field of every thread stays within its type. *)
THEOREM TypeCorrect == Spec => []TypeOK
  BY InitOK, NextOK, PartsAreInv, PTL DEF Spec

(* The state of every endpoint tells what its queue holds, so that no      *)
(* list_del meets an empty queue and every container_of is applied to the  *)
(* kind of node it expects.                                                *)
THEOREM EndpointsConsistent == Spec => []EndpointMatchesQueue
  BY InitOK, NextOK, PartsAreInv, PTL DEF Spec
-----------------------------------------------------------------------------
(* IPC implements Dispatch. *)

(* U is T with some blocked threads made READY. *)
Wakes(T, U) ==
  \A t \in Thread : \/ U[t].state = T[t].state
                    \/ T[t].state = "BLOCKED" /\ U[t].state = "READY"

(* Storing into the other fields wakes nobody. *)
LEMMA StoreWakes ==
  ASSUME NEW T, Good(T), NEW t \in Thread, NEW r, r.state = T[t].state
  PROVE  Wakes(T, [T EXCEPT ![t] = r])
  BY DEF Wakes, Good

(* sched_wakeup wakes one blocked thread or none. *)
LEMMA WakeWakes ==
  ASSUME NEW T, Good(T), NEW U, Good(U), Wakes(T, U), NEW t \in Thread
  PROVE  Wakes(T, Wake(U, t))
  BY SMTT(30) DEF Wakes, Wake, Good, RecOK, ThreadRec

(* The state field is not one of those DropHead and Enqueue assign. *)
LEMMA DropHeadState ==
  ASSUME NEW r \in ThreadRec
  PROVE  DropHead(r).state = r.state
  BY DEF DropHead, ThreadRec

LEMMA EnqueueWakes ==
  ASSUME NEW T, Good(T), NEW U, Good(U), Wakes(T, U), NEW t \in Thread, NEW s, NEW n
  PROVE  Wakes(T, Enqueue(U, t, s, n))
  BY SMTT(30) DEF Wakes, Enqueue, Good, RecOK, ThreadRec

(* ipc_deliver_msg and ipc_deliver_reply wake the receiver at most. *)
LEMMA DeliverWakes ==
  ASSUME NEW T, Good(T), NEW U, Good(U), Wakes(T, U), NEW r \in Thread,
         NEW from \in Thread, NEW words \in Msg, NEW seq \in Nat, U[r].waitq # <<>>
  PROVE  /\ Wakes(T, ipc_deliver_msg(U, r, from, words, seq))
         /\ Wakes(T, ipc_deliver_reply(U, r, from, words))
<1> DEFINE d == [DropHead(U[r]) EXCEPT !.msg = words, !.sender = from, !.prev_seq = seq]
           e == [DropHead(U[r]) EXCEPT !.msg = words, !.sender = from]
<1>1. RecOK(DropHead(U[r])) /\ U[r] \in ThreadRec
  BY DropHeadOK DEF Good
<1>2. RecOK(d) /\ RecOK(e)
  BY <1>1, FillOK
<1>3. d.state = U[r].state /\ e.state = U[r].state
  BY <1>1, DropHeadState DEF RecOK, ThreadRec
<1> HIDE DEF d, e
<1>4. Good([U EXCEPT ![r] = d]) /\ Good([U EXCEPT ![r] = e])
  BY <1>2, GoodExcept
<1>5. Wakes(T, [U EXCEPT ![r] = d]) /\ Wakes(T, [U EXCEPT ![r] = e])
  BY <1>3 DEF Wakes, Good
<1> QED BY <1>4, <1>5, WakeWakes DEF ipc_deliver_msg, ipc_deliver_reply, d, e

(* ipc_accept wakes the sender at most. *)
LEMMA AcceptWakes ==
  ASSUME NEW T, Good(T), NEW U, Good(U), Wakes(T, U), NEW r \in Thread, U[r].waitq # <<>>
  PROVE  Wakes(T, ipc_accept(U, r))
<1> DEFINE snd == Head(U[r].waitq).of
           n   == IF U[snd].ep = "WAIT_RECV" THEN U[snd].call_seq ELSE 0
           d   == [DropHead(U[r]) EXCEPT !.msg = U[snd].msg, !.sender = snd, !.prev_seq = n]
           U1  == [U EXCEPT ![r] = d]
<1>1. U[r].waitq \in Seq(Node) /\ U[r].waitq # <<>>
  BY DEF Good, ThreadRec
<1>2. Head(U[r].waitq) \in Node
  BY <1>1, SMTT(30)
<1>3. snd \in Thread
  BY <1>2 DEF Node
<1>4. U[snd].msg \in Msg /\ n \in Nat
  BY <1>3 DEF Good, ThreadRec
<1>5. RecOK(DropHead(U[r])) /\ U[r] \in ThreadRec
  BY DropHeadOK DEF Good
<1>6. RecOK(d) /\ d.state = U[r].state
  <2>1. d.state = U[r].state
    BY <1>5, DropHeadState DEF RecOK, ThreadRec
  <2> QED BY <1>3, <1>4, <1>5, <2>1, FillOK
<1>7. ipc_accept(U, r) = IF U1[snd].ep # "WAIT_RECV" THEN Wake(U1, snd) ELSE U1
  BY DEF ipc_accept, Accepted
<1> HIDE DEF d, snd
<1>8. Good(U1) /\ Wakes(T, U1)
  BY <1>6, GoodExcept DEF Wakes, Good
<1> QED BY <1>3, <1>7, <1>8, WakeWakes

(* The running thread goes on. *)
LEMMA StayDispatches ==
  ASSUME Good(threads), current \in Thread, threads[current].state = "RUNNING",
         NEW T, Good(T), Wakes(threads, T), Stay(T)
  PROVE  D!Next
<1> DEFINE W == {t \in Thread : threads[t].state = "BLOCKED" /\ T[t].state = "READY"}
<1>1. W \in SUBSET D!Startable
  BY DEF D!Startable, states
<1>2. D!Continue(W)
  BY DEF D!Continue, D!After, states, Stay, Wakes
<1>3. states[current] = "RUNNING"
  BY DEF states
<1> HIDE DEF W
<1> QED BY <1>1, <1>2, <1>3 DEF D!Next

(* The running thread gives the processor up. *)
LEMMA GiveUpDispatches ==
  ASSUME Good(threads), current \in Thread, threads[current].state = "RUNNING",
         NEW T, Good(T), Wakes(threads, T),
         NEW s \in {"READY", "BLOCKED", "TERMINATED"}, GiveUp(T, s)
  PROVE  D!Next
<1> DEFINE W == {t \in Thread : threads[t].state = "BLOCKED" /\ T[t].state = "READY"}
           left == [T EXCEPT ![current].state = s]
<1>1. W \in SUBSET D!Startable
  BY DEF D!Startable, states
<1>2. Good(left)
  BY StateOK
<1>3. \A t \in Thread : D!After(W, s)[t] = left[t].state
  <2> TAKE t \in Thread
  <2>1. CASE t = current
    <3>1. left[t].state = s
      BY <2>1, SMTT(30) DEF Good, RecOK, ThreadRec
    <3> QED BY <2>1, <3>1 DEF D!After
  <2>2. CASE t # current
    <3>1. left[t] = T[t]
      BY <2>2 DEF Good
    <3> QED BY <2>2, <3>1 DEF D!After, states, Wakes
  <2> QED BY <2>1, <2>2
<1>4. D!After(W, s) = [t \in Thread |-> left[t].state]
  BY <1>3 DEF D!After
<1> HIDE DEF W, left
<1>5. CASE \E next \in Thread :
             /\ left[next].state = "READY"
             /\ threads' = [left EXCEPT ![next].state = "RUNNING"]
             /\ current' = next
  <2>1. PICK next \in Thread : /\ left[next].state = "READY"
                               /\ threads' = [left EXCEPT ![next].state = "RUNNING"]
                               /\ current' = next
    BY <1>5
  <2>2. \A t \in Thread : threads'[t].state = IF t = next THEN "RUNNING" ELSE left[t].state
    BY <1>2, <2>1, SMTT(30) DEF Good, RecOK, ThreadRec
  <2>3. states' = [t \in Thread |-> IF t = next THEN "RUNNING" ELSE D!After(W, s)[t]]
    BY <1>3, <2>2 DEF states
  <2>4. D!GiveUp(W, s)
    BY <1>3, <2>1, <2>3 DEF D!GiveUp
  <2> QED BY <1>1, <2>4 DEF D!Next, states
<1>6. CASE (\A t \in Thread : left[t].state # "READY") /\ threads' = left /\ UNCHANGED current
  <2>1. D!Halt(W, s)
    BY <1>3, <1>4, <1>6 DEF D!Halt, states
  <2> QED BY <1>1, <2>1 DEF D!Next, states
<1> QED BY <1>5, <1>6 DEF GiveUp, left

(* What ipc_recv and ipc_reply_recv share. *)
LEMMA ReceiveDispatches ==
  ASSUME Parts, NEW T, Good(T), Wakes(threads, T), NEW t \in Thread, InUser(t), Receive(T, t)
  PROVE  D!Next
<1>1. Good(threads) /\ current \in Thread /\ threads[current].state = "RUNNING"
  BY DEF Parts, InUser
<1>2. CASE T[t].ep = "WAIT_SEND"
  <2>1. T[t].waitq # <<>>
    BY <1>2 DEF Good, RecOK
  <2>2. Stay(ipc_accept(T, t))
    BY <1>2 DEF Receive
  <2>3. Good(ipc_accept(T, t)) /\ Wakes(threads, ipc_accept(T, t))
    BY <1>1, <2>1, AcceptOK, AcceptWakes
  <2> QED BY <1>1, <2>2, <2>3, StayDispatches
<1>3. CASE T[t].ep # "WAIT_SEND"
  <2> DEFINE U == Enqueue(T, t, "WAIT_RECV", IpcNode(t))
  <2>1. GiveUp(U, "BLOCKED")
    BY <1>3 DEF Receive, sched_block
  <2>2. IpcNode(t) \in Node
    BY DEF IpcNode, Node
  <2>3. Good(U)
    BY <2>2, EnqueueOK
  <2>4. Wakes(threads, U)
    BY <1>1, EnqueueWakes
  <2> HIDE DEF U
  <2> QED BY <1>1, <2>1, <2>3, <2>4, GiveUpDispatches
<1> QED BY <1>2, <1>3

LEMMA SendDispatches ==
  ASSUME Parts, NEW t \in Thread, NEW target \in Thread, ipc_send(t, target)
  PROVE  D!Next
<1> DEFINE words == [op |-> "send", from |-> t, to |-> target, seq |-> 0]
           own   == [threads EXCEPT ![t].msg = words]
<1>1. Good(threads) /\ current \in Thread /\ threads[current].state = "RUNNING"
  BY DEF Parts, ipc_send, InUser
<1>2. words \in Msg
  BY DEF Msg
<1>3. Wakes(threads, threads)
  BY DEF Wakes
<1>4. CASE threads[target].ep = "WAIT_RECV"
  <2> DEFINE U == ipc_deliver_msg(threads, target, t, words, 0)
  <2>1. threads[target].waitq # <<>>
    BY <1>1, <1>4 DEF Good, RecOK
  <2>2. Good(U) /\ Wakes(threads, U)
    BY <1>1, <1>2, <1>3, <2>1, DeliverMsgOK, DeliverWakes
  <2>3. Stay(U)
    BY <1>4 DEF ipc_send
  <2> HIDE DEF U
  <2> QED BY <1>1, <2>2, <2>3, StayDispatches
<1>5. CASE threads[target].ep # "WAIT_RECV"
  <2> DEFINE r == [threads[t] EXCEPT !.msg = words]
             U == Enqueue(own, target, "WAIT_SEND", IpcNode(t))
  <2>1. own = [threads EXCEPT ![t] = r]
    BY <1>1 DEF Good
  <2>2. RecOK(r) /\ r.state = threads[t].state
    <3>1. r.state = threads[t].state
      BY <1>1 DEF Good, ThreadRec
    <3> QED BY <1>1, <1>2, <3>1, FillOK, TopologyAssumption DEF Good
  <2>3. own[target].ep # "WAIT_RECV"
    BY <1>1, <1>5, SMTT(30) DEF Good, ThreadRec
  <2>4. IpcNode(t) \in Node /\ IpcNode(t).list = "ipc_list"
    BY DEF IpcNode, Node
  <2>5. GiveUp(U, "BLOCKED")
    BY <1>5 DEF ipc_send, sched_block
  <2> HIDE DEF r, own
  <2>6. Good(own) /\ Wakes(threads, own)
    BY <1>1, <2>1, <2>2, GoodExcept, StoreWakes
  <2>7. Good(U) /\ Wakes(threads, U)
    BY <1>1, <2>3, <2>4, <2>6, EnqueueOK, EnqueueWakes
  <2> HIDE DEF U
  <2> QED BY <1>1, <2>5, <2>7, GiveUpDispatches
<1> QED BY <1>4, <1>5

LEMMA CallDispatches ==
  ASSUME Parts, NEW t \in Thread, NEW target \in Thread, ipc_call(t, target)
  PROVE  D!Next
<1> DEFINE seq   == threads[t].call_seq + 1
           words == [op |-> "call", from |-> t, to |-> target, seq |-> seq]
           r     == [threads[t] EXCEPT !.call_seq = seq]
           base  == [threads EXCEPT ![t].call_seq = seq]
           slot  == Enqueue(base, t, "WAIT_RECV", WaitNode(t))
           own   == [slot EXCEPT ![t].msg = words]
           sent  == IF slot[target].ep = "WAIT_RECV"
                    THEN ipc_deliver_msg(slot, target, t, words, seq)
                    ELSE Enqueue(own, target, "WAIT_SEND", IpcNode(t))
<1>1. Good(threads) /\ current \in Thread /\ threads[current].state = "RUNNING"
  BY DEF Parts, ipc_call, InUser
<1>2. GiveUp(sent, "BLOCKED")
  BY DEF ipc_call, sched_block
<1>3. seq \in Nat
  <2>1. threads[t].call_seq \in Nat
    BY <1>1 DEF Good, ThreadRec
  <2> QED BY <2>1, SMTT(30)
<1>4. words \in Msg
  BY <1>3 DEF Msg
<1>5. base = [threads EXCEPT ![t] = r] /\ r.state = threads[t].state
  BY <1>1 DEF Good, ThreadRec
<1>6. RecOK(r)
  <2>1. \A m \in Msg : RecOK(r)
    BY <1>1, <1>3, FillOK DEF Good
  <2> QED BY <1>4, <2>1
<1>7. WaitNode(t) \in Node /\ IpcNode(t) \in Node /\ IpcNode(t).list = "ipc_list"
  BY DEF WaitNode, IpcNode, Node
<1> HIDE DEF r, base, seq, words
<1>8. Good(base) /\ Wakes(threads, base)
  BY <1>1, <1>5, <1>6, GoodExcept, StoreWakes
<1>9. Good(slot) /\ Wakes(threads, slot)
  BY <1>1, <1>7, <1>8, EnqueueOK, EnqueueWakes
<1> HIDE DEF slot
<1>10. Good(sent) /\ Wakes(threads, sent)
  <2>1. CASE slot[target].ep = "WAIT_RECV"
    <3>1. slot[target].waitq # <<>>
      BY <1>9, <2>1 DEF Good, RecOK
    <3> QED BY <1>1, <1>3, <1>4, <1>9, <2>1, <3>1, DeliverMsgOK, DeliverWakes
  <2>2. CASE slot[target].ep # "WAIT_RECV"
    <3> DEFINE q == [slot[t] EXCEPT !.msg = words]
    <3>1. own = [slot EXCEPT ![t] = q] /\ q.state = slot[t].state
      BY <1>9 DEF Good, ThreadRec
    <3>2. RecOK(q)
      BY <1>3, <1>4, <1>9, FillOK DEF Good
    <3>3. own[target].ep # "WAIT_RECV"
      BY <1>9, <2>2 DEF Good, ThreadRec
    <3> HIDE DEF q, own
    <3>4. Good(own) /\ Wakes(threads, own)
      BY <1>9, <3>1, <3>2, GoodExcept DEF Wakes, Good
    <3> QED BY <1>1, <1>7, <2>2, <3>3, <3>4, EnqueueOK, EnqueueWakes
  <2> QED BY <2>1, <2>2
<1> HIDE DEF sent
<1> QED BY <1>1, <1>2, <1>10, GiveUpDispatches

(* A return to user mode touches no state field. *)
LEMMA ReturnDispatches ==
  ASSUME Parts, NEW t \in Thread, IpcReturn(t)
  PROVE  UNCHANGED <<states, current>>
<1>1. \A u \in Thread : threads'[u].state = threads[u].state
  BY ZenonT(30) DEF IpcReturn, Parts, Good, ThreadRec
<1> QED BY <1>1 DEF states, IpcReturn

LEMMA StepDispatches == Parts /\ [Next]_vars => [D!Next]_(D!vars)
<1> SUFFICES ASSUME Parts, [Next]_vars PROVE D!Next \/ UNCHANGED <<states, current>>
  BY DEF D!vars
<1>1. Wakes(threads, threads) /\ Good(threads) /\ current \in Thread
  BY DEF Wakes, Parts
<1>2. ASSUME NEW t \in Thread, ipc_recv(t) PROVE D!Next
  BY <1>1, <1>2, ReceiveDispatches DEF ipc_recv
<1>3. ASSUME NEW t \in Thread, ipc_reply_recv(t) PROVE D!Next
  <2> DEFINE words == [op |-> "reply", from |-> t, to |-> request[t].from, seq |-> request[t].seq]
             c == threads[t].sender
             T == ReplyTo(threads, t, words)
  <2>1. words \in Msg /\ c \in Thread
    BY DEF Parts, RestOK, Msg, Good, ThreadRec
  <2>2. InUser(t) /\ Receive(T, t)
    BY <1>3 DEF ipc_reply_recv
  <2> HIDE DEF words
  <2>3. Good(T)
    BY <1>1, <2>1, ReplyToOK
  <2>4. Wakes(threads, T)
    BY <1>1, <2>1, DeliverWakes DEF ReplyTo
  <2> HIDE DEF T
  <2> QED BY <2>2, <2>3, <2>4, ReceiveDispatches
<1>4. ASSUME NEW t \in Thread, Preempt(t) PROVE D!Next
  BY <1>1, <1>4, GiveUpDispatches DEF Preempt, InUser
<1>5. ASSUME NEW t \in Thread, NEW target \in Thread, thread_destroy(t, target)
      PROVE  D!Next \/ UNCHANGED <<states, current>>
  <2>1. CASE threads[target].state \in {"READY", "RUNNING"}
    BY <1>1, <1>5, <2>1, GiveUpDispatches DEF thread_destroy, InUser
  <2>2. CASE threads[target].state \notin {"READY", "RUNNING"}
    BY <1>5, <2>2 DEF thread_destroy, states
  <2> QED BY <2>1, <2>2
<1>6. CASE UNCHANGED vars
  BY <1>6 DEF vars, states
<1> QED BY <1>2, <1>3, <1>4, <1>5, <1>6, SendDispatches, CallDispatches, ReturnDispatches DEF Next, Step

LEMMA InitDispatches == Init => D!Init
  BY TopologyAssumption, SMTT(30) DEF Init, D!Init, states, NewThread

(* For every set of threads and every topology: one thread runs, a message *)
(* operation wakes only blocked threads, and the processor passes only to  *)
(* a READY one.                                                            *)
THEOREM IpcImplementsDispatch == Spec => ImplementsDispatch
<1>1. Spec => D!Spec
  BY InitOK, NextOK, StepDispatches, InitDispatches, PTL DEF Spec, D!Spec
<1> QED BY <1>1 DEF ImplementsDispatch

-----------------------------------------------------------------------------
(* Queues. *)

LEMMA OnAppend ==
  ASSUME NEW q \in Seq(Node), NEW n \in Node
  PROVE  /\ \A m \in Node : On(Append(q, n), m) <=> On(q, m) \/ m = n
         /\ Once(q) /\ ~On(q, n) => Once(Append(q, n))
<1>1. /\ Len(Append(q, n)) = Len(q) + 1
      /\ \A i \in 1..Len(q) : Append(q, n)[i] = q[i]
      /\ Append(q, n)[Len(q) + 1] = n
      /\ Len(q) \in Nat
  BY SMTT(30)
<1> QED BY <1>1, SMTT(30) DEF On, Once

LEMMA OnTail ==
  ASSUME NEW q \in Seq(Node), q # <<>>, Once(q)
  PROVE  /\ \A m \in Node : On(Tail(q), m) <=> On(q, m) /\ m # Head(q)
         /\ Once(Tail(q))
         /\ Head(q) \in Node /\ On(q, Head(q))
<1>1. /\ Len(Tail(q)) = Len(q) - 1
      /\ \A i \in 1..Len(Tail(q)) : Tail(q)[i] = q[i + 1]
      /\ Head(q) = q[1] /\ Head(q) \in Node
      /\ Len(q) \in Nat /\ Len(q) > 0
  BY SMTT(30)
<1>2. ASSUME NEW m \in Node, On(q, m), m # Head(q) PROVE On(Tail(q), m)
  <2>1. PICK i \in 1..Len(q) : q[i] = m
    BY <1>2 DEF On
  <2>2. i - 1 \in 1..Len(Tail(q)) /\ Tail(q)[i - 1] = m
    BY <1>1, <1>2, <2>1, SMTT(30)
  <2> QED BY <2>2 DEF On
<1>3. ASSUME NEW m \in Node, On(Tail(q), m) PROVE On(q, m) /\ m # Head(q)
  BY <1>1, <1>3, SMTT(30) DEF On, Once
<1> QED BY <1>1, <1>2, <1>3, SMTT(30) DEF On, Once

LEMMA OnOne ==
  /\ \A n, m : On(<<n>>, m) <=> m = n
  /\ \A n : Once(<<n>>)
  /\ \A m : ~On(<<>>, m)
  /\ Once(<<>>)
  BY SMTT(30) DEF On, Once

LEMMA OnSome ==
  ASSUME NEW q \in Seq(Node), q # <<>>
  PROVE  \E n \in Node : On(q, n)
<1>1. 1 \in 1..Len(q) /\ q[1] \in Node
  BY SMTT(30)
<1> QED BY <1>1 DEF On

(* Consequences of the invariant. *)

LEMMA NodeTypes ==
  /\ \A t \in Thread : /\ IpcNode(t) \in Node /\ WaitNode(t) \in Node
                       /\ IpcNode(t).of = t /\ WaitNode(t).of = t
                       /\ IpcNode(t).list = "ipc_list" /\ WaitNode(t).list = "ipc_wait_list"
                       /\ IpcNode(t) # WaitNode(t)
  /\ \A n \in Node : /\ n.of \in Thread
                     /\ n.list = "ipc_list" => n = IpcNode(n.of)
                     /\ n.list = "ipc_wait_list" => n = WaitNode(n.of)
                     /\ n.list \in {"ipc_list", "ipc_wait_list"}
  BY SMTT(30) DEF IpcNode, WaitNode, Node

(* The nodes of a thread that is not blocked are linked nowhere. *)
LEMMA Unlinked ==
  ASSUME NEW T, NEW K, NodesOK(T, K), NEW t \in Thread, T[t].state # "BLOCKED",
         NEW n \in Node, n.of = t
  PROVE  (\A u \in Thread : ~On(T[u].waitq, n)) /\ ~Linked(T, n)
<1>1. \A u \in Thread : ~On(T[u].waitq, n)
  BY DEF NodesOK, NodeOK
<1> QED BY <1>1 DEF Linked, On

(* A thread that waits to receive has its own node only on its queue. *)
LEMMA OwnSlot ==
  ASSUME NEW T, NEW K, Good(T), NodesOK(T, K), NEW u \in Thread, T[u].ep = "WAIT_RECV"
  PROVE  /\ T[u].state = "BLOCKED"
         /\ \/ T[u].waitq = <<IpcNode(u)>> /\ K[u].at = "recv"
            \/ T[u].waitq = <<WaitNode(u)>> /\ K[u].at = "call"
<1>1. T[u].waitq \in Seq(Node) /\ T[u].waitq # <<>>
  BY DEF Good, RecOK, ThreadRec
<1>2. PICK n \in Node : On(T[u].waitq, n)
  BY <1>1, OnSome
<1>3. NodeOK(T, K, u, n)
  BY <1>2 DEF NodesOK
<1> QED BY <1>3, NodeTypes, SMTT(30) DEF NodeOK

(* Nobody waits to send to a thread that calls. *)
LEMMA CallerEp ==
  ASSUME Topology, NEW T, NEW K, NEW G, NEW F, Good(T), K \in Stacks,
         NodesOK(T, K), CallersOK(T, K, G, F), NEW c \in Thread, CallTargets[c] # {}
  PROVE  T[c].ep # "WAIT_SEND"
<1> SUFFICES ASSUME T[c].ep = "WAIT_SEND" PROVE FALSE
  BY SMTT(30)
<1>1. T[c].waitq \in Seq(Node) /\ T[c].waitq # <<>>
  BY DEF Good, RecOK, ThreadRec
<1>2. PICK n \in Node : On(T[c].waitq, n)
  BY <1>1, OnSome
<1>3. n.of \in Thread /\ K[n.of].at \in {"send", "call"} /\ K[n.of].to = c
  BY <1>2, NodeTypes, SMTT(30) DEF NodesOK, NodeOK
<1>4. c \in SendTargets[n.of] \cup CallTargets[n.of]
  BY <1>3 DEF CallersOK, CallerOK
<1> QED BY <1>3, <1>4, TopologyAssumption DEF Topology, ClientsAndServers

(* A thread that is called does not send, call or receive in other ways. *)
LEMMA ServerOnly ==
  ASSUME Topology, NEW s \in Thread, Server(s)
  PROVE  SendTargets[s] = {} /\ CallTargets[s] = {} /\ s \notin Receivers
  BY TopologyAssumption DEF Topology, ClientsAndServers, Server

(* U is T with other fields the same and the same threads blocked. *)
Alike(T, U) ==
  \A t \in Thread :
    /\ U[t].ep = T[t].ep /\ U[t].waitq = T[t].waitq /\ U[t].msg = T[t].msg
    /\ U[t].sender = T[t].sender /\ U[t].prev_seq = T[t].prev_seq
    /\ U[t].call_seq = T[t].call_seq
    /\ U[t].state = "BLOCKED" <=> T[t].state = "BLOCKED"

(* The protocol does not depend on which of its threads are running. *)
LEMMA AlikeProtocol ==
  ASSUME NEW T, NEW U, NEW K, NEW R, NEW G, NEW F, Typed(T, K, R),
         Protocol(T, K, R, G, F), Alike(T, U)
  PROVE  Protocol(U, K, R, G, F)
<1>1. K \in Stacks /\ \A t \in Thread : K[t].to \in Thread /\ T[t].sender \in Thread
  BY DEF Typed, Stacks, Good, ThreadRec
<1>2. NodesOK(U, K)
  <2>1. \A u \in Thread, n \in Node : NodeOK(U, K, u, n) <=> NodeOK(T, K, u, n)
    BY NodeTypes, SMTT(30) DEF NodeOK, Alike
  <2> QED BY <2>1 DEF Protocol, NodesOK, Alike
<1>3. BlockedOK(U, K, F)
  BY <1>1, SMTT(30) DEF Protocol, BlockedOK, Alike
<1>4. ServersOK(U, K, R, F)
  <2>1. \A s \in Thread : ContextOK(U, K, R, s) <=> ContextOK(T, K, R, s)
    BY <1>1, SMTT(30) DEF ContextOK, Work, Request, Alike
  <2> QED BY <2>1 DEF Protocol, ServersOK, Serving, Alike
<1>5. CallersOK(U, K, G, F)
  <2>1. \A c \in Thread : CallerOK(U, K, G, F, c) <=> CallerOK(T, K, G, F, c)
    BY <1>1, SMTT(30) DEF CallerOK, Serving, Request, Reply, Alike
  <2> QED BY <2>1 DEF Protocol, CallersOK
<1> QED BY <1>2, <1>3, <1>4, <1>5 DEF Protocol

(* The steps of the operations.  T is the array before, U the array after. *)

(* The threads and stacks other than t's are the same. *)
Others(T, U, t) == \A u \in Thread \ {t} : U[u] = T[u]

(* No server works on a call of t, and t is in no queue. *)
Fresh(T, K, t) ==
  /\ \A u \in Thread : ~On(T[u].waitq, IpcNode(t))
  /\ \A s \in Thread : Serving(T, K, s) /\ T[s].prev_seq # 0 => T[s].sender # t

(* A thread that may run and is in user mode is in no queue, and nobody    *)
(* works on a call of it.                                                  *)
LEMMA UserFresh ==
  ASSUME NEW T, NEW K, NEW R, NEW G, Typed(T, K, R), Protocol(T, K, R, G, {}),
         NEW t \in Thread, T[t].state # "BLOCKED", K[t].at = "user"
  PROVE  /\ Fresh(T, K, t)
         /\ \A u \in Thread, n \in Node : n.of = t => ~On(T[u].waitq, n)
         /\ T[t].ep # "WAIT_RECV"
<1>1. \A u \in Thread, n \in Node : n.of = t => ~On(T[u].waitq, n)
  BY Unlinked DEF Protocol
<1>2. \A s \in Thread : Serving(T, K, s) /\ T[s].prev_seq # 0 => T[s].sender # t
  BY DEF Protocol, ServersOK, ContextOK
<1>3. T[t].ep # "WAIT_RECV"
  BY OwnSlot DEF Protocol, Typed
<1> QED BY <1>1, <1>2, <1>3, NodeTypes DEF Fresh

(* ipc_send, up to the target's queue. *)
LEMMA BeginSend ==
  ASSUME Topology, NEW T, NEW U, NEW K, NEW L, NEW R, NEW G,
         Typed(T, K, R), Typed(U, L, R), Protocol(T, K, R, G, {}),
         NEW t \in Thread, T[t].state # "BLOCKED", K[t].at = "user",
         Others(T, U, t), Others(K, L, t),
         U[t].state = "BLOCKED", U[t].ep = T[t].ep, U[t].waitq = T[t].waitq,
         U[t].prev_seq = T[t].prev_seq,
         L[t].at = "send", L[t].to \in SendTargets[t]
  PROVE  Protocol(U, L, R, G, {t}) /\ Fresh(U, L, t)
<1>1. /\ Fresh(T, K, t)
      /\ \A u \in Thread, n \in Node : n.of = t => ~On(T[u].waitq, n)
      /\ T[t].ep # "WAIT_RECV"
  BY UserFresh
<1>2. ~Server(t)
  BY ServerOnly
<1>3. \A u \in Thread : /\ U[u].waitq = T[u].waitq /\ U[u].ep = T[u].ep
                        /\ U[u].prev_seq = T[u].prev_seq
                        /\ T[u].sender \in Thread /\ K[u].to \in Thread /\ L[u].to \in Thread
  BY DEF Others, Typed, Good, ThreadRec, Stacks
<1>4. NodesOK(U, L)
  <2>1. ASSUME NEW u \in Thread, NEW n \in Node, On(T[u].waitq, n)
        PROVE  NodeOK(U, L, u, n)
    <3>1. NodeOK(T, K, u, n) /\ n.of \in Thread /\ n.of # t
      BY <1>1, <2>1, NodeTypes DEF Protocol, NodesOK
    <3>2. U[n.of] = T[n.of] /\ L[n.of] = K[n.of]
      BY <3>1 DEF Others
    <3> QED BY <3>1, <3>2, <1>3, SMTT(30) DEF NodeOK
  <2> QED BY <2>1, <1>3 DEF Protocol, NodesOK
<1>5. BlockedOK(U, L, {t})
  BY <1>3, SMTT(30) DEF Protocol, BlockedOK, Others
<1>6. ServersOK(U, L, R, {t})
  <2>1. ASSUME NEW s \in Thread \ {t}, Serving(U, L, s) PROVE ContextOK(U, L, R, s)
    <3>1. U[s] = T[s] /\ L[s] = K[s] /\ ContextOK(T, K, R, s)
      BY <2>1 DEF Others, Serving, Protocol, ServersOK
    <3>2. CASE T[s].prev_seq # 0
      <4>1. T[s].sender # t /\ T[s].sender \in Thread
        BY <2>1, <3>1, <3>2, <1>1, <1>3, SMTT(30) DEF Fresh, Serving
      <4>2. U[T[s].sender] = T[T[s].sender] /\ L[T[s].sender] = K[T[s].sender]
        BY <4>1 DEF Others
      <4> QED BY <3>1, <4>2 DEF ContextOK, Work, Request
    <3> QED BY <3>1, <3>2 DEF ContextOK, Work
  <2> QED BY <2>1, <1>3 DEF Protocol, ServersOK
<1>7. CallersOK(U, L, G, {t})
  <2>1. ASSUME NEW c \in Thread \ {t}, L[c].at = "call" PROVE CallerOK(U, L, G, {t}, c)
    <3>1. U[c] = T[c] /\ L[c] = K[c] /\ CallerOK(T, K, G, {}, c)
      BY <2>1 DEF Others, Protocol, CallersOK
    <3>2. K[c].to # t /\ K[c].to \in Thread
      BY <3>1, <1>2, <1>3 DEF CallerOK, Server
    <3>3. U[K[c].to] = T[K[c].to] /\ L[K[c].to] = K[K[c].to]
      BY <3>2 DEF Others
    <3> QED BY <3>1, <3>2, <3>3 DEF CallerOK, Serving, Request, Reply
  <2> QED BY <2>1 DEF Protocol, CallersOK, Others
<1>8. Fresh(U, L, t)
  <2>1. \A s \in Thread : Serving(U, L, s) => Serving(T, K, s) /\ U[s].sender = T[s].sender
    BY DEF Serving, Others
  <2> QED BY <2>1, <1>1, <1>3 DEF Fresh
<1> QED BY <1>4, <1>5, <1>6, <1>7, <1>8 DEF Protocol

(* ipc_call, up to the target's queue: the reply slot is on t's own. *)
LEMMA BeginCall ==
  ASSUME Topology, NEW T, NEW U, NEW K, NEW L, NEW R, NEW G,
         Typed(T, K, R), Typed(U, L, R), Protocol(T, K, R, G, {}),
         NEW t \in Thread, T[t].state # "BLOCKED", K[t].at = "user",
         T[t].waitq = <<>>,
         Others(T, U, t), Others(K, L, t),
         U[t].state = "BLOCKED", U[t].ep = "WAIT_RECV", U[t].waitq = <<WaitNode(t)>>,
         U[t].prev_seq = T[t].prev_seq, U[t].call_seq > 0,
         L[t].at = "call", L[t].to \in CallTargets[t]
  PROVE  Protocol(U, L, R, G, {t}) /\ Fresh(U, L, t)
<1>1. /\ Fresh(T, K, t)
      /\ \A u \in Thread, n \in Node : n.of = t => ~On(T[u].waitq, n)
  BY UserFresh
<1>2. ~Server(t)
  BY ServerOnly
<1>3. \A u \in Thread : /\ U[u].prev_seq = T[u].prev_seq
                        /\ T[u].sender \in Thread /\ K[u].to \in Thread /\ L[u].to \in Thread
  BY DEF Others, Typed, Good, ThreadRec, Stacks
<1>4. \A u \in Thread, n \in Node :
        On(U[u].waitq, n) <=> On(T[u].waitq, n) \/ (u = t /\ n = WaitNode(t))
  <2>1. \A n \in Node : On(U[t].waitq, n) <=> n = WaitNode(t)
    BY OnOne, SMTT(30)
  <2>2. \A n \in Node : ~On(T[t].waitq, n)
    BY OnOne, SMTT(30)
  <2> QED BY <2>1, <2>2 DEF Others
<1>5. NodesOK(U, L)
  <2>1. ASSUME NEW u \in Thread \ {t}, NEW n \in Node, On(T[u].waitq, n)
        PROVE  NodeOK(U, L, u, n)
    <3>1. NodeOK(T, K, u, n) /\ n.of \in Thread /\ n.of # t
      BY <1>1, <2>1, NodeTypes DEF Protocol, NodesOK
    <3>2. U[n.of] = T[n.of] /\ L[n.of] = K[n.of] /\ U[u] = T[u] /\ L[u] = K[u]
      BY <2>1, <3>1 DEF Others
    <3> QED BY <3>1, <3>2 DEF NodeOK
  <2>2. NodeOK(U, L, t, WaitNode(t))
    BY NodeTypes DEF NodeOK
  <2>3. \A u \in Thread : Once(T[u].waitq)
    BY DEF Protocol, NodesOK
  <2>4. Once(U[t].waitq)
    BY OnOne, SMTT(30)
  <2>5. \A u \in Thread : Once(U[u].waitq)
    BY <2>3, <2>4 DEF Others
  <2>6. \A u \in Thread, n \in Node : On(U[u].waitq, n) => NodeOK(U, L, u, n)
    <3>1. \A n \in Node : ~On(T[t].waitq, n)
      BY OnOne, SMTT(30)
    <3> QED BY <3>1, <2>1, <2>2, <1>4
  <2> QED BY <2>5, <2>6 DEF NodesOK
<1>6. BlockedOK(U, L, {t})
  BY <1>3, <1>4, NodeTypes, SMTT(30) DEF Protocol, BlockedOK, Others
<1>7. ServersOK(U, L, R, {t})
  <2>1. ASSUME NEW s \in Thread \ {t}, Serving(U, L, s) PROVE ContextOK(U, L, R, s)
    <3>1. U[s] = T[s] /\ L[s] = K[s] /\ ContextOK(T, K, R, s)
      BY <2>1 DEF Others, Serving, Protocol, ServersOK
    <3>2. CASE T[s].prev_seq # 0
      <4>1. T[s].sender # t /\ T[s].sender \in Thread
        BY <2>1, <3>1, <3>2, <1>1, <1>3 DEF Fresh, Serving
      <4>2. U[T[s].sender] = T[T[s].sender] /\ L[T[s].sender] = K[T[s].sender]
        BY <4>1 DEF Others
      <4> QED BY <3>1, <4>2 DEF ContextOK, Work, Request
    <3> QED BY <3>1, <3>2 DEF ContextOK, Work
  <2> QED BY <2>1, <1>3 DEF Protocol, ServersOK
<1>8. CallersOK(U, L, G, {t})
  <2>1. ASSUME NEW c \in Thread \ {t}, L[c].at = "call" PROVE CallerOK(U, L, G, {t}, c)
    <3>1. U[c] = T[c] /\ L[c] = K[c] /\ CallerOK(T, K, G, {}, c)
      BY <2>1 DEF Others, Protocol, CallersOK
    <3>2. K[c].to # t /\ K[c].to \in Thread
      BY <3>1, <1>2, <1>3 DEF CallerOK, Server
    <3>3. U[K[c].to] = T[K[c].to] /\ L[K[c].to] = K[K[c].to]
      BY <3>2 DEF Others
    <3> QED BY <3>1, <3>2, <3>3 DEF CallerOK, Serving, Request, Reply
  <2>2. CallerOK(U, L, G, {t}, t)
    BY <1>1, <1>3, <1>4, NodeTypes DEF CallerOK
  <2> QED BY <2>1, <2>2 DEF Protocol, CallersOK, Others
<1>9. Fresh(U, L, t)
  <2>1. \A s \in Thread : Serving(U, L, s) => Serving(T, K, s) /\ U[s].sender = T[s].sender
    BY DEF Serving, Others
  <2>2. \A u \in Thread : ~On(U[u].waitq, IpcNode(t))
    BY <1>1, <1>4, NodeTypes
  <2> QED BY <2>1, <2>2, <1>1, <1>3 DEF Fresh
<1> QED BY <1>5, <1>6, <1>7, <1>8, <1>9 DEF Protocol

(* The node of a sender or a caller goes to the end of the target's queue. *)
LEMMA QueueUp ==
  ASSUME Topology, NEW T, NEW U, NEW K, NEW R, NEW G, NEW t \in Thread,
         Typed(T, K, R), Typed(U, K, R), Protocol(T, K, R, G, {t}), Fresh(T, K, t),
         T[t].state = "BLOCKED", NEW r \in Thread, K[t].to = r,
         \/ K[t].at = "send" /\ T[t].msg.op = "send"
         \/ K[t].at = "call" /\ T[t].msg = Request(T, t, r) /\ T[t].waitq = <<WaitNode(t)>>,
         T[r].ep # "WAIT_RECV", Others(T, U, r),
         U[r].state = T[r].state, U[r].ep = "WAIT_SEND",
         U[r].waitq = Append(T[r].waitq, IpcNode(t)), U[r].msg = T[r].msg,
         U[r].sender = T[r].sender, U[r].prev_seq = T[r].prev_seq,
         U[r].call_seq = T[r].call_seq
  PROVE  Protocol(U, K, R, G, {})
<1>1. \A u \in Thread : /\ T[u].sender \in Thread /\ K[u].to \in Thread
                        /\ T[u].waitq \in Seq(Node) /\ RecOK(T[u])
                        /\ U[u].state = T[u].state /\ U[u].msg = T[u].msg
                        /\ U[u].sender = T[u].sender /\ U[u].prev_seq = T[u].prev_seq
                        /\ U[u].call_seq = T[u].call_seq
  BY DEF Others, Typed, Good, ThreadRec, Stacks
<1>2. IpcNode(t) \in Node /\ ~On(T[r].waitq, IpcNode(t))
  BY NodeTypes DEF Fresh
<1>3. \A u \in Thread, n \in Node :
        On(U[u].waitq, n) <=> On(T[u].waitq, n) \/ (u = r /\ n = IpcNode(t))
  <2>1. \A n \in Node : On(U[r].waitq, n) <=> On(T[r].waitq, n) \/ n = IpcNode(t)
    BY <1>1, <1>2, OnAppend, SMTT(30)
  <2> QED BY <2>1 DEF Others
<1>4. \A n \in Node : On(T[r].waitq, n) => T[r].ep = "WAIT_SEND"
  <2>1. T[r].ep \in {"INACTIVE", "WAIT_SEND"} /\ (T[r].ep = "INACTIVE" => T[r].waitq = <<>>)
    BY <1>1 DEF RecOK, ThreadRec
  <2> QED BY <2>1, OnOne, SMTT(30)
<1>5. NodesOK(U, K)
  <2>1. ASSUME NEW u \in Thread, NEW n \in Node, On(T[u].waitq, n)
        PROVE  NodeOK(U, K, u, n)
    <3>1. NodeOK(T, K, u, n) /\ n.of \in Thread
      BY <2>1, NodeTypes DEF Protocol, NodesOK
    <3>2. CASE u = r
      BY <2>1, <3>1, <3>2, <1>1, <1>4 DEF NodeOK
    <3>3. CASE u # r
      BY <3>1, <3>3, <1>1, SMTT(30) DEF NodeOK, Others
    <3> QED BY <3>2, <3>3
  <2>2. NodeOK(U, K, r, IpcNode(t))
    BY <1>1, NodeTypes, SMTT(30) DEF NodeOK
  <2>3. \A u \in Thread : Once(T[u].waitq)
    BY DEF Protocol, NodesOK
  <2>4. Once(U[r].waitq)
    BY <1>1, <1>2, <2>3, OnAppend, SMTT(30)
  <2>5. \A u \in Thread : Once(U[u].waitq)
    BY <2>3, <2>4 DEF Others
  <2>6. \A u \in Thread, n \in Node : On(U[u].waitq, n) => NodeOK(U, K, u, n)
    BY <2>1, <2>2, <1>3
  <2> QED BY <2>5, <2>6 DEF NodesOK
<1>6. \A u \in Thread : \A n \in Node :
        /\ T[u].waitq = <<n>> /\ n.of = u
        /\ K[u].at = "recv" \/ n.list = "ipc_wait_list"
        => u # r
  <2> SUFFICES ASSUME NEW n \in Node, T[r].waitq = <<n>>,
                      K[r].at = "recv" \/ n.list = "ipc_wait_list", n.of = r
               PROVE  FALSE
    BY SMTT(30)
  <2>1. On(T[r].waitq, n)
    BY OnOne, SMTT(30)
  <2>2. NodeOK(T, K, r, n) /\ T[r].ep = "WAIT_SEND"
    BY <2>1, <1>4 DEF Protocol, NodesOK
  <2> QED BY <2>2 DEF NodeOK
<1>7. BlockedOK(U, K, {})
  <2>1. ASSUME NEW u \in Thread \ {t}, T[u].state = "BLOCKED"
        PROVE  \/ K[u].at = "send" /\ On(U[K[u].to].waitq, IpcNode(u)) /\ U[u].msg.op = "send"
               \/ K[u].at = "recv" /\ U[u].waitq = <<IpcNode(u)>>
               \/ K[u].at = "call" /\ U[u].waitq = <<WaitNode(u)>>
    <3>1. \/ K[u].at = "send" /\ On(T[K[u].to].waitq, IpcNode(u)) /\ T[u].msg.op = "send"
          \/ K[u].at = "recv" /\ T[u].waitq = <<IpcNode(u)>>
          \/ K[u].at = "call" /\ T[u].waitq = <<WaitNode(u)>>
      BY <2>1 DEF Protocol, BlockedOK
    <3>2. T[u].waitq = <<IpcNode(u)>> /\ K[u].at = "recv" => u # r
      BY <1>6, NodeTypes
    <3>3. T[u].waitq = <<WaitNode(u)>> => u # r
      BY <1>6, NodeTypes
    <3> QED BY <3>1, <3>2, <3>3, <1>1, <1>3, NodeTypes, SMTT(30) DEF Others
  <2>2. \/ K[t].at = "send" /\ On(U[K[t].to].waitq, IpcNode(t)) /\ U[t].msg.op = "send"
        \/ K[t].at = "recv" /\ U[t].waitq = <<IpcNode(t)>>
        \/ K[t].at = "call" /\ U[t].waitq = <<WaitNode(t)>>
    <3>1. T[t].waitq = <<WaitNode(t)>> => t # r
      BY <1>6, NodeTypes
    <3>2. On(U[r].waitq, IpcNode(t)) /\ U[t].msg = T[t].msg
      BY <1>1, <1>2, <1>3
    <3>3. T[t].waitq = <<WaitNode(t)>> => U[t].waitq = <<WaitNode(t)>>
      BY <3>1 DEF Others
    <3> QED BY <3>2, <3>3
  <2>3. \A u \in Thread : U[u].state = T[u].state
    BY <1>1
  <2> QED BY <2>1, <2>2, <2>3 DEF BlockedOK
<1>8. ServersOK(U, K, R, {})
  <2>1. ASSUME NEW s \in Thread, Serving(U, K, s) PROVE ContextOK(U, K, R, s)
    <3>1. s # t /\ Serving(T, K, s) /\ ContextOK(T, K, R, s)
      BY <2>1, <1>1, SMTT(30) DEF Serving, Protocol, ServersOK
    <3>2. T[s].prev_seq # 0 => T[s].sender # t
      BY <3>1 DEF Fresh
    <3>3. T[s].prev_seq # 0 =>
            (On(U[s].waitq, IpcNode(T[s].sender)) <=> On(T[s].waitq, IpcNode(T[s].sender)))
      BY <3>2, <1>1, <1>3, NodeTypes, SMTT(30)
    <3> QED BY <3>1, <3>2, <3>3, <1>1, SMTT(30) DEF ContextOK, Work, Request
  <2>2. \A s \in Thread : ~Server(s) => U[s].prev_seq = 0 /\ R[s].op # "call"
    BY <1>1, SMTT(30) DEF Protocol, ServersOK
  <2> QED BY <2>1, <2>2 DEF ServersOK
<1>9. CallersOK(U, K, G, {})
  <2>1. ASSUME NEW c \in Thread, K[c].at = "call" PROVE CallerOK(U, K, G, {}, c)
    <3>1. CallerOK(T, K, G, {t}, c) /\ K[c].to \in Thread
      BY <2>1, <1>1 DEF Protocol, CallersOK
    <3>2. On(U[K[c].to].waitq, IpcNode(c)) <=>
            On(T[K[c].to].waitq, IpcNode(c)) \/ (c = t /\ K[c].to = r)
      BY <3>1, <1>3, NodeTypes, SMTT(30)
    <3>3. c = t => T[c].msg = Request(T, c, K[c].to)
      BY <2>1
    <3> QED BY <3>1, <3>2, <3>3, <1>1, SMTT(30) DEF CallerOK, Serving, Request, Reply
  <2> QED BY <2>1 DEF Protocol, CallersOK
<1> QED BY <1>5, <1>7, <1>8, <1>9 DEF Protocol

(* ipc_deliver_msg, to a target that waits in ipc_recv or ipc_reply_recv. *)
LEMMA HandOver ==
  ASSUME Topology, NEW T, NEW U, NEW K, NEW R, NEW G, NEW F,
         Typed(T, K, R), Typed(U, K, R), Protocol(T, K, R, G, F),
         NEW t \in Thread, NEW r \in Thread \ {t},
         T[r].state = "BLOCKED", T[r].waitq = <<IpcNode(r)>>, K[r].at = "recv",
         T[r].ep = "WAIT_RECV",
         \/ F = {} /\ U[r].prev_seq = 0 /\ U[r].msg.op = "send"
         \/ /\ F = {t} /\ U[r].prev_seq = T[t].call_seq /\ U[r].msg = Request(T, t, r)
            /\ K[t].at = "call" /\ K[t].to = r /\ T[t].state = "BLOCKED"
            /\ T[t].waitq = <<WaitNode(t)>>,
         Others(T, U, r), U[r].state = "READY", U[r].waitq = <<>>, U[r].sender = t
  PROVE  Protocol(U, K, R, G, {})
<1>1. \A u \in Thread : T[u].sender \in Thread /\ K[u].to \in Thread
  BY DEF Typed, Good, ThreadRec, Stacks
<1>2. \A n \in Node : /\ ~On(U[r].waitq, n)
                      /\ On(T[r].waitq, n) => n = IpcNode(r)
  BY OnOne, SMTT(30)
<1>3. F # {} => Server(r) /\ U[r].prev_seq # 0
  <2>1. F # {} => CallerOK(T, K, G, F, t) /\ T[t].call_seq \in Nat
    BY DEF Protocol, CallersOK, Typed, Good, ThreadRec
  <2> QED BY <2>1, SMTT(30) DEF CallerOK, Server
<1>4. NodesOK(U, K)
  <2>1. ASSUME NEW u \in Thread \ {r}, NEW n \in Node, On(T[u].waitq, n)
        PROVE  NodeOK(U, K, u, n)
    <3>1. NodeOK(T, K, u, n) /\ n.of \in Thread
      BY <2>1, NodeTypes DEF Protocol, NodesOK
    <3>2. n.of # r
      BY <3>1, <2>1 DEF NodeOK
    <3>3. U[n.of] = T[n.of] /\ U[u] = T[u]
      BY <2>1, <3>1, <3>2 DEF Others
    <3> QED BY <3>1, <3>3 DEF NodeOK
  <2>2. \A u \in Thread : Once(T[u].waitq)
    BY DEF Protocol, NodesOK
  <2>3. Once(U[r].waitq)
    BY OnOne
  <2>4. \A u \in Thread : Once(U[u].waitq)
    BY <2>2, <2>3 DEF Others
  <2>5. \A u \in Thread, n \in Node : On(U[u].waitq, n) => NodeOK(U, K, u, n)
    BY <2>1, <1>2 DEF Others
  <2> QED BY <2>4, <2>5 DEF NodesOK
<1>5. BlockedOK(U, K, {})
  <2>1. ASSUME NEW u \in Thread, U[u].state = "BLOCKED"
        PROVE  \/ K[u].at = "send" /\ On(U[K[u].to].waitq, IpcNode(u)) /\ U[u].msg.op = "send"
               \/ K[u].at = "recv" /\ U[u].waitq = <<IpcNode(u)>>
               \/ K[u].at = "call" /\ U[u].waitq = <<WaitNode(u)>>
    <3>1. u # r /\ U[u] = T[u]
      BY <2>1 DEF Others
    <3>2. \/ K[u].at = "send" /\ On(T[K[u].to].waitq, IpcNode(u)) /\ T[u].msg.op = "send"
          \/ K[u].at = "recv" /\ T[u].waitq = <<IpcNode(u)>>
          \/ K[u].at = "call" /\ T[u].waitq = <<WaitNode(u)>>
      BY <2>1, <3>1 DEF Protocol, BlockedOK
    <3>3. ~On(T[r].waitq, IpcNode(u))
      BY <3>1, <1>2, NodeTypes, SMTT(30)
    <3>4. On(T[K[u].to].waitq, IpcNode(u)) => U[K[u].to] = T[K[u].to]
      BY <3>3, <1>1 DEF Others
    <3> QED BY <3>1, <3>2, <3>4
  <2> QED BY <2>1 DEF BlockedOK
<1>6. ServersOK(U, K, R, {})
  <2>1. ASSUME NEW s \in Thread \ {r}, Serving(U, K, s) PROVE ContextOK(U, K, R, s)
    <3>1. s \notin F /\ U[s] = T[s] /\ ContextOK(T, K, R, s)
      BY <2>1 DEF Others, Serving, Protocol, ServersOK
    <3>2. T[s].prev_seq # 0 => T[s].sender # r /\ U[T[s].sender] = T[T[s].sender]
      BY <3>1, <1>1 DEF ContextOK, Others
    <3> QED BY <3>1, <3>2, SMTT(30) DEF ContextOK, Work, Request
  <2>2. ContextOK(U, K, R, r)
    <3>1. U[t] = T[t]
      BY DEF Others
    <3>2. Work(U, K, R, r) = U[r].msg /\ ~On(U[r].waitq, IpcNode(t))
      BY <1>2, NodeTypes DEF Work
    <3>3. CASE F = {}
      BY <3>2, <3>3 DEF ContextOK
    <3>4. CASE F # {}
      BY <3>1, <3>2, <3>4, <1>3 DEF ContextOK, Request
    <3> QED BY <3>3, <3>4
  <2>3. \A s \in Thread : ~Server(s) => U[s].prev_seq = 0 /\ R[s].op # "call"
    <3>1. \A s \in Thread : ~Server(s) => T[s].prev_seq = 0 /\ R[s].op # "call"
      BY DEF Protocol, ServersOK
    <3> QED BY <3>1, <1>3, ZenonT(30) DEF Others
  <2> QED BY <2>1, <2>2, <2>3 DEF ServersOK
<1>7. CallersOK(U, K, G, {})
  <2>1. ASSUME NEW c \in Thread, K[c].at = "call" PROVE CallerOK(U, K, G, {}, c)
    <3>1. c # r /\ U[c] = T[c] /\ CallerOK(T, K, G, F, c) /\ K[c].to \in Thread
      BY <2>1, <1>1 DEF Others, Protocol, CallersOK
    <3>2. CASE K[c].to = r
      <4>1. ~On(T[r].waitq, IpcNode(c)) /\ ~On(U[r].waitq, IpcNode(c)) /\ ~Serving(T, K, r)
        BY <3>1, <1>2, NodeTypes, SMTT(30) DEF Serving
      <4>2. T[c].state = "BLOCKED" => c \notin G \ F
        BY <3>1, <3>2, <4>1 DEF CallerOK
      <4>3. c \in F => /\ Serving(U, K, r) /\ U[r].sender = c
                       /\ U[r].prev_seq = U[c].call_seq
        BY <3>1 DEF Serving
      <4> QED BY <3>1, <3>2, <4>1, <4>2, <4>3, SMTT(30) DEF CallerOK, Request, Reply
    <3>3. CASE K[c].to # r
      <4>1. U[K[c].to] = T[K[c].to] /\ c \notin F
        BY <3>1, <3>3 DEF Others
      <4> QED BY <3>1, <3>3, <4>1 DEF CallerOK, Serving, Request, Reply
    <3> QED BY <3>2, <3>3
  <2> QED BY <2>1 DEF Protocol, CallersOK
<1> QED BY <1>4, <1>5, <1>6, <1>7 DEF Protocol

(* The reply half of ipc_reply_recv, when it delivers. *)
LEMMA GiveReply ==
  ASSUME Topology, NEW T, NEW U, NEW K, NEW R, NEW G, NEW t \in Thread, NEW c \in Thread \ {t},
         Typed(T, K, R), Typed(U, K, R), Protocol(T, K, R, G, {}), K[t].at = "user",
         T[t].prev_seq # 0, T[t].sender = c, T[c].ep = "WAIT_RECV",
         Others(T, U, c), U[c].state = "READY", U[c].waitq = <<>>, U[c].sender = t,
         U[c].msg = [op |-> "reply", from |-> t, to |-> R[t].from, seq |-> R[t].seq],
         U[c].prev_seq = T[c].prev_seq, U[c].call_seq = T[c].call_seq
  PROVE  Protocol(U, K, R, G, {t})
<1>1. \A u \in Thread : T[u].sender \in Thread /\ K[u].to \in Thread
  BY DEF Typed, Good, ThreadRec, Stacks
<1>2. /\ R[t] = Request(T, c, t) /\ K[c].at = "call" /\ K[c].to = t
      /\ T[c].state = "BLOCKED" /\ ~On(T[t].waitq, IpcNode(c))
  BY DEF Protocol, ServersOK, ContextOK, Serving, Work
<1>3. T[c].waitq = <<WaitNode(c)>>
  BY <1>2, OwnSlot, SMTT(30) DEF Protocol, Typed
<1>4. U[c].msg = Reply(U, c, t)
  BY <1>2, SMTT(30) DEF Request, Reply
<1>5. \A n \in Node : ~On(U[c].waitq, n) /\ (On(T[c].waitq, n) => n = WaitNode(c))
  BY <1>3, OnOne, SMTT(30)
<1>6. NodesOK(U, K)
  <2>1. ASSUME NEW u \in Thread \ {c}, NEW n \in Node, On(T[u].waitq, n)
        PROVE  NodeOK(U, K, u, n)
    <3>1. NodeOK(T, K, u, n) /\ n.of \in Thread
      BY <2>1, NodeTypes DEF Protocol, NodesOK
    <3>2. n.of # c
      <4>1. n.of = c => n = IpcNode(c) /\ u = t
        BY <3>1, <1>2, <2>1, NodeTypes, SMTT(30) DEF NodeOK
      <4> QED BY <4>1, <1>2, <2>1
    <3>3. U[n.of] = T[n.of] /\ U[u] = T[u]
      BY <2>1, <3>1, <3>2 DEF Others
    <3> QED BY <3>1, <3>3 DEF NodeOK
  <2>2. \A u \in Thread : Once(T[u].waitq)
    BY DEF Protocol, NodesOK
  <2>3. Once(U[c].waitq)
    BY OnOne
  <2>4. \A u \in Thread : Once(U[u].waitq)
    BY <2>2, <2>3 DEF Others
  <2>5. \A u \in Thread, n \in Node : On(U[u].waitq, n) => NodeOK(U, K, u, n)
    BY <2>1, <1>5 DEF Others
  <2> QED BY <2>4, <2>5 DEF NodesOK
<1>7. BlockedOK(U, K, {t})
  <2>1. ASSUME NEW u \in Thread, U[u].state = "BLOCKED"
        PROVE  \/ K[u].at = "send" /\ On(U[K[u].to].waitq, IpcNode(u)) /\ U[u].msg.op = "send"
               \/ K[u].at = "recv" /\ U[u].waitq = <<IpcNode(u)>>
               \/ K[u].at = "call" /\ U[u].waitq = <<WaitNode(u)>>
    <3>1. u # c /\ U[u] = T[u]
      BY <2>1 DEF Others
    <3>2. \/ K[u].at = "send" /\ On(T[K[u].to].waitq, IpcNode(u)) /\ T[u].msg.op = "send"
          \/ K[u].at = "recv" /\ T[u].waitq = <<IpcNode(u)>>
          \/ K[u].at = "call" /\ T[u].waitq = <<WaitNode(u)>>
      BY <2>1, <3>1 DEF Protocol, BlockedOK
    <3>3. ~On(T[c].waitq, IpcNode(u))
      BY <3>1, <1>5, NodeTypes
    <3>4. On(T[K[u].to].waitq, IpcNode(u)) => U[K[u].to] = T[K[u].to]
      BY <3>3, <1>1 DEF Others
    <3> QED BY <3>1, <3>2, <3>4
  <2> QED BY <2>1 DEF BlockedOK
<1>8. ServersOK(U, K, R, {t})
  <2>1. ASSUME NEW s \in Thread \ {t}, Serving(U, K, s) PROVE ContextOK(U, K, R, s)
    <3>1. s # c /\ U[s] = T[s] /\ ContextOK(T, K, R, s)
      BY <2>1, <1>2 DEF Others, Serving, Protocol, ServersOK
    <3>2. T[s].prev_seq # 0 => T[s].sender # c /\ U[T[s].sender] = T[T[s].sender]
      BY <3>1, <1>1, <1>2, SMTT(30) DEF ContextOK, Others
    <3> QED BY <3>1, <3>2, SMTT(30) DEF ContextOK, Work, Request
  <2>2. \A s \in Thread : ~Server(s) => U[s].prev_seq = 0 /\ R[s].op # "call"
    <3>1. \A s \in Thread : ~Server(s) => T[s].prev_seq = 0 /\ R[s].op # "call"
      BY DEF Protocol, ServersOK
    <3> QED BY <3>1, SMTT(30) DEF Others
  <2> QED BY <2>1, <2>2 DEF ServersOK
<1>9. CallersOK(U, K, G, {t})
  <2>1. ASSUME NEW u \in Thread, K[u].at = "call" PROVE CallerOK(U, K, G, {t}, u)
    <3>1. CallerOK(T, K, G, {}, u) /\ K[u].to \in Thread
      BY <2>1, <1>1 DEF Protocol, CallersOK
    <3>2. CASE u = c
      BY <3>1, <3>2, <1>2, <1>4 DEF CallerOK
    <3>3. CASE u # c
      <4>1. U[u] = T[u] /\ K[u].to # c
        <5>1. K[u].to = c => Server(c)
          BY <3>1 DEF CallerOK, Server
        <5>2. CallTargets[c] # {}
          BY <1>2 DEF Protocol, CallersOK, CallerOK
        <5> QED BY <3>3, <5>1, <5>2, ServerOnly DEF Others
      <4>2. U[K[u].to] = T[K[u].to]
        BY <3>1, <4>1 DEF Others
      <4>3. K[u].to = t => T[t].sender # u
        BY <3>3
      <4> QED BY <3>1, <4>1, <4>2, <4>3 DEF CallerOK, Serving, Request, Reply
    <3> QED BY <3>2, <3>3
  <2> QED BY <2>1 DEF Protocol, CallersOK
<1> QED BY <1>6, <1>7, <1>8, <1>9 DEF Protocol

(* A blocked caller's slot can take a reply. *)
LEMMA SlotReady ==
  ASSUME NEW T, NEW K, NEW F, Good(T), NodesOK(T, K), BlockedOK(T, K, F),
         NEW c \in Thread \ F, T[c].state = "BLOCKED", K[c].at = "call"
  PROVE  T[c].waitq = <<WaitNode(c)>> /\ T[c].ep = "WAIT_RECV"
<1>1. T[c].waitq = <<WaitNode(c)>>
  BY DEF BlockedOK
<1>2. NodeOK(T, K, c, WaitNode(c))
  <2>1. On(T[c].waitq, WaitNode(c)) /\ WaitNode(c) \in Node
    BY <1>1, OnOne, NodeTypes, SMTT(30)
  <2> QED BY <2>1 DEF NodesOK
<1>3. T[c].ep \in {"WAIT_SEND", "WAIT_RECV"}
  <2>1. T[c].ep \in {"INACTIVE", "WAIT_SEND", "WAIT_RECV"} /\ RecOK(T[c])
    BY DEF Good, ThreadRec
  <2>2. T[c].waitq # <<>>
    BY <1>1, SMTT(30)
  <2> QED BY <2>1, <2>2 DEF RecOK
<1> QED BY <1>1, <1>2, <1>3, NodeTypes DEF NodeOK

(* The reply half of ipc_reply_recv, when it finds nothing to deliver: no  *)
(* registered thread waits for this server's answer.                       *)
LEMMA NoReply ==
  ASSUME Topology, NEW T, NEW K, NEW R, NEW G, NEW t \in Thread,
         Typed(T, K, R), Protocol(T, K, R, G, {}), K[t].at = "user",
         ~ /\ T[t].prev_seq # 0
           /\ T[t].sender \in G
           /\ T[t].sender # t
           /\ T[T[t].sender].call_seq = T[t].prev_seq
           /\ T[T[t].sender].ep = "WAIT_RECV"
           /\ T[T[t].sender].waitq # <<>>
  PROVE  Protocol(T, K, R, G, {t})
<1>1. ASSUME NEW u \in Thread, K[u].at = "call" PROVE CallerOK(T, K, G, {t}, u)
  <2>1. CallerOK(T, K, G, {}, u) /\ K[u].to \in Thread /\ T[u].call_seq \in Nat
    BY <1>1 DEF Protocol, CallersOK, Typed, Good, ThreadRec, Stacks
  <2>2. ASSUME T[u].state = "BLOCKED", u \in G, K[u].to = t, T[t].sender = u,
               T[t].prev_seq = T[u].call_seq
        PROVE  FALSE
    <3>1. T[u].waitq = <<WaitNode(u)>> /\ T[u].ep = "WAIT_RECV"
      BY <1>1, <2>2, SlotReady, SMTT(30) DEF Protocol, Typed
    <3>2. T[u].call_seq > 0 /\ u # t /\ <<WaitNode(u)>> # <<>>
      BY <2>1, <1>1 DEF CallerOK
    <3> QED BY <2>1, <2>2, <3>1, <3>2, SMTT(30)
  <2> QED BY <2>1, <2>2 DEF CallerOK
<1> QED BY <1>1 DEF Protocol, BlockedOK, ServersOK, CallersOK

(* A thread that nobody calls owes nobody an answer when it receives. *)
LEMMA OwesNothing ==
  ASSUME NEW T, NEW K, NEW R, NEW G, NEW t \in Thread,
         Typed(T, K, R), Protocol(T, K, R, G, {}), ~Server(t)
  PROVE  Protocol(T, K, R, G, {t})
<1>1. ASSUME NEW u \in Thread, K[u].at = "call" PROVE CallerOK(T, K, G, {t}, u)
  <2>1. CallerOK(T, K, G, {}, u) /\ K[u].to # t
    BY <1>1 DEF Protocol, CallersOK, CallerOK, Server
  <2> QED BY <2>1 DEF CallerOK
<1> QED BY <1>1 DEF Protocol, BlockedOK, ServersOK, CallersOK

(* ipc_accept: a server takes the first sender's message. *)
LEMMA TakeFirst ==
  ASSUME Topology, NEW T, NEW U, NEW K, NEW R, NEW S, NEW G, NEW t \in Thread,
         NEW c \in Thread, NEW h \in Node,
         Typed(T, K, R), Typed(U, K, S), Protocol(T, K, R, G, {t}),
         T[t].state # "BLOCKED", K[t].at = "user", T[t].ep = "WAIT_SEND",
         h = Head(T[t].waitq), c = h.of, c # t,
         \A u \in Thread \ {t, c} : U[u] = T[u],
         U[c].state = IF T[c].ep = "WAIT_RECV" THEN T[c].state ELSE "READY",
         U[c].ep = T[c].ep, U[c].waitq = T[c].waitq, U[c].msg = T[c].msg,
         U[c].sender = T[c].sender, U[c].prev_seq = T[c].prev_seq, U[c].call_seq = T[c].call_seq,
         U[t].state = T[t].state, U[t].waitq = Tail(T[t].waitq),
         Tail(T[t].waitq) # <<>> => U[t].ep = "WAIT_SEND",
         U[t].msg = T[c].msg, U[t].sender = c,
         U[t].prev_seq = IF T[c].ep = "WAIT_RECV" THEN T[c].call_seq ELSE 0,
         S[t] = T[c].msg, Others(R, S, t)
  PROVE  Protocol(U, K, S, G, {})
<1>1. \A u \in Thread : /\ T[u].sender \in Thread /\ K[u].to \in Thread
                        /\ T[u].call_seq \in Nat
  BY DEF Typed, Good, ThreadRec, Stacks
<1>2. T[t].waitq \in Seq(Node) /\ T[t].waitq # <<>> /\ Once(T[t].waitq)
  <2>1. T[t].waitq \in Seq(Node) /\ T[t].waitq # <<>>
    BY DEF Typed, Good, RecOK, ThreadRec
  <2>2. Once(T[t].waitq)
    BY DEF Protocol, NodesOK
  <2> QED BY <2>1, <2>2
<1>3. /\ \A n \in Node : On(U[t].waitq, n) <=> On(T[t].waitq, n) /\ n # h
      /\ Once(U[t].waitq) /\ On(T[t].waitq, h)
  BY <1>2, OnTail, ZenonT(30)
<1>4. /\ h = IpcNode(c) /\ T[c].state = "BLOCKED"
      /\ K[c].at \in {"send", "call"} /\ K[c].to = t
  <2>1. NodeOK(T, K, t, h)
    BY <1>3 DEF Protocol, NodesOK
  <2>2. h.list = "ipc_list" /\ T[h.of].state = "BLOCKED"
        /\ K[h.of].at \in {"send", "call"} /\ K[h.of].to = t
    BY <2>1 DEF NodeOK
  <2>3. h.list = "ipc_list" => h = IpcNode(h.of)
    BY NodeTypes
  <2> QED BY <2>2, <2>3
<1> DEFINE first(u) == IpcNode(u) \in Node /\ (IpcNode(u) = h <=> u = c)
<1>14. \A u \in Thread : first(u)
  <2>1. \A u \in Thread : IpcNode(u) = IpcNode(c) => u = c
    BY DEF IpcNode
  <2>2. \A u \in Thread : IpcNode(u) \in Node
    BY NodeTypes
  <2> QED BY <2>1, <2>2, <1>4
<1>5. K[c].at = "send" => U[c].state = "READY" /\ U[t].prev_seq = 0 /\ S[t].op = "send"
  <2>1. K[c].at = "send" => T[c].ep # "WAIT_RECV"
    BY OwnSlot, ZenonT(30) DEF Protocol, Typed
  <2>2. K[c].at = "send" => T[c].msg.op = "send"
    BY <1>4 DEF Protocol, BlockedOK
  <2> QED BY <2>1, <2>2
<1>6. K[c].at = "call" => /\ U[c].state = "BLOCKED" /\ U[t].prev_seq = T[c].call_seq
                          /\ T[c].call_seq # 0 /\ S[t] = Request(T, c, t) /\ Server(t)
  <2>1. K[c].at = "call" => T[c].ep = "WAIT_RECV"
    <3>1. Good(T) /\ NodesOK(T, K) /\ BlockedOK(T, K, {t}) /\ c \in Thread \ {t}
      BY DEF Protocol, Typed
    <3>2. T[c].state = "BLOCKED"
      BY <1>4
    <3> QED BY ONLY <3>1, <3>2, SlotReady
  <2>2. K[c].at = "call" => CallerOK(T, K, G, {t}, c)
    BY DEF Protocol, CallersOK
  <2>3. K[c].at = "call" => T[c].msg = Request(T, c, t) /\ T[c].call_seq > 0 /\ Server(t)
    BY <2>2, <1>3, <1>4 DEF CallerOK, Server
  <2>4. T[c].call_seq > 0 => T[c].call_seq # 0
    <3>1. T[c].call_seq \in Nat
      BY <1>1
    <3> QED BY ONLY <3>1, SMTT(30)
  <2> QED BY <2>1, <2>3, <2>4, <1>4
<1>7. \A u \in Thread \ {t} : U[u].waitq = T[u].waitq /\ U[u].ep = T[u].ep
  BY ZenonT(30)
<1>8. NodesOK(U, K)
  <2>1. ASSUME NEW u \in Thread, NEW n \in Node, On(T[u].waitq, n), u = t => n # h
        PROVE  NodeOK(U, K, u, n)
    <3>1. NodeOK(T, K, u, n) /\ n.of \in Thread
      BY <2>1, NodeTypes DEF Protocol, NodesOK
    <3>2. U[n.of].state = "BLOCKED"
      <4>1. CASE n.of = c
        <5>1. u # t
          <6>1. u = t => n.list = "ipc_list"
            BY <3>1 DEF NodeOK
          <6>2. n.list = "ipc_list" => n = IpcNode(n.of)
            BY NodeTypes
          <6> QED BY <2>1, <4>1, <6>1, <6>2, <1>4
        <5>2. u = c /\ K[c].at = "call"
          BY <3>1, <4>1, <5>1, <1>4 DEF NodeOK
        <5> QED BY <4>1, <5>2, <1>6
      <4>2. CASE n.of # c
        BY <3>1, <4>2 DEF NodeOK
      <4> QED BY <4>1, <4>2
    <3>3. CASE u = t
      <4>1. U[t].waitq # <<>>
        <5>1. On(U[t].waitq, n)
          BY <2>1, <3>3, <1>3
        <5> QED BY <5>1, OnOne, ZenonT(30)
      <4> QED BY <3>1, <3>2, <3>3, <4>1 DEF NodeOK
    <3>4. CASE u # t
      BY <3>1, <3>2, <3>4, <1>7 DEF NodeOK
    <3> QED BY <3>3, <3>4
  <2>2. \A u \in Thread : Once(T[u].waitq)
    BY DEF Protocol, NodesOK
  <2>3. \A u \in Thread : Once(U[u].waitq)
    BY <2>2, <1>3, <1>7
  <2>4. \A u \in Thread, n \in Node : On(U[u].waitq, n) => NodeOK(U, K, u, n)
    BY <2>1, <1>3, <1>7
  <2> QED BY <2>3, <2>4 DEF NodesOK
<1>9. BlockedOK(U, K, {})
  <2>1. ASSUME NEW u \in Thread, U[u].state = "BLOCKED"
        PROVE  \/ K[u].at = "send" /\ On(U[K[u].to].waitq, IpcNode(u)) /\ U[u].msg.op = "send"
               \/ K[u].at = "recv" /\ U[u].waitq = <<IpcNode(u)>>
               \/ K[u].at = "call" /\ U[u].waitq = <<WaitNode(u)>>
    <3>1. u # t /\ T[u].state = "BLOCKED" /\ U[u].waitq = T[u].waitq /\ U[u].msg = T[u].msg
      BY <2>1, <1>4, <1>7, ZenonT(30)
    <3>2. \/ K[u].at = "send" /\ On(T[K[u].to].waitq, IpcNode(u)) /\ T[u].msg.op = "send"
          \/ K[u].at = "recv" /\ T[u].waitq = <<IpcNode(u)>>
          \/ K[u].at = "call" /\ T[u].waitq = <<WaitNode(u)>>
      BY <3>1 DEF Protocol, BlockedOK
    <3>3. K[u].at = "send" => IpcNode(u) # h
      BY <2>1, <1>14, <1>5
    <3>4. K[u].at = "send" /\ On(T[K[u].to].waitq, IpcNode(u)) => On(U[K[u].to].waitq, IpcNode(u))
      <4>1. IpcNode(u) \in Node /\ K[u].to \in Thread
        BY <1>1, <1>14
      <4> QED BY <3>3, <4>1, <1>3, <1>7
    <3> QED BY <3>1, <3>2, <3>4
  <2> QED BY <2>1 DEF BlockedOK
<1>10. ServersOK(U, K, S, {})
  <2>1. ASSUME NEW s \in Thread \ {t}, Serving(U, K, s) PROVE ContextOK(U, K, S, s)
    <3>1. s # c /\ U[s] = T[s] /\ S[s] = R[s] /\ ContextOK(T, K, R, s)
      BY <2>1, <1>4 DEF Others, Serving, Protocol, ServersOK
    <3>2. T[s].prev_seq # 0 => T[s].sender \notin {c, t} /\ U[T[s].sender] = T[T[s].sender]
      BY <2>1, <3>1, <1>1, <1>4 DEF ContextOK
    <3> QED BY <3>1, <3>2, ZenonT(30) DEF ContextOK, Work, Request
  <2>2. ContextOK(U, K, S, t)
    <3>1. Work(U, K, S, t) = S[t] /\ ~On(U[t].waitq, IpcNode(c))
      BY <1>3, <1>4, NodeTypes DEF Work
    <3>2. CASE K[c].at = "send"
      BY <3>1, <3>2, <1>5 DEF ContextOK
    <3>3. CASE K[c].at = "call"
      BY <3>1, <3>3, <1>4, <1>6, ZenonT(30) DEF ContextOK, Request
    <3> QED BY <3>2, <3>3, <1>4
  <2>3. \A s \in Thread : ~Server(s) => U[s].prev_seq = 0 /\ S[s].op # "call"
    <3>1. \A s \in Thread : ~Server(s) => T[s].prev_seq = 0 /\ R[s].op # "call"
      BY DEF Protocol, ServersOK
    <3>2. ~Server(t) => U[t].prev_seq = 0 /\ S[t].op # "call"
      BY <1>4, <1>5, <1>6
    <3>3. \A s \in Thread \ {t} : U[s].prev_seq = T[s].prev_seq /\ S[s] = R[s]
      BY DEF Others
    <3> QED BY <3>1, <3>2, <3>3
  <2> QED BY <2>1, <2>2, <2>3 DEF ServersOK
<1>11. CallersOK(U, K, G, {})
  <2>1. ASSUME NEW u \in Thread, K[u].at = "call" PROVE CallerOK(U, K, G, {}, u)
    <3>1. /\ CallerOK(T, K, G, {t}, u) /\ K[u].to \in Thread /\ u # t
          /\ U[u].state = T[u].state /\ U[u].msg = T[u].msg /\ U[u].sender = T[u].sender
          /\ U[u].call_seq = T[u].call_seq
      BY <2>1, <1>1, <1>4, <1>6, ZenonT(30) DEF Protocol, CallersOK
    <3>2. CASE K[u].to = t
      <4>1. On(U[t].waitq, IpcNode(u)) <=> On(T[t].waitq, IpcNode(u)) /\ u # c
        BY <1>3, <1>14
      <4>2. u = c => Serving(U, K, t) /\ U[t].sender = u /\ U[t].prev_seq = U[u].call_seq
        BY <2>1, <1>6 DEF Serving
      <4> QED BY <3>1, <3>2, <4>1, <4>2, <1>4 DEF CallerOK, Request, Reply
    <3>3. CASE K[u].to # t
      <4>1. K[u].to # c
        <5>1. K[u].to = c => Server(c)
          BY <3>1 DEF CallerOK, Server
        <5>2. CallTargets[c] # {} \/ SendTargets[c] # {}
          BY <1>4 DEF Protocol, CallersOK, CallerOK
        <5> QED BY <5>1, <5>2, ServerOnly
      <4>2. U[K[u].to] = T[K[u].to]
        BY <3>1, <3>3, <4>1
      <4> QED BY <3>1, <3>3, <4>2 DEF CallerOK, Serving, Request, Reply
    <3> QED BY <3>2, <3>3
  <2> QED BY <2>1 DEF Protocol, CallersOK
<1> QED BY <1>8, <1>9, <1>10, <1>11 DEF Protocol

(* A receiver that finds no message waits on its own queue. *)
LEMMA WaitHere ==
  ASSUME Topology, NEW T, NEW U, NEW K, NEW L, NEW R, NEW G, NEW t \in Thread,
         Typed(T, K, R), Typed(U, L, R), Protocol(T, K, R, G, {t}),
         T[t].state # "BLOCKED", K[t].at = "user", T[t].waitq = <<>>,
         Others(T, U, t), Others(K, L, t),
         U[t].state = "BLOCKED", U[t].ep = "WAIT_RECV", U[t].waitq = <<IpcNode(t)>>,
         U[t].prev_seq = T[t].prev_seq, L[t].at = "recv"
  PROVE  Protocol(U, L, R, G, {})
<1>1. \A u \in Thread : /\ U[u].prev_seq = T[u].prev_seq
                        /\ T[u].sender \in Thread /\ K[u].to \in Thread /\ L[u].to \in Thread
  BY DEF Others, Typed, Good, ThreadRec, Stacks
<1>2. \A u \in Thread, n \in Node : n.of = t => ~On(T[u].waitq, n)
  BY Unlinked DEF Protocol
<1>3. \A n \in Node : ~On(T[t].waitq, n)
  BY OnOne, SMTT(30)
<1>4. \A u \in Thread, n \in Node :
        On(U[u].waitq, n) <=> On(T[u].waitq, n) \/ (u = t /\ n = IpcNode(t))
  <2>1. \A n \in Node : On(U[t].waitq, n) <=> n = IpcNode(t)
    BY OnOne, SMTT(30)
  <2> QED BY <2>1, <1>3 DEF Others
<1>5. NodesOK(U, L)
  <2>1. ASSUME NEW u \in Thread \ {t}, NEW n \in Node, On(T[u].waitq, n)
        PROVE  NodeOK(U, L, u, n)
    <3>1. NodeOK(T, K, u, n) /\ n.of \in Thread /\ n.of # t
      BY <1>2, <2>1, NodeTypes DEF Protocol, NodesOK
    <3>2. U[n.of] = T[n.of] /\ L[n.of] = K[n.of] /\ U[u] = T[u] /\ L[u] = K[u]
      BY <2>1, <3>1 DEF Others
    <3> QED BY <3>1, <3>2 DEF NodeOK
  <2>2. NodeOK(U, L, t, IpcNode(t))
    BY NodeTypes DEF NodeOK
  <2>3. \A u \in Thread : Once(T[u].waitq)
    BY DEF Protocol, NodesOK
  <2>4. Once(U[t].waitq)
    BY OnOne, SMTT(30)
  <2>5. \A u \in Thread : Once(U[u].waitq)
    BY <2>3, <2>4 DEF Others
  <2>6. \A u \in Thread, n \in Node : On(U[u].waitq, n) => NodeOK(U, L, u, n)
    BY <2>1, <2>2, <1>3, <1>4
  <2> QED BY <2>5, <2>6 DEF NodesOK
<1>6. BlockedOK(U, L, {})
  <2>1. ASSUME NEW u \in Thread \ {t}, U[u].state = "BLOCKED"
        PROVE  \/ L[u].at = "send" /\ On(U[L[u].to].waitq, IpcNode(u)) /\ U[u].msg.op = "send"
               \/ L[u].at = "recv" /\ U[u].waitq = <<IpcNode(u)>>
               \/ L[u].at = "call" /\ U[u].waitq = <<WaitNode(u)>>
    <3>1. U[u] = T[u] /\ L[u] = K[u] /\ IpcNode(u) \in Node
      BY <2>1, NodeTypes DEF Others
    <3>2. \/ K[u].at = "send" /\ On(T[K[u].to].waitq, IpcNode(u)) /\ T[u].msg.op = "send"
          \/ K[u].at = "recv" /\ T[u].waitq = <<IpcNode(u)>>
          \/ K[u].at = "call" /\ T[u].waitq = <<WaitNode(u)>>
      BY <2>1, <3>1 DEF Protocol, BlockedOK
    <3>3. On(T[K[u].to].waitq, IpcNode(u)) => On(U[K[u].to].waitq, IpcNode(u))
      BY <3>1, <1>1, <1>4
    <3> QED BY <3>1, <3>2, <3>3
  <2> QED BY <2>1 DEF BlockedOK
<1>7. ServersOK(U, L, R, {})
  <2>1. ASSUME NEW s \in Thread, Serving(U, L, s) PROVE ContextOK(U, L, R, s)
    <3>1. s # t
      BY <2>1 DEF Serving
    <3>2. U[s] = T[s] /\ L[s] = K[s] /\ ContextOK(T, K, R, s)
      BY <2>1, <3>1 DEF Others, Serving, Protocol, ServersOK
    <3>3. T[s].prev_seq # 0 => /\ U[T[s].sender] = T[T[s].sender]
                               /\ L[T[s].sender] = K[T[s].sender]
      BY <3>2, <1>1 DEF ContextOK, Others
    <3> QED BY <3>2, <3>3 DEF ContextOK, Work, Request
  <2>2. \A s \in Thread : ~Server(s) => U[s].prev_seq = 0 /\ R[s].op # "call"
    BY <1>1 DEF Protocol, ServersOK
  <2> QED BY <2>1, <2>2 DEF ServersOK
<1>8. CallersOK(U, L, G, {})
  <2>1. ASSUME NEW c \in Thread, L[c].at = "call" PROVE CallerOK(U, L, G, {}, c)
    <3>1. c # t
      BY <2>1
    <3>2. U[c] = T[c] /\ L[c] = K[c] /\ CallerOK(T, K, G, {t}, c)
      BY <2>1, <3>1 DEF Others, Protocol, CallersOK
    <3>3. K[c].to \in Thread /\ IpcNode(c) \in Node /\ IpcNode(c) # IpcNode(t)
      BY <3>1, <1>1, NodeTypes, SMTT(30)
    <3>4. CASE K[c].to = t
      <4>1. ~On(T[t].waitq, IpcNode(c)) /\ ~On(U[t].waitq, IpcNode(c))
        BY <3>3, <1>3, <1>4
      <4> QED BY <3>2, <3>4, <4>1 DEF CallerOK, Request, Reply
    <3>5. CASE K[c].to # t
      <4>1. U[K[c].to] = T[K[c].to] /\ L[K[c].to] = K[K[c].to]
        BY <3>3, <3>5 DEF Others
      <4> QED BY <3>2, <3>5, <4>1 DEF CallerOK, Serving, Request, Reply
    <3> QED BY <3>4, <3>5
  <2> QED BY <2>1 DEF Protocol, CallersOK, Others
<1> QED BY <1>5, <1>6, <1>7, <1>8 DEF Protocol

(* A woken thread goes back to user mode. *)
LEMMA GoBack ==
  ASSUME Topology, NEW T, NEW U, NEW K, NEW L, NEW R, NEW S, NEW G, NEW t \in Thread,
         Typed(T, K, R), Typed(U, L, S), Protocol(T, K, R, G, {}),
         T[t].state # "BLOCKED", K[t].at # "user",
         Others(T, U, t), Others(K, L, t), Others(R, S, t), L[t].at = "user",
         U[t].state = T[t].state, U[t].ep = T[t].ep, U[t].waitq = T[t].waitq,
         U[t].msg = T[t].msg, U[t].prev_seq = T[t].prev_seq, U[t].call_seq = T[t].call_seq,
         IF K[t].at = "call" THEN S[t] = R[t]
         ELSE /\ U[t].sender = T[t].sender
              /\ S[t] = IF K[t].at = "recv" THEN T[t].msg ELSE R[t]
  PROVE  Protocol(U, L, S, G, {})
<1>1. \A u \in Thread : /\ U[u].state = T[u].state /\ U[u].ep = T[u].ep
                        /\ U[u].waitq = T[u].waitq /\ U[u].msg = T[u].msg
                        /\ U[u].prev_seq = T[u].prev_seq /\ U[u].call_seq = T[u].call_seq
                        /\ T[u].sender \in Thread /\ K[u].to \in Thread /\ L[u].to \in Thread
  BY DEF Others, Typed, Good, ThreadRec, Stacks
<1>2. \A u \in Thread, n \in Node : n.of = t => ~On(T[u].waitq, n)
  BY Unlinked DEF Protocol
<1>3. K[t].at # "recv" => ~Server(t)
  <2>1. K[t].at \in {"send", "call", "recv"}
    BY DEF Typed, Stacks
  <2>2. K[t].at # "recv" => CallTargets[t] # {} \/ SendTargets[t] # {}
    BY <2>1 DEF Protocol, CallersOK, CallerOK
  <2> QED BY <2>2, ServerOnly
<1>4. NodesOK(U, L)
  <2>1. ASSUME NEW u \in Thread, NEW n \in Node, On(T[u].waitq, n)
        PROVE  NodeOK(U, L, u, n)
    <3>1. NodeOK(T, K, u, n) /\ n.of \in Thread /\ n.of # t
      BY <1>2, <2>1, NodeTypes DEF Protocol, NodesOK
    <3>2. L[n.of] = K[n.of] /\ (n.of = u => L[u] = K[u])
      BY <3>1 DEF Others
    <3> QED BY <3>1, <3>2, <1>1, SMTT(30) DEF NodeOK
  <2>2. \A u \in Thread : Once(T[u].waitq)
    BY DEF Protocol, NodesOK
  <2> QED BY <2>1, <2>2, <1>1 DEF NodesOK
<1>5. BlockedOK(U, L, {})
  <2>1. \A u \in Thread : U[u].state = "BLOCKED" => L[u] = K[u] /\ T[u].state = "BLOCKED"
    BY <1>1, SMTT(30) DEF Others
  <2> QED BY <2>1, <1>1, SMTT(30) DEF Protocol, BlockedOK
<1>6. \A s \in Thread : ~Server(s) => T[s].prev_seq = 0 /\ R[s].op # "call"
  BY DEF Protocol, ServersOK
<1>7. ServersOK(U, L, S, {})
  <2>1. ASSUME NEW s \in Thread, T[s].prev_seq # 0, ContextOK(T, K, R, s)
        PROVE  L[T[s].sender] = K[T[s].sender] /\ T[s].sender \in Thread
    BY <2>1, <1>1 DEF ContextOK, Others
  <2>2. ASSUME NEW s \in Thread \ {t}, Serving(U, L, s) PROVE ContextOK(U, L, S, s)
    <3>1. U[s] = T[s] /\ L[s] = K[s] /\ S[s] = R[s] /\ ContextOK(T, K, R, s)
      BY <2>2, ZenonT(30) DEF Others, Serving, Protocol, ServersOK
    <3> QED BY <2>1, <3>1, <1>1, SMTT(30) DEF ContextOK, Work, Request
  <2>3. ContextOK(U, L, S, t)
    <3>1. CASE K[t].at = "recv"
      <4>1. ContextOK(T, K, R, t)
        BY <3>1 DEF Serving, Protocol, ServersOK
      <4>2. Work(U, L, S, t) = Work(T, K, R, t)
        BY <3>1 DEF Work
      <4>3. U[t].sender = T[t].sender
        BY <3>1
      <4>4. CASE T[t].prev_seq = 0
        BY <4>1, <4>2, <4>4, <1>1 DEF ContextOK
      <4>5. CASE T[t].prev_seq # 0
        <5>1. /\ L[T[t].sender] = K[T[t].sender] /\ T[t].sender \in Thread
          BY <2>1, <4>1, <4>5
        <5>2. Request(U, T[t].sender, t) = Request(T, T[t].sender, t)
          BY <5>1, <1>1 DEF Request
        <5>3. /\ U[T[t].sender].call_seq = T[T[t].sender].call_seq
              /\ U[T[t].sender].state = T[T[t].sender].state
          BY <5>1, <1>1
        <5>4. /\ T[t].prev_seq = T[T[t].sender].call_seq
              /\ Work(T, K, R, t) = Request(T, T[t].sender, t)
              /\ K[T[t].sender].at = "call" /\ K[T[t].sender].to = t
              /\ T[T[t].sender].state = "BLOCKED" /\ ~On(T[t].waitq, IpcNode(T[t].sender))
          BY <4>1, <4>5 DEF ContextOK
        <5>5. U[t].prev_seq = T[t].prev_seq /\ U[t].waitq = T[t].waitq
          BY <1>1
        <5> HIDE DEF Work, Request
        <5> QED BY <4>2, <4>3, <4>5, <5>1, <5>2, <5>3, <5>4, <5>5 DEF ContextOK
      <4> QED BY <4>4, <4>5
    <3>2. CASE K[t].at # "recv"
      <4>1. U[t].prev_seq = 0 /\ S[t].op # "call"
        BY <3>2, <1>1, <1>3, <1>6
      <4> QED BY <4>1 DEF ContextOK, Work
    <3> QED BY <3>1, <3>2
  <2>4. \A s \in Thread : ~Server(s) => U[s].prev_seq = 0 /\ S[s].op # "call"
    <3>1. ASSUME ~Server(t) PROVE S[t].op # "call"
      <4>1. CASE K[t].at = "recv"
        <5>1. ContextOK(T, K, R, t) /\ T[t].prev_seq = 0
          BY <3>1, <4>1, <1>6 DEF Serving, Protocol, ServersOK
        <5> QED BY <4>1, <5>1 DEF ContextOK, Work
      <4>2. CASE K[t].at # "recv"
        BY <3>1, <4>2, <1>6
      <4> QED BY <4>1, <4>2
    <3> QED BY <3>1, <1>1, <1>6, SMTT(30) DEF Others
  <2> QED BY <2>2, <2>3, <2>4 DEF ServersOK
<1>8. CallersOK(U, L, G, {})
  <2>1. ASSUME NEW c \in Thread, L[c].at = "call" PROVE CallerOK(U, L, G, {}, c)
    <3>1. c # t /\ U[c] = T[c] /\ L[c] = K[c] /\ CallerOK(T, K, G, {}, c) /\ K[c].to \in Thread
      BY <2>1, <1>1, SMTT(30) DEF Others, Protocol, CallersOK
    <3>2. CASE K[c].to = t
      <4>1. K[t].at = "recv" /\ U[t].sender = T[t].sender
        BY <3>1, <3>2, <1>3 DEF CallerOK, Server
      <4> QED BY <3>1, <3>2, <4>1, <1>1, SMTT(30) DEF CallerOK, Serving, Request, Reply
    <3>3. CASE K[c].to # t
      <4>1. U[K[c].to] = T[K[c].to] /\ L[K[c].to] = K[K[c].to]
        BY <3>1, <3>3 DEF Others
      <4> QED BY <3>1, <4>1 DEF CallerOK, Serving, Request, Reply
    <3> QED BY <3>2, <3>3
  <2> QED BY <2>1 DEF Protocol, CallersOK, Others
<1> QED BY <1>4, <1>5, <1>7, <1>8 DEF Protocol

(* What the operators of ipc.c do to the fields. *)

-----------------------------------------------------------------------------

(* Records in ThreadRec are equal to themselves with a field replaced. *)
LEMMA StateField ==
  ASSUME NEW T, Good(T), NEW t \in Thread, NEW x
  PROVE  LET U == [T EXCEPT ![t].state = x] IN
         /\ Others(T, U, t) /\ U[t].state = x /\ U[t].ep = T[t].ep /\ U[t].waitq = T[t].waitq
         /\ U[t].msg = T[t].msg /\ U[t].sender = T[t].sender
         /\ U[t].prev_seq = T[t].prev_seq /\ U[t].call_seq = T[t].call_seq
  BY SMTT(30) DEF Good, ThreadRec, Others

LEMMA EnqueueFields ==
  ASSUME NEW T, Good(T), NEW r \in Thread, NEW s, NEW n \in Node
  PROVE  LET U == Enqueue(T, r, s, n) IN
         /\ Others(T, U, r) /\ DOMAIN U = Thread
         /\ U[r].state = T[r].state /\ U[r].ep = s /\ U[r].waitq = Append(T[r].waitq, n)
         /\ U[r].msg = T[r].msg /\ U[r].sender = T[r].sender
         /\ U[r].prev_seq = T[r].prev_seq /\ U[r].call_seq = T[r].call_seq
  BY SMTT(30) DEF Good, ThreadRec, Others, Enqueue

(* U is T with t asleep. *)
Asleep(T, U, t) == U = [T EXCEPT ![t].state = "BLOCKED"]

LEMMA AsleepFields ==
  ASSUME NEW T, Good(T), NEW t \in Thread, NEW U, Asleep(T, U, t)
  PROVE  /\ Others(T, U, t) /\ U[t].state = "BLOCKED" /\ U[t].ep = T[t].ep
         /\ U[t].waitq = T[t].waitq /\ U[t].msg = T[t].msg /\ U[t].sender = T[t].sender
         /\ U[t].prev_seq = T[t].prev_seq /\ U[t].call_seq = T[t].call_seq
  BY SMTT(30) DEF Good, ThreadRec, Others, Asleep

LEMMA SleepFields ==
  ASSUME NEW T, Good(T), NEW E, Good(E), NEW t \in Thread, NEW r \in Thread,
         NEW V, Asleep(T, V, t), NEW U, Asleep(E, U, t), Others(T, E, r)
  PROVE  /\ Others(V, U, r)
         /\ E[r].state = T[r].state => U[r].state = V[r].state
         /\ r # t => U[r].state = E[r].state
         /\ U[r].ep = E[r].ep /\ U[r].waitq = E[r].waitq
         /\ U[r].msg = E[r].msg /\ U[r].sender = E[r].sender
         /\ U[r].prev_seq = E[r].prev_seq /\ U[r].call_seq = E[r].call_seq
<1>1. /\ DOMAIN T = Thread /\ DOMAIN E = Thread
      /\ \A u \in Thread : T[u] \in ThreadRec /\ E[u] \in ThreadRec
  BY DEF Good
<1>2. /\ \A u \in Thread \ {t} : V[u] = T[u] /\ U[u] = E[u]
      /\ V[t] = [T[t] EXCEPT !.state = "BLOCKED"] /\ U[t] = [E[t] EXCEPT !.state = "BLOCKED"]
  BY <1>1 DEF Asleep
<1>3. Others(V, U, r)
  BY <1>2 DEF Others
<1>4. CASE r = t
  <2>1. E[t] \in ThreadRec /\ T[t] \in ThreadRec
    BY <1>1
  <2> QED BY <1>2, <1>3, <1>4, <2>1, SMTT(30) DEF ThreadRec
<1>5. CASE r # t
  BY <1>2, <1>3, <1>5
<1> QED BY <1>4, <1>5

(* The queue and the endpoint state after the first node is unlinked. *)
LEMMA DropHeadFields ==
  ASSUME NEW r, r \in ThreadRec
  PROVE  LET d == DropHead(r) IN
         /\ d.waitq = Tail(r.waitq) /\ d.state = r.state /\ d.msg = r.msg /\ d.sender = r.sender
         /\ d.prev_seq = r.prev_seq /\ d.call_seq = r.call_seq
         /\ d.ep = IF Tail(r.waitq) = <<>> THEN "INACTIVE" ELSE r.ep
         /\ DOMAIN d = {"state", "ep", "waitq", "msg", "sender", "prev_seq", "call_seq"}
  BY DEF DropHead, ThreadRec

LEMMA DeliverFields ==
  ASSUME NEW T, Good(T), NEW r \in Thread, NEW n \in Node, T[r].waitq = <<n>>,
         T[r].state = "BLOCKED", NEW from, NEW words, NEW seq
  PROVE  LET U == ipc_deliver_msg(T, r, from, words, seq) IN
         /\ Others(T, U, r) /\ U[r].state = "READY" /\ U[r].waitq = <<>>
         /\ U[r].msg = words /\ U[r].sender = from /\ U[r].prev_seq = seq
         /\ U[r].call_seq = T[r].call_seq
<1> DEFINE d == DropHead(T[r])
           e == [d EXCEPT !.msg = words, !.sender = from, !.prev_seq = seq]
           V == [T EXCEPT ![r] = e]
<1>1. /\ d.waitq = <<>> /\ d.state = "BLOCKED" /\ d.call_seq = T[r].call_seq
      /\ DOMAIN d = {"state", "ep", "waitq", "msg", "sender", "prev_seq", "call_seq"}
  <2>1. T[r] \in ThreadRec /\ Tail(<<n>>) = <<>>
    BY SMTT(30) DEF Good
  <2> QED BY <2>1, DropHeadFields
<1> HIDE DEF d
<1>2. /\ e.waitq = <<>> /\ e.state = "BLOCKED" /\ e.call_seq = T[r].call_seq
      /\ e.msg = words /\ e.sender = from /\ e.prev_seq = seq
      /\ DOMAIN e = {"state", "ep", "waitq", "msg", "sender", "prev_seq", "call_seq"}
  BY <1>1
<1>3. ipc_deliver_msg(T, r, from, words, seq) = Wake(V, r)
  BY DEF ipc_deliver_msg, d
<1> HIDE DEF e
<1>4. V[r] = e /\ \A u \in Thread \ {r} : V[u] = T[u]
  BY DEF Good
<1>5. Wake(V, r) = [V EXCEPT ![r].state = "READY"]
  BY <1>2, <1>4 DEF Wake
<1>6. DOMAIN V = Thread
  BY DEF Good
<1> HIDE DEF V
<1> QED BY <1>2, <1>3, <1>4, <1>5, <1>6, SMTT(30) DEF Others

LEMMA ReplyFields ==
  ASSUME NEW T, Good(T), NEW r \in Thread, NEW n \in Node, T[r].waitq = <<n>>,
         T[r].state = "BLOCKED", NEW from, NEW words
  PROVE  LET U == ipc_deliver_reply(T, r, from, words) IN
         /\ Others(T, U, r) /\ U[r].state = "READY" /\ U[r].waitq = <<>>
         /\ U[r].msg = words /\ U[r].sender = from /\ U[r].prev_seq = T[r].prev_seq
         /\ U[r].call_seq = T[r].call_seq
<1> DEFINE d == DropHead(T[r])
           e == [d EXCEPT !.msg = words, !.sender = from]
           V == [T EXCEPT ![r] = e]
<1>1. /\ d.waitq = <<>> /\ d.state = "BLOCKED"
      /\ d.call_seq = T[r].call_seq /\ d.prev_seq = T[r].prev_seq
      /\ DOMAIN d = {"state", "ep", "waitq", "msg", "sender", "prev_seq", "call_seq"}
  <2>1. T[r] \in ThreadRec /\ Tail(<<n>>) = <<>>
    BY SMTT(30) DEF Good
  <2> QED BY <2>1, DropHeadFields
<1> HIDE DEF d
<1>2. /\ e.waitq = <<>> /\ e.state = "BLOCKED"
      /\ e.call_seq = T[r].call_seq /\ e.prev_seq = T[r].prev_seq
      /\ e.msg = words /\ e.sender = from
      /\ DOMAIN e = {"state", "ep", "waitq", "msg", "sender", "prev_seq", "call_seq"}
  BY <1>1
<1>3. ipc_deliver_reply(T, r, from, words) = Wake(V, r)
  BY DEF ipc_deliver_reply, d
<1> HIDE DEF e
<1>4. V[r] = e /\ \A u \in Thread \ {r} : V[u] = T[u]
  BY DEF Good
<1>5. Wake(V, r) = [V EXCEPT ![r].state = "READY"]
  BY <1>2, <1>4 DEF Wake
<1>6. DOMAIN V = Thread
  BY DEF Good
<1> HIDE DEF V
<1> QED BY <1>2, <1>3, <1>4, <1>5, <1>6, SMTT(30) DEF Others

(* U is T after t has taken the message of c, the first in its queue.  A   *)
(* caller is not woken by this, a plain sender is.                         *)
Takes(T, U, t, c) ==
  /\ \A u \in Thread \ {t, c} : U[u] = T[u]
  /\ U[c].state = IF T[c].ep = "WAIT_RECV" THEN T[c].state ELSE "READY"
  /\ U[c].ep = T[c].ep /\ U[c].waitq = T[c].waitq /\ U[c].msg = T[c].msg
  /\ U[c].sender = T[c].sender /\ U[c].prev_seq = T[c].prev_seq
  /\ U[c].call_seq = T[c].call_seq
  /\ U[t].state = T[t].state /\ U[t].waitq = Tail(T[t].waitq)
  /\ U[t].ep = IF Tail(T[t].waitq) = <<>> THEN "INACTIVE" ELSE T[t].ep
  /\ U[t].msg = T[c].msg /\ U[t].sender = c /\ U[t].call_seq = T[t].call_seq
  /\ U[t].prev_seq = IF T[c].ep = "WAIT_RECV" THEN T[c].call_seq ELSE 0

LEMMA AcceptFields ==
  ASSUME NEW T, Good(T), NEW t \in Thread, NEW c \in Thread \ {t}, T[t].waitq # <<>>,
         c = Head(T[t].waitq).of, T[c].state = "BLOCKED"
  PROVE  Takes(T, ipc_accept(T, t), t, c)
<1> USE DEF Takes
<1> DEFINE q   == IF T[c].ep = "WAIT_RECV" THEN T[c].call_seq ELSE 0
           d   == DropHead(T[t])
           e   == [d EXCEPT !.msg = T[c].msg, !.sender = c, !.prev_seq = q]
           V   == [T EXCEPT ![t] = e]
<1>1. /\ d.waitq = Tail(T[t].waitq) /\ d.state = T[t].state /\ d.call_seq = T[t].call_seq
      /\ d.ep = IF Tail(T[t].waitq) = <<>> THEN "INACTIVE" ELSE T[t].ep
      /\ DOMAIN d = {"state", "ep", "waitq", "msg", "sender", "prev_seq", "call_seq"}
  <2>1. T[t] \in ThreadRec
    BY DEF Good
  <2> QED BY <2>1, DropHeadFields
<1>2. ipc_accept(T, t) = IF V[c].ep # "WAIT_RECV" THEN Wake(V, c) ELSE V
  BY DEF ipc_accept, Accepted
<1> HIDE DEF d, q
<1>3. /\ e.waitq = d.waitq /\ e.state = d.state /\ e.call_seq = d.call_seq /\ e.ep = d.ep
      /\ e.msg = T[c].msg /\ e.sender = c /\ e.prev_seq = q
  BY <1>1
<1> HIDE DEF e
<1>4. V[t] = e /\ V[c] = T[c] /\ \A u \in Thread \ {t} : V[u] = T[u]
  BY DEF Good
<1>5. DOMAIN V = Thread /\ T[c] \in ThreadRec
  BY DEF Good
<1> HIDE DEF V
<1>6. CASE T[c].ep = "WAIT_RECV"
  <2>1. ipc_accept(T, t) = V
    BY <1>2, <1>4, <1>6
  <2> QED BY <1>1, <1>3, <1>4, <1>6, <2>1 DEF q
<1>7. CASE T[c].ep # "WAIT_RECV"
  <2>1. ipc_accept(T, t) = [V EXCEPT ![c].state = "READY"]
    BY <1>2, <1>4, <1>7 DEF Wake
  <2> DEFINE W == [V EXCEPT ![c].state = "READY"]
  <2>2. W[t] = e /\ \A u \in Thread \ {t, c} : W[u] = T[u]
    BY <1>4, <1>5
  <2>3. /\ W[c].state = "READY" /\ W[c].ep = T[c].ep /\ W[c].waitq = T[c].waitq
        /\ W[c].msg = T[c].msg /\ W[c].sender = T[c].sender
        /\ W[c].prev_seq = T[c].prev_seq /\ W[c].call_seq = T[c].call_seq
    BY <1>4, <1>5 DEF ThreadRec
  <2> HIDE DEF W
  <2>4. ipc_accept(T, t) = W
    BY <2>1 DEF W
  <2> QED BY <1>1, <1>3, <1>7, <2>2, <2>3, <2>4 DEF q
<1> QED BY <1>6, <1>7

(* Handing the processor over changes who runs and nothing else. *)
LEMMA GiveUpAlike ==
  ASSUME NEW T, Good(T), current \in Thread,
         NEW s \in {"READY", "BLOCKED", "TERMINATED"}, GiveUp(T, s)
  PROVE  Alike([T EXCEPT ![current].state = s], threads')
<1> DEFINE left == [T EXCEPT ![current].state = s]
<1>1. Good(left)
  BY StateOK
<1> HIDE DEF left
<1>2. CASE \E next \in Thread : /\ left[next].state = "READY"
                                /\ threads' = [left EXCEPT ![next].state = "RUNNING"]
  <2>1. PICK next \in Thread : /\ left[next].state = "READY"
                               /\ threads' = [left EXCEPT ![next].state = "RUNNING"]
    BY <1>2
  <2>2. Alike(left, [left EXCEPT ![next].state = "RUNNING"])
    BY <1>1, <2>1, StateField, SMTT(30) DEF Alike, Others
  <2> QED BY <2>1, <2>2 DEF left
<1>3. CASE threads' = left
  BY <1>3 DEF Alike, left
<1> QED BY <1>2, <1>3 DEF GiveUp, left

(* The operations keep the invariant. *)

(* A target that waits for a message waits in ipc_recv or ipc_reply_recv. *)
LEMMA TargetWaits ==
  ASSUME Topology, NEW T, NEW K, NEW G, NEW F, Good(T), NodesOK(T, K), CallersOK(T, K, G, F),
         NEW t \in Thread, NEW r \in Thread, r \in SendTargets[t] \cup CallTargets[t],
         T[r].ep = "WAIT_RECV"
  PROVE  T[r].state = "BLOCKED" /\ T[r].waitq = <<IpcNode(r)>> /\ K[r].at = "recv"
<1>1. K[r].at # "call"
  <2> SUFFICES ASSUME K[r].at = "call" PROVE FALSE
    BY SMTT(30)
  <2>1. K[r].to \in CallTargets[r]
    BY DEF CallersOK, CallerOK
  <2> QED BY <2>1, TopologyAssumption DEF Topology, ClientsAndServers
<1> QED BY <1>1, OwnSlot

LEMMA SendProtocol ==
  ASSUME IpcInv, Parts', NEW t \in Thread, NEW target \in Thread, ipc_send(t, target)
  PROVE  ~broken' /\ Protocol(threads', kstack', request', registered', {})
<1> DEFINE words == [op |-> "send", from |-> t, to |-> target, seq |-> 0]
           own   == [threads EXCEPT ![t].msg = words]
<1>1. /\ current = t /\ threads[t].state = "RUNNING" /\ kstack[t].at = "user"
      /\ target \in SendTargets[t] /\ UNCHANGED <<registered, request>>
  BY DEF ipc_send, InUser
<1>2. /\ Topology /\ ~broken /\ Good(threads) /\ Typed(threads, kstack, request)
      /\ Protocol(threads, kstack, request, registered, {})
  BY DEF IpcInv, Parts, RestOK, Typed, Stacks
<1>3. Typed(threads', kstack', request')
  BY DEF Parts, RestOK, Typed, Stacks
<1>4. /\ threads[t].ep # "WAIT_RECV"
      /\ \A u \in Thread, n \in Node : n.of = t => ~On(threads[u].waitq, n)
  BY <1>1, <1>2, UserFresh
<1>5. CASE threads[target].ep = "WAIT_RECV"
  <2> DEFINE U == ipc_deliver_msg(threads, target, t, words, 0)
  <2>1. threads' = U /\ UNCHANGED <<broken, kstack>>
    BY <1>5 DEF ipc_send, Stay
  <2>2. /\ threads[target].state = "BLOCKED" /\ threads[target].waitq = <<IpcNode(target)>>
        /\ kstack[target].at = "recv" /\ target # t
    BY <1>1, <1>2, <1>4, <1>5, TargetWaits DEF Protocol
  <2>3. words.op = "send"
    BY SMTT(30)
  <2> HIDE DEF words
  <2>4. /\ Others(threads, U, target) /\ U[target].state = "READY" /\ U[target].waitq = <<>>
        /\ U[target].msg = words /\ U[target].sender = t /\ U[target].prev_seq = 0
    BY <1>2, <2>2, NodeTypes, DeliverFields, SMTT(30)
  <2>5. Typed(U, kstack, request)
    BY <1>1, <1>3, <2>1
  <2> HIDE DEF U
  <2>6. Protocol(U, kstack, request, registered, {})
    BY <1>2, <1>5, <2>2, <2>3, <2>4, <2>5, HandOver
  <2> QED BY <1>1, <1>2, <2>1, <2>6
<1>6. CASE threads[target].ep # "WAIT_RECV"
  <2> DEFINE mid == [own EXCEPT ![t].state = "BLOCKED"]
             U   == [Enqueue(own, target, "WAIT_SEND", IpcNode(t)) EXCEPT ![t].state = "BLOCKED"]
  <2>1. /\ GiveUp(Enqueue(own, target, "WAIT_SEND", IpcNode(t)), "BLOCKED")
        /\ broken' = Linked(threads, IpcNode(t))
        /\ kstack' = [kstack EXCEPT ![t] = [at |-> "send", saved |-> Root, to |-> target]]
    BY <1>6 DEF ipc_send, sched_block, Sleep
  <2>2. ~broken'
    BY <1>1, <1>2, <2>1, Unlinked, NodeTypes DEF Protocol
  <2>3. words \in Msg /\ words.op = "send"
    BY DEF Msg
  <2>4. own = [threads EXCEPT ![t] = [threads[t] EXCEPT !.msg = words]]
    BY <1>2 DEF Good
  <2>5. RecOK([threads[t] EXCEPT !.msg = words])
    BY <1>2, <2>3, FillOK, TopologyAssumption DEF Good
  <2>6. Good(own)
    BY <1>2, <2>4, <2>5, GoodExcept
  <2> HIDE DEF words
  <2>7. /\ Others(threads, own, t) /\ own[t].msg = words /\ own[t].ep = threads[t].ep
        /\ own[t].waitq = threads[t].waitq /\ own[t].prev_seq = threads[t].prev_seq
    BY <1>2, SMTT(30) DEF Good, ThreadRec, Others
  <2>8. IpcNode(t) \in Node /\ IpcNode(t).list = "ipc_list"
    BY NodeTypes
  <2>9. own[target].ep # "WAIT_RECV"
    BY <1>6, <2>7 DEF Others
  <2> HIDE DEF own
  <2>10. Good(Enqueue(own, target, "WAIT_SEND", IpcNode(t)))
    BY <2>6, <2>8, <2>9, EnqueueOK
  <2>11. Good(mid) /\ Good(U)
    BY <2>6, <2>10, StateOK
  <2>12. /\ Others(own, mid, t) /\ mid[t].state = "BLOCKED" /\ mid[t].ep = own[t].ep
         /\ mid[t].waitq = own[t].waitq /\ mid[t].msg = own[t].msg
         /\ mid[t].sender = own[t].sender /\ mid[t].prev_seq = own[t].prev_seq
         /\ mid[t].call_seq = own[t].call_seq
    BY <2>6, StateField, SMTT(30)
  <2>13. /\ Others(mid, U, target)
         /\ U[target].state = mid[target].state /\ U[target].ep = "WAIT_SEND"
         /\ U[target].waitq = Append(own[target].waitq, IpcNode(t))
         /\ U[target].msg = own[target].msg /\ U[target].sender = own[target].sender
         /\ U[target].prev_seq = own[target].prev_seq
         /\ U[target].call_seq = own[target].call_seq
    <3> DEFINE E == Enqueue(own, target, "WAIT_SEND", IpcNode(t))
    <3>1. /\ Others(own, E, target) /\ Good(E)
          /\ E[target].state = own[target].state /\ E[target].ep = "WAIT_SEND"
          /\ E[target].waitq = Append(own[target].waitq, IpcNode(t))
          /\ E[target].msg = own[target].msg /\ E[target].sender = own[target].sender
          /\ E[target].prev_seq = own[target].prev_seq
          /\ E[target].call_seq = own[target].call_seq
      BY <2>6, <2>8, <2>10, EnqueueFields, SMTT(30)
    <3> HIDE DEF E
    <3>2. Asleep(own, mid, t) /\ Asleep(E, U, t)
      BY DEF E, Asleep
    <3> HIDE DEF mid, U
    <3>3. /\ Others(mid, U, target) /\ U[target].state = mid[target].state
          /\ U[target].ep = E[target].ep /\ U[target].waitq = E[target].waitq
          /\ U[target].msg = E[target].msg /\ U[target].sender = E[target].sender
          /\ U[target].prev_seq = E[target].prev_seq /\ U[target].call_seq = E[target].call_seq
      BY <2>6, <3>1, <3>2, SleepFields, SMTT(30)
    <3> QED BY <3>1, <3>3
  <2>14. /\ mid[target].waitq = own[target].waitq /\ mid[target].msg = own[target].msg
         /\ mid[target].sender = own[target].sender /\ mid[target].ep = own[target].ep
         /\ mid[target].prev_seq = own[target].prev_seq
         /\ mid[target].call_seq = own[target].call_seq
    BY <2>12 DEF Others
  <2> HIDE DEF mid, U
  <2>15. /\ Others(kstack, kstack', t) /\ kstack'[t].at = "send" /\ kstack'[t].to = target
         /\ Typed(mid, kstack', request) /\ Typed(U, kstack', request)
    BY <1>1, <1>2, <1>3, <2>1, <2>11, SMTT(30) DEF Typed, Stacks, Others
  <2>16. Others(threads, mid, t)
    BY <2>7, <2>12 DEF Others
  <2>17. Protocol(mid, kstack', request, registered, {t}) /\ Fresh(mid, kstack', t)
    BY <1>1, <1>2, <2>7, <2>12, <2>15, <2>16, BeginSend
  <2>18. Protocol(U, kstack', request, registered, {})
    <3>1. /\ mid[t].state = "BLOCKED" /\ kstack'[t].at = "send" /\ mid[t].msg.op = "send"
          /\ kstack'[t].to = target /\ mid[target].ep # "WAIT_RECV"
      BY <2>3, <2>7, <2>9, <2>12, <2>14, <2>15
    <3>2. /\ U[target].state = mid[target].state /\ U[target].ep = "WAIT_SEND"
          /\ U[target].waitq = Append(mid[target].waitq, IpcNode(t))
          /\ U[target].msg = mid[target].msg /\ U[target].sender = mid[target].sender
          /\ U[target].prev_seq = mid[target].prev_seq
          /\ U[target].call_seq = mid[target].call_seq
      BY <2>13, <2>14
    <3> QED BY <1>2, <2>13, <2>15, <2>17, <3>1, <3>2, QueueUp
  <2>19. Alike(U, threads')
    BY <1>1, <2>1, <2>10, GiveUpAlike DEF U
  <2> QED BY <1>1, <2>2, <2>15, <2>18, <2>19, AlikeProtocol
<1> QED BY <1>5, <1>6

(* The arrays of ipc_call. *)
Calling(T, t, target, seq, words, slot, own) ==
  /\ seq = T[t].call_seq + 1
  /\ words = [op |-> "call", from |-> t, to |-> target, seq |-> seq]
  /\ slot = Enqueue([T EXCEPT ![t].call_seq = seq], t, "WAIT_RECV", WaitNode(t))
  /\ own = [slot EXCEPT ![t].msg = words]

LEMMA CallArrays ==
  ASSUME Good(threads), NEW t \in Thread, NEW target \in Thread \ {t}, threads[t].waitq = <<>>,
         NEW seq, NEW words, NEW slot, NEW own,
         Calling(threads, t, target, seq, words, slot, own)
  PROVE  /\ seq \in Nat /\ seq > 0 /\ words \in Msg /\ Good(slot) /\ Good(own)
         /\ Others(threads, slot, t) /\ Others(threads, own, t)
         /\ slot[t].ep = "WAIT_RECV" /\ slot[t].waitq = <<WaitNode(t)>>
         /\ slot[t].prev_seq = threads[t].prev_seq /\ slot[t].call_seq = seq
         /\ own[t].ep = "WAIT_RECV" /\ own[t].waitq = <<WaitNode(t)>> /\ own[t].msg = words
         /\ own[t].prev_seq = threads[t].prev_seq /\ own[t].call_seq = seq
<1> DEFINE base == [threads EXCEPT ![t].call_seq = seq]
<1>1. seq \in Nat /\ seq > 0
  <2>1. threads[t].call_seq \in Nat
    BY DEF Good, ThreadRec
  <2> QED BY <2>1, SMTT(30) DEF Calling
<1>2. words \in Msg
  BY <1>1 DEF Msg, Calling
<1>3. Good(base)
  <2>1. base = [threads EXCEPT ![t] = [threads[t] EXCEPT !.call_seq = seq]]
    BY DEF Good
  <2>2. \A m \in Msg : RecOK([threads[t] EXCEPT !.call_seq = seq])
    BY <1>1, FillOK DEF Good
  <2> QED BY <1>2, <2>1, <2>2, GoodExcept
<1>4. /\ Others(threads, base, t) /\ base[t].waitq = <<>>
      /\ base[t].prev_seq = threads[t].prev_seq /\ base[t].call_seq = seq
  BY SMTT(30) DEF Good, ThreadRec, Others
<1>5. slot = Enqueue(base, t, "WAIT_RECV", WaitNode(t))
  BY DEF Calling
<1> HIDE DEF base
<1>6. WaitNode(t) \in Node /\ Append(<<>>, WaitNode(t)) = <<WaitNode(t)>>
  BY NodeTypes, SMTT(30)
<1>7. Good(slot)
  BY <1>3, <1>5, <1>6, EnqueueOK
<1>8. /\ Others(base, slot, t) /\ slot[t].ep = "WAIT_RECV"
      /\ slot[t].waitq = Append(base[t].waitq, WaitNode(t))
      /\ slot[t].prev_seq = base[t].prev_seq /\ slot[t].call_seq = base[t].call_seq
  BY <1>3, <1>5, <1>6, EnqueueFields, SMTT(30)
<1>9. /\ Others(threads, slot, t) /\ slot[t].waitq = <<WaitNode(t)>>
      /\ slot[t].prev_seq = threads[t].prev_seq /\ slot[t].call_seq = seq
  BY <1>4, <1>6, <1>8 DEF Others
<1>10. /\ Others(slot, own, t) /\ own[t].ep = slot[t].ep /\ own[t].waitq = slot[t].waitq
       /\ own[t].msg = words /\ own[t].prev_seq = slot[t].prev_seq
       /\ own[t].call_seq = slot[t].call_seq
  <2>1. own = [slot EXCEPT ![t].msg = words]
    BY DEF Calling
  <2> QED BY <1>7, <2>1, SMTT(30) DEF Good, ThreadRec, Others
<1>11. Good(own)
  <2>1. own = [slot EXCEPT ![t] = [slot[t] EXCEPT !.msg = words]]
    BY <1>7 DEF Good, Calling
  <2>2. RecOK([slot[t] EXCEPT !.msg = words])
    BY <1>1, <1>2, <1>7, FillOK DEF Good
  <2> QED BY <1>7, <2>1, <2>2, GoodExcept
<1>12. Others(threads, own, t)
  BY <1>9, <1>10 DEF Others
<1> QED BY <1>1, <1>2, <1>7, <1>8, <1>9, <1>10, <1>11, <1>12

LEMMA CallProtocol ==
  ASSUME IpcInv, Parts', NEW t \in Thread, NEW target \in Thread, ipc_call(t, target)
  PROVE  ~broken' /\ Protocol(threads', kstack', request', registered', {})
<1> DEFINE seq   == threads[t].call_seq + 1
           words == [op |-> "call", from |-> t, to |-> target, seq |-> seq]
           slot  == Enqueue([threads EXCEPT ![t].call_seq = seq], t, "WAIT_RECV", WaitNode(t))
           own   == [slot EXCEPT ![t].msg = words]
           sent  == IF slot[target].ep = "WAIT_RECV"
                    THEN ipc_deliver_msg(slot, target, t, words, seq)
                    ELSE Enqueue(own, target, "WAIT_SEND", IpcNode(t))
<1>1. /\ current = t /\ threads[t].state = "RUNNING" /\ kstack[t].at = "user"
      /\ target \in CallTargets[t] /\ UNCHANGED <<registered, request>>
      /\ GiveUp(sent, "BLOCKED")
      /\ kstack' = [kstack EXCEPT ![t] = [at |-> "call", saved |-> threads[t].sender,
                                          to |-> target]]
  BY DEF ipc_call, InUser, sched_block, Sleep
<1>2. /\ Topology /\ ~broken /\ Good(threads) /\ Typed(threads, kstack, request)
      /\ Protocol(threads, kstack, request, registered, {})
  BY DEF IpcInv, Parts, RestOK, Typed, Stacks
<1>3. Typed(threads', kstack', request')
  BY DEF Parts, RestOK, Typed, Stacks
<1>4. threads[t].ep # "WAIT_RECV"
  BY <1>1, <1>2, UserFresh
<1>5. threads[t].waitq = <<>> /\ target # t
  <2>1. threads[t].ep # "WAIT_SEND"
    BY <1>1, <1>2, CallerEp DEF Protocol, Typed
  <2>2. threads[t].waitq = <<>>
    BY <1>2, <1>4, <2>1 DEF Good, RecOK, ThreadRec
  <2>3. target # t
    BY <1>1, <1>2, TopologyAssumption DEF Topology, ClientsAndServers
  <2> QED BY <2>2, <2>3
<1>6. ~broken'
  <2>1. ~Linked(threads, IpcNode(t)) /\ ~Linked(threads, WaitNode(t))
    BY <1>1, <1>2, Unlinked, NodeTypes DEF Protocol
  <2> QED BY <2>1 DEF ipc_call
<1>7. /\ seq \in Nat /\ seq > 0 /\ words \in Msg /\ Good(slot) /\ Good(own)
      /\ Others(threads, slot, t) /\ Others(threads, own, t)
      /\ slot[t].ep = "WAIT_RECV" /\ slot[t].waitq = <<WaitNode(t)>>
      /\ slot[t].prev_seq = threads[t].prev_seq /\ slot[t].call_seq = seq
      /\ own[t].ep = "WAIT_RECV" /\ own[t].waitq = <<WaitNode(t)>> /\ own[t].msg = words
      /\ own[t].prev_seq = threads[t].prev_seq /\ own[t].call_seq = seq
  <2>1. Calling(threads, t, target, seq, words, slot, own)
    BY DEF Calling
  <2> HIDE DEF seq, words, slot, own
  <2> QED BY <1>2, <1>5, <2>1, CallArrays, SMTT(30)
<1>8. \A T : T[t].call_seq = seq => words = Request(T, t, target)
  BY DEF Request
<1>9. /\ Others(kstack, kstack', t) /\ kstack'[t].at = "call" /\ kstack'[t].to = target
      /\ kstack' \in Stacks /\ request \in [Thread -> Msg]
  BY <1>1, <1>2, <1>3, SMTT(30) DEF Typed, Stacks, Others
<1> HIDE DEF seq, words, slot, own
<1>10. slot[target] = threads[target] /\ own[target] = threads[target]
  BY <1>5, <1>7 DEF Others
<1>11. ASSUME NEW T, Good(T), T \in {slot, own}, NEW mid, Asleep(T, mid, t)
       PROVE  /\ Good(mid) /\ Protocol(mid, kstack', request, registered, {t})
              /\ Fresh(mid, kstack', t) /\ mid[t].state = "BLOCKED"
              /\ mid[t].waitq = <<WaitNode(t)>> /\ mid[t].call_seq = seq
              /\ mid[t].msg = T[t].msg /\ mid[target] = threads[target]
  <2>1. Good(mid)
    BY <1>11, StateOK DEF Asleep
  <2>2. /\ Others(T, mid, t) /\ mid[t].state = "BLOCKED" /\ mid[t].ep = T[t].ep
        /\ mid[t].waitq = T[t].waitq /\ mid[t].msg = T[t].msg
        /\ mid[t].prev_seq = T[t].prev_seq /\ mid[t].call_seq = T[t].call_seq
    BY <1>11, AsleepFields, SMTT(30)
  <2>3. /\ Others(threads, T, t) /\ T[t].ep = "WAIT_RECV" /\ T[t].waitq = <<WaitNode(t)>>
        /\ T[t].prev_seq = threads[t].prev_seq /\ T[t].call_seq = seq
    BY <1>7, <1>11
  <2>4. Others(threads, mid, t) /\ mid[target] = threads[target]
    BY <1>5, <2>2, <2>3 DEF Others
  <2>5. Typed(mid, kstack', request)
    BY <1>9, <2>1 DEF Typed
  <2>6. mid[t].call_seq > 0
    BY <1>7, <2>2, <2>3
  <2>7. Protocol(mid, kstack', request, registered, {t}) /\ Fresh(mid, kstack', t)
    BY <1>1, <1>2, <1>5, <1>9, <2>2, <2>3, <2>4, <2>5, <2>6, BeginCall, ZenonT(30)
  <2> QED BY <2>1, <2>2, <2>3, <2>4, <2>7
<1> SUFFICES ASSUME NEW U, Asleep(sent, U, t), Good(sent)
             PROVE  Good(U) /\ Protocol(U, kstack', request, registered, {})
  <2>1. Good(sent)
    <3>1. CASE slot[target].ep = "WAIT_RECV"
      <4>1. slot[target].waitq # <<>>
        BY <1>7, <3>1 DEF Good, RecOK
      <4> QED BY <1>7, <3>1, <4>1, DeliverMsgOK
    <3>2. CASE slot[target].ep # "WAIT_RECV"
      <4>1. IpcNode(t) \in Node /\ IpcNode(t).list = "ipc_list"
        BY NodeTypes
      <4> QED BY <1>7, <1>10, <3>2, <4>1, EnqueueOK
    <3> QED BY <3>1, <3>2
  <2> HIDE DEF sent
  <2> DEFINE U == [sent EXCEPT ![t].state = "BLOCKED"]
  <2>2. Asleep(sent, U, t)
    BY DEF Asleep
  <2>3. Alike(U, threads')
    BY <1>1, <2>1, GiveUpAlike
  <2> HIDE DEF U
  <2>4. Good(U) /\ Protocol(U, kstack', request, registered, {})
    BY <2>1, <2>2
  <2>5. Typed(U, kstack', request)
    BY <1>9, <2>4 DEF Typed
  <2> QED BY <1>1, <1>6, <2>3, <2>4, <2>5, AlikeProtocol
<1>12. Good(U)
  BY StateOK DEF Asleep
<1>13. Typed(U, kstack', request)
  BY <1>9, <1>12 DEF Typed
<1>14. CASE slot[target].ep = "WAIT_RECV"
  <2> HIDE DEF own, slot, words
  <2>1. sent = ipc_deliver_msg(slot, target, t, words, seq)
    BY <1>14
  <2> HIDE DEF sent
  <2>2. /\ threads[target].state = "BLOCKED" /\ threads[target].waitq = <<IpcNode(target)>>
        /\ kstack[target].at = "recv"
    <3>1. /\ NodesOK(threads, kstack) /\ CallersOK(threads, kstack, registered, {})
          /\ target \in SendTargets[t] \cup CallTargets[t]
      BY <1>1, <1>2 DEF Protocol
    <3>2. threads[target].ep = "WAIT_RECV"
      BY <1>10, <1>14
    <3> QED BY <1>2, <3>1, <3>2, TargetWaits
  <2>3. /\ Others(slot, sent, target) /\ sent[target].state = "READY"
        /\ sent[target].waitq = <<>> /\ sent[target].msg = words
        /\ sent[target].sender = t /\ sent[target].prev_seq = seq
    BY <1>7, <1>10, <2>1, <2>2, NodeTypes, DeliverFields, SMTT(30)
  <2> DEFINE mid == [slot EXCEPT ![t].state = "BLOCKED"]
  <2>4. Asleep(slot, mid, t)
    BY DEF Asleep
  <2> HIDE DEF mid
  <2>5. /\ Good(mid) /\ Protocol(mid, kstack', request, registered, {t})
        /\ mid[t].state = "BLOCKED" /\ mid[t].waitq = <<WaitNode(t)>>
        /\ mid[t].call_seq = seq /\ mid[target] = threads[target]
    BY <1>7, <1>11, <2>4
  <2>6. /\ Others(mid, U, target) /\ U[target].state = "READY" /\ U[target].waitq = <<>>
        /\ U[target].msg = words /\ U[target].sender = t /\ U[target].prev_seq = seq
    BY <1>5, <1>7, <2>3, <2>4, SleepFields, SMTT(30)
  <2>7. Typed(mid, kstack', request) /\ kstack'[target].at = "recv"
    BY <1>5, <1>9, <2>2, <2>5 DEF Typed, Others
  <2>8. U[target].msg = Request(mid, t, target) /\ U[target].prev_seq = mid[t].call_seq
    BY <1>8, <2>5, <2>6
  <2>9. mid[target].ep = "WAIT_RECV"
    BY <1>10, <1>14, <2>5
  <2> QED BY <1>2, <1>5, <1>9, <1>12, <1>13, <2>2, <2>5, <2>6, <2>7, <2>8, <2>9, HandOver, ZenonT(30)
<1>15. CASE slot[target].ep # "WAIT_RECV"
  <2> HIDE DEF own, slot, words
  <2>1. sent = Enqueue(own, target, "WAIT_SEND", IpcNode(t))
    BY <1>15
  <2> HIDE DEF sent
  <2>2. IpcNode(t) \in Node
    BY NodeTypes
  <2>3. /\ Others(own, sent, target) /\ sent[target].state = own[target].state
        /\ sent[target].ep = "WAIT_SEND"
        /\ sent[target].waitq = Append(own[target].waitq, IpcNode(t))
        /\ sent[target].msg = own[target].msg /\ sent[target].sender = own[target].sender
        /\ sent[target].prev_seq = own[target].prev_seq
        /\ sent[target].call_seq = own[target].call_seq
    BY <1>7, <2>1, <2>2, EnqueueFields, SMTT(30)
  <2> DEFINE mid == [own EXCEPT ![t].state = "BLOCKED"]
  <2>4. Asleep(own, mid, t)
    BY DEF Asleep
  <2> HIDE DEF mid
  <2>5. /\ Good(mid) /\ Protocol(mid, kstack', request, registered, {t})
        /\ Fresh(mid, kstack', t)
        /\ mid[t].state = "BLOCKED" /\ mid[t].waitq = <<WaitNode(t)>>
        /\ mid[t].call_seq = seq /\ mid[t].msg = words /\ mid[target] = threads[target]
    BY <1>7, <1>11, <2>4
  <2>6. /\ Others(mid, U, target) /\ U[target].state = mid[target].state
        /\ U[target].ep = sent[target].ep /\ U[target].waitq = sent[target].waitq
        /\ U[target].msg = sent[target].msg /\ U[target].sender = sent[target].sender
        /\ U[target].prev_seq = sent[target].prev_seq
        /\ U[target].call_seq = sent[target].call_seq
    BY <1>7, <2>3, <2>4, SleepFields, SMTT(30)
  <2>7. own[target] = mid[target]
    BY <1>10, <2>5
  <2>8. /\ U[target].ep = "WAIT_SEND"
        /\ U[target].waitq = Append(mid[target].waitq, IpcNode(t))
        /\ U[target].msg = mid[target].msg /\ U[target].sender = mid[target].sender
        /\ U[target].prev_seq = mid[target].prev_seq
        /\ U[target].call_seq = mid[target].call_seq
    BY <2>3, <2>6, <2>7
  <2>9. Typed(mid, kstack', request) /\ mid[t].msg = Request(mid, t, target)
    BY <1>8, <1>9, <2>5 DEF Typed
  <2>10. mid[target].ep # "WAIT_RECV"
    BY <1>10, <1>15, <2>5
  <2> QED BY <1>2, <1>9, <1>12, <1>13, <2>5, <2>6, <2>8, <2>9, <2>10, QueueUp
<1> QED BY <1>14, <1>15

(* What ipc_recv and ipc_reply_recv share. *)
LEMMA ReceiveProtocol ==
  ASSUME Topology, ~broken, Parts, Parts', NEW T, Good(T), NEW t \in Thread,
         Protocol(T, kstack, request, registered, {t}), T[t].state = "RUNNING",
         kstack[t].at = "user", current = t, Receive(T, t)
  PROVE  ~broken' /\ Protocol(threads', kstack', request', registered, {})
<1>1. /\ Typed(T, kstack, request) /\ Typed(threads', kstack', request')
      /\ kstack \in Stacks /\ request \in [Thread -> Msg]
  BY DEF Parts, RestOK, Typed, Stacks
<1>2. NodesOK(T, kstack)
  BY DEF Protocol
<1>3. CASE T[t].ep = "WAIT_SEND"
  <2>1. T[t].waitq # <<>> /\ T[t].waitq \in Seq(Node)
    BY <1>3 DEF Good, RecOK, ThreadRec
  <2> DEFINE h == Head(T[t].waitq)
             c == h.of
             U == ipc_accept(T, t)
  <2>2. h \in Node /\ On(T[t].waitq, h)
    BY <1>2, <2>1, OnTail DEF NodesOK
  <2> HIDE DEF h
  <2>3. NodeOK(T, kstack, t, h) /\ c \in Thread
    BY <1>2, <2>2, NodeTypes DEF NodesOK
  <2>4. T[c].state = "BLOCKED" /\ c # t
    BY <2>3 DEF NodeOK
  <2>5. /\ threads' = U /\ UNCHANGED <<broken, kstack>>
        /\ request' = [request EXCEPT ![t] = U[t].msg]
    BY <1>3 DEF Receive, Stay
  <2>6. h = Head(T[t].waitq)
    BY DEF h
  <2> HIDE DEF U
  <2>7. /\ \A u \in Thread \ {t, c} : U[u] = T[u]
        /\ U[c].state = IF T[c].ep = "WAIT_RECV" THEN T[c].state ELSE "READY"
        /\ U[c].ep = T[c].ep /\ U[c].waitq = T[c].waitq /\ U[c].msg = T[c].msg
        /\ U[c].sender = T[c].sender /\ U[c].prev_seq = T[c].prev_seq
        /\ U[c].call_seq = T[c].call_seq
        /\ U[t].state = T[t].state /\ U[t].waitq = Tail(T[t].waitq)
        /\ U[t].ep = IF Tail(T[t].waitq) = <<>> THEN "INACTIVE" ELSE T[t].ep
        /\ U[t].msg = T[c].msg /\ U[t].sender = c /\ U[t].call_seq = T[t].call_seq
        /\ U[t].prev_seq = IF T[c].ep = "WAIT_RECV" THEN T[c].call_seq ELSE 0
    <3>1. c = Head(T[t].waitq).of /\ U = ipc_accept(T, t) /\ c \in Thread \ {t}
      BY <2>3, <2>4 DEF h, U
    <3> HIDE DEF c
    <3>2. Takes(T, U, t, c)
      BY <2>1, <2>4, <3>1, AcceptFields
    <3> QED BY <3>2 DEF Takes
  <2>8. Tail(T[t].waitq) # <<>> => U[t].ep = "WAIT_SEND"
    BY <1>3, <2>7
  <2>9. request'[t] = T[c].msg /\ Others(request, request', t)
    BY <1>1, <2>5, <2>7 DEF Others
  <2>10. Typed(U, kstack, request')
    BY <1>1, <2>5
  <2>11. T[t].state # "BLOCKED"
    BY SMTT(30)
  <2> DEFINE S == request'
  <2>12. S[t] = T[c].msg /\ Others(request, S, t) /\ Typed(U, kstack, S)
    BY <2>9, <2>10
  <2> HIDE DEF S
  <2>13. Protocol(U, kstack, S, registered, {})
    BY <1>1, <1>3, <2>2, <2>3, <2>4, <2>6, <2>7, <2>8, <2>11, <2>12, TakeFirst
  <2> QED BY <2>5, <2>13 DEF S
<1>4. CASE T[t].ep # "WAIT_SEND"
  <2>1. T[t].ep # "WAIT_RECV"
    BY <1>2, OwnSlot
  <2>2. T[t].waitq = <<>> /\ IpcNode(t) \in Node /\ Append(<<>>, IpcNode(t)) = <<IpcNode(t)>>
    BY <1>4, <2>1, NodeTypes, SMTT(30) DEF Good, RecOK, ThreadRec
  <2> DEFINE E == Enqueue(T, t, "WAIT_RECV", IpcNode(t))
             U == [E EXCEPT ![t].state = "BLOCKED"]
  <2>3. /\ broken' = Linked(T, IpcNode(t)) /\ GiveUp(E, "BLOCKED") /\ UNCHANGED request
        /\ kstack' = [kstack EXCEPT ![t] = [at |-> "recv", saved |-> Root, to |-> t]]
    BY <1>4 DEF Receive, sched_block, Sleep
  <2>4. ~broken'
    BY <1>2, <2>2, <2>3, Unlinked, NodeTypes
  <2>5. Good(E)
    BY <2>2, EnqueueOK
  <2>6. /\ Others(T, E, t) /\ E[t].ep = "WAIT_RECV"
        /\ E[t].waitq = Append(T[t].waitq, IpcNode(t)) /\ E[t].prev_seq = T[t].prev_seq
    BY <2>2, EnqueueFields, SMTT(30)
  <2> HIDE DEF E
  <2>7. Good(U) /\ Asleep(E, U, t)
    BY <2>5, StateOK DEF Asleep
  <2>8. Alike(U, threads')
    BY <2>3, <2>5, GiveUpAlike
  <2> HIDE DEF U
  <2>9. /\ Others(E, U, t) /\ U[t].state = "BLOCKED" /\ U[t].ep = E[t].ep
        /\ U[t].waitq = E[t].waitq /\ U[t].prev_seq = E[t].prev_seq
    BY <2>5, <2>7, AsleepFields, SMTT(30)
  <2>10. /\ Others(T, U, t) /\ U[t].ep = "WAIT_RECV" /\ U[t].waitq = <<IpcNode(t)>>
         /\ U[t].prev_seq = T[t].prev_seq
    BY <2>2, <2>6, <2>9 DEF Others
  <2>11. Others(kstack, kstack', t) /\ kstack'[t].at = "recv" /\ Typed(U, kstack', request)
    BY <1>1, <2>3, <2>7, SMTT(30) DEF Others, Stacks, Typed
  <2> DEFINE L == kstack'
  <2>12. Others(kstack, L, t) /\ L[t].at = "recv" /\ Typed(U, L, request)
    BY <2>11
  <2> HIDE DEF L
  <2>13. Protocol(U, L, request, registered, {})
    BY <1>1, <2>2, <2>9, <2>10, <2>12, WaitHere
  <2>14. Protocol(threads', L, request, registered, {})
    BY <2>8, <2>12, <2>13, AlikeProtocol
  <2> QED BY <2>3, <2>4, <2>14 DEF L
<1> QED BY <1>3, <1>4

LEMMA RecvProtocol ==
  ASSUME IpcInv, Parts', NEW t \in Thread, ipc_recv(t)
  PROVE  ~broken' /\ Protocol(threads', kstack', request', registered', {})
<1>1. /\ Topology /\ ~broken /\ Parts /\ Good(threads) /\ Typed(threads, kstack, request)
      /\ Protocol(threads, kstack, request, registered, {})
  BY DEF IpcInv, Parts, RestOK, Typed, Stacks
<1>2. /\ current = t /\ threads[t].state = "RUNNING" /\ kstack[t].at = "user"
      /\ t \in Receivers /\ Receive(threads, t) /\ UNCHANGED registered
  BY DEF ipc_recv, InUser
<1>3. ~Server(t)
  BY <1>1, <1>2, ServerOnly
<1>4. Protocol(threads, kstack, request, registered, {t})
  BY <1>1, <1>3, OwesNothing
<1> QED BY <1>1, <1>2, <1>4, ReceiveProtocol

LEMMA ReplyProtocol ==
  ASSUME IpcInv, Parts', NEW t \in Thread, ipc_reply_recv(t)
  PROVE  ~broken' /\ Protocol(threads', kstack', request', registered', {})
<1> DEFINE words == [op |-> "reply", from |-> t, to |-> request[t].from, seq |-> request[t].seq]
           T     == ReplyTo(threads, t, words)
           c     == threads[t].sender
           able  == /\ threads[t].prev_seq # 0
                    /\ c \in registered
                    /\ c # t
                    /\ threads[c].call_seq = threads[t].prev_seq
                    /\ threads[c].ep = "WAIT_RECV"
                    /\ threads[c].waitq # <<>>
<1>1. /\ Topology /\ ~broken /\ Parts /\ Good(threads) /\ Typed(threads, kstack, request)
      /\ Protocol(threads, kstack, request, registered, {})
  BY DEF IpcInv, Parts, RestOK, Typed, Stacks
<1>2. /\ current = t /\ threads[t].state = "RUNNING" /\ kstack[t].at = "user"
      /\ Receive(T, t) /\ UNCHANGED registered
  BY DEF ipc_reply_recv, InUser
<1>3. words \in Msg /\ c \in Thread
  BY <1>1 DEF Typed, Msg, Good, ThreadRec
<1>4. Good(T)
  BY <1>1, <1>3, ReplyToOK
<1>5. T = IF able THEN ipc_deliver_reply(threads, c, t, words) ELSE threads
  BY DEF ReplyTo
<1>6. words = [op |-> "reply", from |-> t, to |-> request[t].from, seq |-> request[t].seq]
  BY SMTT(30)
<1> HIDE DEF T, words
<1>7. T[t].state = "RUNNING" /\ Protocol(T, kstack, request, registered, {t})
  <2>1. CASE able
    <3>1. c # t /\ threads[t].prev_seq # 0 /\ threads[c].ep = "WAIT_RECV"
      BY <2>1
    <3>2. threads[c].state = "BLOCKED" /\ \E n \in Node : threads[c].waitq = <<n>>
      BY <1>1, <1>3, <3>1, NodeTypes, OwnSlot, SMTT(30) DEF Protocol
    <3>3. T = ipc_deliver_reply(threads, c, t, words)
      BY <1>5, <2>1
    <3> HIDE DEF c, able
    <3>4. PICK n \in Node : threads[c].waitq = <<n>>
      BY <3>2
    <3>5. /\ Others(threads, T, c) /\ T[c].state = "READY" /\ T[c].waitq = <<>>
          /\ T[c].msg = words /\ T[c].sender = t /\ T[c].prev_seq = threads[c].prev_seq
          /\ T[c].call_seq = threads[c].call_seq
      BY <1>1, <1>3, <3>2, <3>3, <3>4, ReplyFields, SMTT(30)
    <3>6. Typed(T, kstack, request) /\ T[t].state = "RUNNING" /\ threads[t].sender = c
      BY <1>1, <1>2, <1>4, <3>1, <3>5 DEF Typed, Others, c
    <3>7. Protocol(T, kstack, request, registered, {t})
      BY <1>1, <1>2, <1>3, <1>6, <3>1, <3>5, <3>6, GiveReply
    <3> QED BY <3>6, <3>7
  <2>2. CASE ~able
    <3>1. Protocol(threads, kstack, request, registered, {t})
      BY <1>1, <1>2, <2>2, NoReply
    <3> QED BY <1>2, <1>5, <2>2, <3>1
  <2> QED BY <2>1, <2>2
<1> QED BY <1>1, <1>2, <1>4, <1>7, ReceiveProtocol

LEMMA ReturnProtocol ==
  ASSUME IpcInv, Parts', NEW t \in Thread, IpcReturn(t)
  PROVE  ~broken' /\ Protocol(threads', kstack', request', registered', {})
<1>1. /\ Topology /\ ~broken /\ Good(threads) /\ Typed(threads, kstack, request)
      /\ Protocol(threads, kstack, request, registered, {})
      /\ Typed(threads', kstack', request')
  BY DEF IpcInv, Parts, RestOK, Typed, Stacks
<1>2. /\ threads[t].state = "RUNNING" /\ kstack[t].at # "user"
      /\ kstack' = [kstack EXCEPT ![t] = UserMode]
      /\ request' = IF kstack[t].at = "recv" THEN [request EXCEPT ![t] = threads[t].msg]
                    ELSE request
      /\ threads' = IF kstack[t].at = "call"
                    THEN [threads EXCEPT ![t].sender = kstack[t].saved] ELSE threads
      /\ UNCHANGED <<registered, broken>>
  BY DEF IpcReturn
<1> DEFINE U == threads'
           L == kstack'
           S == request'
<1>3. Others(kstack, L, t) /\ L[t].at = "user"
  BY <1>1, <1>2, SMTT(30) DEF Typed, Stacks, Others, UserMode
<1>4. Others(request, S, t) /\ S[t] = IF kstack[t].at = "recv" THEN threads[t].msg ELSE request[t]
  BY <1>1, <1>2 DEF Typed, Others
<1>5. /\ Others(threads, U, t) /\ U[t].state = threads[t].state /\ U[t].ep = threads[t].ep
      /\ U[t].waitq = threads[t].waitq /\ U[t].msg = threads[t].msg
      /\ U[t].prev_seq = threads[t].prev_seq /\ U[t].call_seq = threads[t].call_seq
      /\ kstack[t].at # "call" => U[t].sender = threads[t].sender
  BY <1>1, <1>2 DEF Good, ThreadRec, Others
<1>6. threads[t].state # "BLOCKED" /\ Typed(U, L, S)
  BY <1>1, <1>2
<1> HIDE DEF U, L, S
<1>7. IF kstack[t].at = "call" THEN S[t] = request[t]
      ELSE /\ U[t].sender = threads[t].sender
           /\ S[t] = IF kstack[t].at = "recv" THEN threads[t].msg ELSE request[t]
  BY <1>4, <1>5
<1>8. Protocol(U, L, S, registered, {})
  BY <1>1, <1>2, <1>3, <1>4, <1>5, <1>6, <1>7, GoBack
<1> QED BY <1>1, <1>2, <1>8 DEF U, L, S

(* Leaving the processor without blocking. *)
LEMMA LeaveProtocol ==
  ASSUME IpcInv, Parts', NEW s \in {"READY", "TERMINATED"}, GiveUp(threads, s),
         threads[current].state = "RUNNING", UNCHANGED <<registered, broken, kstack, request>>
  PROVE  ~broken' /\ Protocol(threads', kstack', request', registered', {})
<1>1. /\ ~broken /\ Good(threads) /\ Typed(threads, kstack, request) /\ current \in Thread
      /\ Protocol(threads, kstack, request, registered, {})
  BY DEF IpcInv, Parts, RestOK, Typed, Stacks
<1> DEFINE left == [threads EXCEPT ![current].state = s]
<1>2. Alike(left, threads')
  BY <1>1, GiveUpAlike
<1>3. /\ Others(threads, left, current) /\ left[current].state = s
      /\ left[current].ep = threads[current].ep /\ left[current].waitq = threads[current].waitq
      /\ left[current].msg = threads[current].msg
      /\ left[current].sender = threads[current].sender
      /\ left[current].prev_seq = threads[current].prev_seq
      /\ left[current].call_seq = threads[current].call_seq
  BY <1>1, StateField, SMTT(30)
<1> HIDE DEF left
<1>4. Alike(threads, left)
  BY <1>3 DEF Alike, Others
<1>5. Alike(threads, threads')
  BY <1>2, <1>4, SMTT(30) DEF Alike
<1>6. Protocol(threads', kstack, request, registered, {})
  BY <1>1, <1>5, AlikeProtocol
<1> QED BY <1>1, <1>6

(* A thread that is unregistered is owed nothing any more. *)
LEMMA FewerProtocol ==
  ASSUME NEW T, NEW K, NEW R, NEW G, NEW H, H \subseteq G, Protocol(T, K, R, G, {})
  PROVE  Protocol(T, K, R, H, {})
<1>1. \A c \in Thread : CallerOK(T, K, G, {}, c) => CallerOK(T, K, H, {}, c)
  BY DEF CallerOK
<1> QED BY <1>1 DEF Protocol, CallersOK

LEMMA OtherProtocol ==
  ASSUME IpcInv, Parts', NEW t \in Thread,
         Preempt(t) \/ \E target \in Thread : thread_destroy(t, target)
  PROVE  ~broken' /\ Protocol(threads', kstack', request', registered', {})
<1>1. CASE Preempt(t)
  <2>1. threads[current].state = "RUNNING" /\ GiveUp(threads, "READY")
        /\ UNCHANGED <<registered, broken, kstack, request>>
    BY <1>1 DEF Preempt, InUser
  <2> QED BY <2>1, LeaveProtocol
<1>2. CASE \E target \in Thread : thread_destroy(t, target)
  <2>1. PICK target \in Thread : thread_destroy(t, target)
    BY <1>2
  <2>2. threads[current].state = "RUNNING" /\ UNCHANGED <<broken, kstack, request>>
    BY <2>1 DEF thread_destroy, InUser
  <2>3. CASE GiveUp(threads, "TERMINATED") /\ UNCHANGED registered
    BY <2>2, <2>3, LeaveProtocol
  <2>4. CASE registered' = registered \ {target} /\ UNCHANGED <<threads, current>>
    <3>1. Protocol(threads, kstack, request, registered \ {target}, {})
      BY FewerProtocol DEF IpcInv
    <3> QED BY <2>2, <2>4, <3>1 DEF IpcInv
  <2> QED BY <2>1, <2>3, <2>4 DEF thread_destroy
<1> QED BY <1>1, <1>2

(* Only a call changes a call number, and only its return the answer. *)
LEMMA GiveUpSeq ==
  ASSUME NEW T, Good(T), current \in Thread,
         NEW s \in {"READY", "BLOCKED", "TERMINATED"}, GiveUp(T, s)
  PROVE  \A u \in Thread : threads'[u].call_seq = T[u].call_seq
<1>1. Alike([T EXCEPT ![current].state = s], threads')
  BY GiveUpAlike
<1>2. \A u \in Thread : [T EXCEPT ![current].state = s][u].call_seq = T[u].call_seq
  BY SMTT(30) DEF Good, ThreadRec
<1> QED BY <1>1, <1>2 DEF Alike

SameSeq(T, U) == \A u \in Thread : U[u].call_seq = T[u].call_seq

LEMMA ReplaceSeq ==
  ASSUME NEW T, Good(T), NEW r \in Thread, NEW e, e.call_seq = T[r].call_seq
  PROVE  SameSeq(T, [T EXCEPT ![r] = e])
  BY DEF Good, SameSeq

LEMMA WakeSeq ==
  ASSUME NEW T, Good(T), NEW r \in Thread
  PROVE  SameSeq(T, Wake(T, r))
  BY DEF Wake, Good, ThreadRec, SameSeq

LEMMA DropHeadSeq ==
  ASSUME NEW r, RecOK(r), NEW m, NEW f, NEW n
  PROVE  /\ [DropHead(r) EXCEPT !.msg = m, !.sender = f, !.prev_seq = n].call_seq = r.call_seq
         /\ [DropHead(r) EXCEPT !.msg = m, !.sender = f].call_seq = r.call_seq
  BY DEF DropHead, RecOK, ThreadRec

(* ipc_deliver_msg, ipc_deliver_reply and ipc_accept. *)
LEMMA DeliverSeq ==
  ASSUME NEW T, Good(T), NEW r \in Thread, T[r].waitq # <<>>, NEW from \in Thread,
         NEW words \in Msg, NEW seq \in Nat
  PROVE  /\ SameSeq(T, ipc_deliver_msg(T, r, from, words, seq))
         /\ SameSeq(T, ipc_deliver_reply(T, r, from, words))
<1> DEFINE d == [DropHead(T[r]) EXCEPT !.msg = words, !.sender = from, !.prev_seq = seq]
           e == [DropHead(T[r]) EXCEPT !.msg = words, !.sender = from]
<1>1. RecOK(d) /\ RecOK(e) /\ d.call_seq = T[r].call_seq /\ e.call_seq = T[r].call_seq
  <2>1. RecOK(T[r]) /\ RecOK(DropHead(T[r]))
    BY DropHeadOK DEF Good
  <2>2. RecOK(d) /\ RecOK(e)
    BY <2>1, FillOK
  <2>3. d.call_seq = T[r].call_seq /\ e.call_seq = T[r].call_seq
    BY <2>1, DropHeadSeq, SMTT(30)
  <2> QED BY <2>2, <2>3
<1>2. /\ ipc_deliver_msg(T, r, from, words, seq) = Wake([T EXCEPT ![r] = d], r)
      /\ ipc_deliver_reply(T, r, from, words) = Wake([T EXCEPT ![r] = e], r)
  BY DEF ipc_deliver_msg, ipc_deliver_reply
<1> HIDE DEF d, e
<1>3. Good([T EXCEPT ![r] = d]) /\ Good([T EXCEPT ![r] = e])
  BY <1>1, GoodExcept
<1>4. SameSeq(T, [T EXCEPT ![r] = d]) /\ SameSeq(T, [T EXCEPT ![r] = e])
  BY <1>1, ReplaceSeq
<1>5. /\ SameSeq([T EXCEPT ![r] = d], Wake([T EXCEPT ![r] = d], r))
      /\ SameSeq([T EXCEPT ![r] = e], Wake([T EXCEPT ![r] = e], r))
  BY <1>3, WakeSeq
<1> QED BY <1>2, <1>4, <1>5 DEF SameSeq

LEMMA AcceptSeq ==
  ASSUME NEW T, Good(T), NEW r \in Thread, T[r].waitq # <<>>
  PROVE  SameSeq(T, ipc_accept(T, r))
<1> DEFINE snd == Head(T[r].waitq).of
           n   == IF T[snd].ep = "WAIT_RECV" THEN T[snd].call_seq ELSE 0
           d   == [DropHead(T[r]) EXCEPT !.msg = T[snd].msg, !.sender = snd, !.prev_seq = n]
           T1  == [T EXCEPT ![r] = d]
<1>1. T[r].waitq \in Seq(Node) /\ T[r].waitq # <<>>
  BY DEF Good, ThreadRec
<1>2. Head(T[r].waitq) \in Node
  BY <1>1, SMTT(30)
<1>3. snd \in Thread
  BY <1>2 DEF Node
<1>4. T[snd].msg \in Msg /\ n \in Nat
  BY <1>3 DEF Good, ThreadRec
<1>5. ipc_accept(T, r) = IF T1[snd].ep # "WAIT_RECV" THEN Wake(T1, snd) ELSE T1
  BY DEF ipc_accept, Accepted
<1> HIDE DEF snd, n
<1>6. RecOK(d) /\ d.call_seq = T[r].call_seq
  <2>1. RecOK(T[r]) /\ RecOK(DropHead(T[r]))
    BY DropHeadOK DEF Good
  <2>2. RecOK(d)
    BY <1>3, <1>4, <2>1, FillOK
  <2>3. d.call_seq = T[r].call_seq
    BY <2>1, DropHeadSeq, SMTT(30)
  <2> QED BY <2>2, <2>3
<1> HIDE DEF d
<1>7. Good(T1) /\ SameSeq(T, T1)
  BY <1>6, GoodExcept, ReplaceSeq
<1> HIDE DEF T1
<1>8. SameSeq(T1, Wake(T1, snd))
  BY <1>3, <1>7, WakeSeq
<1> QED BY <1>5, <1>7, <1>8 DEF SameSeq

LEMMA EnqueueSeq ==
  ASSUME NEW T, Good(T), NEW r \in Thread, NEW s, NEW n
  PROVE  SameSeq(T, Enqueue(T, r, s, n))
  BY SMTT(30) DEF Enqueue, Good, ThreadRec, SameSeq

LEMMA ReceiveSeq ==
  ASSUME NEW T, Good(T), NEW t \in Thread, current \in Thread, Receive(T, t)
  PROVE  SameSeq(T, threads')
<1>1. CASE T[t].ep = "WAIT_SEND"
  <2>1. T[t].waitq # <<>>
    BY <1>1 DEF Good, RecOK
  <2> QED BY <1>1, <2>1, AcceptSeq DEF Receive, Stay
<1>2. CASE T[t].ep # "WAIT_SEND"
  <2> DEFINE E == Enqueue(T, t, "WAIT_RECV", IpcNode(t))
  <2>1. IpcNode(t) \in Node
    BY NodeTypes
  <2>2. Good(E) /\ SameSeq(T, E)
    BY <2>1, EnqueueOK, EnqueueSeq
  <2>3. GiveUp(E, "BLOCKED")
    BY <1>2 DEF Receive, sched_block
  <2> HIDE DEF E
  <2>4. SameSeq(E, threads')
    BY <2>2, <2>3, GiveUpSeq DEF SameSeq
  <2> QED BY <2>2, <2>4 DEF SameSeq
<1> QED BY <1>1, <1>2

LEMMA SendSeq ==
  ASSUME Parts, NEW t \in Thread, NEW target \in Thread, ipc_send(t, target)
  PROVE  SameSeq(threads, threads')
<1> DEFINE words == [op |-> "send", from |-> t, to |-> target, seq |-> 0]
           own   == [threads EXCEPT ![t].msg = words]
           E     == Enqueue(own, target, "WAIT_SEND", IpcNode(t))
<1>1. words \in Msg /\ Good(threads) /\ current \in Thread
  BY DEF Msg, Parts
<1>2. CASE threads[target].ep = "WAIT_RECV"
  <2>1. threads[target].waitq # <<>>
    BY <1>1, <1>2 DEF Good, RecOK
  <2>2. SameSeq(threads, ipc_deliver_msg(threads, target, t, words, 0))
    BY <1>1, <2>1, DeliverSeq
  <2> QED BY <1>2, <2>2 DEF ipc_send, Stay
<1>3. CASE threads[target].ep # "WAIT_RECV"
  <2>1. own = [threads EXCEPT ![t] = [threads[t] EXCEPT !.msg = words]]
    BY <1>1 DEF Good
  <2>2. RecOK([threads[t] EXCEPT !.msg = words])
    BY <1>1, FillOK, TopologyAssumption DEF Good
  <2>3. Good(own)
    BY <1>1, <2>1, <2>2, GoodExcept
  <2>4. own[target].ep # "WAIT_RECV"
    BY <1>1, <1>3 DEF Good, ThreadRec
  <2>5. IpcNode(t) \in Node /\ IpcNode(t).list = "ipc_list"
    BY NodeTypes
  <2>6. SameSeq(threads, own)
    BY <1>1, SMTT(30) DEF Good, ThreadRec, SameSeq
  <2>7. GiveUp(E, "BLOCKED")
    BY <1>3 DEF ipc_send, sched_block
  <2> HIDE DEF own
  <2>8. Good(E) /\ SameSeq(own, E)
    BY <2>3, <2>4, <2>5, EnqueueOK, EnqueueSeq
  <2> HIDE DEF E
  <2>9. SameSeq(E, threads')
    BY <1>1, <2>7, <2>8, GiveUpSeq DEF SameSeq
  <2> QED BY <2>6, <2>8, <2>9 DEF SameSeq
<1> QED BY <1>2, <1>3

(* ipc_call changes the caller's number only. *)
LEMMA CallSeq ==
  ASSUME Parts, NEW t \in Thread, NEW target \in Thread \ {t}, threads[t].waitq = <<>>,
         ipc_call(t, target)
  PROVE  \A u \in Thread \ {t} : threads'[u].call_seq = threads[u].call_seq
<1> DEFINE seq   == threads[t].call_seq + 1
           words == [op |-> "call", from |-> t, to |-> target, seq |-> seq]
           slot  == Enqueue([threads EXCEPT ![t].call_seq = seq], t, "WAIT_RECV", WaitNode(t))
           own   == [slot EXCEPT ![t].msg = words]
           sent  == IF slot[target].ep = "WAIT_RECV"
                    THEN ipc_deliver_msg(slot, target, t, words, seq)
                    ELSE Enqueue(own, target, "WAIT_SEND", IpcNode(t))
<1>1. Calling(threads, t, target, seq, words, slot, own) /\ GiveUp(sent, "BLOCKED")
  BY DEF Calling, ipc_call, sched_block
<1>2. Good(threads) /\ current \in Thread
  BY DEF Parts
<1> HIDE DEF seq, words, slot, own
<1>3. /\ seq \in Nat /\ words \in Msg /\ Good(slot) /\ Good(own)
      /\ Others(threads, slot, t) /\ Others(threads, own, t)
  BY <1>1, <1>2, CallArrays
<1>4. Good(sent) /\ (SameSeq(slot, sent) \/ SameSeq(own, sent))
  <2>1. CASE slot[target].ep = "WAIT_RECV"
    <3>1. slot[target].waitq # <<>>
      BY <1>3, <2>1 DEF Good, RecOK
    <3>2. Good(ipc_deliver_msg(slot, target, t, words, seq))
      BY <1>3, <3>1, DeliverMsgOK
    <3>3. SameSeq(slot, ipc_deliver_msg(slot, target, t, words, seq))
      BY <1>3, <3>1, DeliverSeq
    <3> QED BY <2>1, <3>2, <3>3
  <2>2. CASE slot[target].ep # "WAIT_RECV"
    <3>1. IpcNode(t) \in Node /\ IpcNode(t).list = "ipc_list"
      BY NodeTypes
    <3>2. own[target].ep # "WAIT_RECV"
      BY <1>3, <2>2 DEF Others
    <3>3. Good(Enqueue(own, target, "WAIT_SEND", IpcNode(t)))
      BY <1>3, <3>1, <3>2, EnqueueOK
    <3>4. SameSeq(own, Enqueue(own, target, "WAIT_SEND", IpcNode(t)))
      BY <1>3, EnqueueSeq
    <3> QED BY <2>2, <3>3, <3>4
  <2> QED BY <2>1, <2>2
<1> HIDE DEF sent
<1>5. \A u \in Thread : threads'[u].call_seq = sent[u].call_seq
  BY <1>1, <1>2, <1>4, GiveUpSeq
<1> QED BY <1>3, <1>4, <1>5 DEF SameSeq, Others

(* The last answers stay the answers to the last calls. *)
LEMMA StepAnswers ==
  ASSUME IpcInv, Next
  PROVE  AnswersOK'
<1>1. /\ Topology /\ Parts /\ Good(threads) /\ current \in Thread /\ AnswersOK
      /\ Typed(threads, kstack, request) /\ kstack \in Stacks
      /\ answer \in [Thread -> [msg : Msg, sender : Thread, to : Thread]]
      /\ Protocol(threads, kstack, request, registered, {})
  BY DEF IpcInv, Parts, RestOK, Typed, Stacks
<1>2. ASSUME NEW t \in Thread, kstack[t].at # "call", SameSeq(threads, threads'),
             UNCHANGED answer, \A u \in Thread \ {t} : kstack'[u] = kstack[u]
      PROVE  AnswersOK'
  BY <1>1, <1>2 DEF AnswersOK, SameSeq, Reply
<1> SUFFICES ASSUME NEW t \in Thread,
                    Step(t) \/ Preempt(t) \/ \E target \in Thread : thread_destroy(t, target)
             PROVE  AnswersOK'
  BY DEF Next
<1>3. ASSUME NEW target \in Thread, ipc_send(t, target) PROVE AnswersOK'
  <2>1. SameSeq(threads, threads')
    BY <1>1, <1>3, SendSeq
  <2>2. /\ kstack[t].at # "call" /\ UNCHANGED answer
        /\ \A u \in Thread \ {t} : kstack'[u] = kstack[u]
    BY <1>1, <1>3 DEF ipc_send, InUser, Sleep, Stacks
  <2> QED BY <1>2, <2>1, <2>2
<1>4. ASSUME NEW T, Good(T), SameSeq(threads, T), Receive(T, t), kstack[t].at = "user",
             UNCHANGED answer
      PROVE  AnswersOK'
  <2>1. SameSeq(threads, threads')
    <3>1. SameSeq(T, threads')
      BY <1>1, <1>4, ReceiveSeq
    <3> QED BY <1>4, <3>1 DEF SameSeq
  <2>2. \A u \in Thread \ {t} : kstack'[u] = kstack[u]
    BY <1>1, <1>4 DEF Receive, Sleep, Stacks
  <2> QED BY <1>2, <1>4, <2>1, <2>2
<1>5. CASE ipc_recv(t)
  BY <1>1, <1>4, <1>5 DEF ipc_recv, InUser, SameSeq
<1>6. CASE ipc_reply_recv(t)
  <2> DEFINE words == [op |-> "reply", from |-> t, to |-> request[t].from, seq |-> request[t].seq]
  <2>1. words \in Msg /\ threads[t].sender \in Thread
    BY <1>1 DEF Typed, Msg, Good, ThreadRec
  <2>2. Receive(ReplyTo(threads, t, words), t) /\ kstack[t].at = "user" /\ UNCHANGED answer
    BY <1>6 DEF ipc_reply_recv, InUser
  <2> HIDE DEF words
  <2>3. Good(ReplyTo(threads, t, words))
    BY <1>1, <2>1, ReplyToOK
  <2>4. SameSeq(threads, ReplyTo(threads, t, words))
    <3>1. threads[threads[t].sender].waitq # <<>> =>
            SameSeq(threads, ipc_deliver_reply(threads, threads[t].sender, t, words))
      BY <1>1, <2>1, DeliverSeq
    <3> QED BY <3>1 DEF ReplyTo, SameSeq
  <2> QED BY <1>4, <2>2, <2>3, <2>4
<1>7. ASSUME NEW target \in Thread, ipc_call(t, target) PROVE AnswersOK'
  <2>1. /\ threads[t].state = "RUNNING" /\ kstack[t].at = "user" /\ target \in CallTargets[t]
        /\ UNCHANGED answer
        /\ kstack' = [kstack EXCEPT ![t] = [at |-> "call", saved |-> threads[t].sender,
                                            to |-> target]]
    BY <1>7 DEF ipc_call, InUser, Sleep
  <2>2. threads[t].waitq = <<>> /\ target # t
    <3>1. threads[t].ep # "WAIT_SEND" /\ threads[t].ep # "WAIT_RECV"
      BY <1>1, <2>1, UserFresh, CallerEp DEF Protocol, Typed
    <3>2. threads[t].waitq = <<>>
      BY <1>1, <3>1 DEF Good, RecOK, ThreadRec
    <3>3. target # t
      BY <1>1, <2>1, TopologyAssumption DEF Topology, ClientsAndServers
    <3> QED BY <3>2, <3>3
  <2>3. \A u \in Thread \ {t} : threads'[u].call_seq = threads[u].call_seq
    BY <1>1, <1>7, <2>2, CallSeq
  <2>4. kstack'[t].at = "call" /\ \A u \in Thread \ {t} : kstack'[u] = kstack[u]
    BY <1>1, <2>1 DEF Stacks
  <2> QED BY <1>1, <2>1, <2>3, <2>4 DEF AnswersOK, Reply
<1>8. CASE IpcReturn(t)
  <2>1. SameSeq(threads, threads')
    <3>1. threads' = threads \/ threads' = [threads EXCEPT ![t].sender = kstack[t].saved]
      BY <1>8 DEF IpcReturn
    <3>2. \A u \in Thread : threads'[u].call_seq = threads[u].call_seq
      <4>1. threads \in [Thread -> ThreadRec]
        BY <1>1 DEF Good, RecOK
      <4>2. CASE threads' = [threads EXCEPT ![t].sender = kstack[t].saved]
        BY ONLY <4>1, <4>2, t \in Thread, SMTT(30) DEF ThreadRec
      <4> QED BY <3>1, <4>2
    <3> QED BY <3>2 DEF SameSeq
  <2>2. threads[t].state = "RUNNING" /\ \A u \in Thread \ {t} : kstack'[u] = kstack[u]
    BY <1>1, <1>8 DEF IpcReturn, Stacks
  <2>3. CASE kstack[t].at # "call"
    <3>1. UNCHANGED answer
      BY <1>8, <2>3 DEF IpcReturn
    <3> QED BY <1>2, <2>1, <2>2, <2>3, <3>1
  <2>4. CASE kstack[t].at = "call"
    <3>1. threads[t].msg = Reply(threads, t, kstack[t].to) /\ threads[t].sender = kstack[t].to
      BY <1>1, <2>2, <2>4 DEF Protocol, CallersOK, CallerOK
    <3>2. answer' = [answer EXCEPT ![t] = [msg |-> threads[t].msg, sender |-> threads[t].sender,
                                           to |-> kstack[t].to]]
      BY <1>8, <2>4 DEF IpcReturn
    <3>3. /\ \A u \in Thread \ {t} : answer'[u] = answer[u]
          /\ answer'[t].msg = Reply(threads, t, answer'[t].to)
          /\ answer'[t].sender = answer'[t].to
      BY <1>1, <3>1, <3>2
    <3> QED BY <1>1, <2>1, <2>2, <3>3, SMTT(30) DEF AnswersOK, SameSeq, Reply
  <2> QED BY <2>3, <2>4
<1>9. ASSUME NEW s \in {"READY", "TERMINATED"}, GiveUp(threads, s), kstack[t].at = "user",
             UNCHANGED <<kstack, answer>>
      PROVE  AnswersOK'
  <2>1. SameSeq(threads, threads')
    BY <1>1, <1>9, GiveUpSeq DEF SameSeq
  <2> QED BY <1>2, <1>9, <2>1
<1>10. CASE Preempt(t)
  BY <1>9, <1>10 DEF Preempt, InUser
<1>11. CASE \E target \in Thread : thread_destroy(t, target)
  <2>1. PICK target \in Thread : thread_destroy(t, target)
    BY <1>11
  <2>2. kstack[t].at = "user" /\ UNCHANGED <<kstack, answer>>
    BY <2>1 DEF thread_destroy, InUser
  <2>3. CASE GiveUp(threads, "TERMINATED")
    BY <1>9, <2>2, <2>3
  <2>4. CASE UNCHANGED threads
    BY <1>1, <2>2, <2>4 DEF AnswersOK, Reply
  <2> QED BY <2>1, <2>3, <2>4 DEF thread_destroy
<1> QED BY <1>3, <1>5, <1>6, <1>7, <1>8, <1>10, <1>11 DEF Step

(* At boot every queue is empty, everybody is in user mode and nobody has  *)
(* made a call.                                                            *)
LEMMA InitProtocol == Topology /\ Init => IpcInv
<1> SUFFICES ASSUME Topology, Init PROVE IpcInv
  BY SMTT(30)
<1>1. /\ \A t \in Thread : /\ threads[t].waitq = <<>> /\ threads[t].state # "BLOCKED"
                           /\ threads[t].prev_seq = 0 /\ threads[t].call_seq = 0
                           /\ kstack[t].at = "user" /\ request[t].op = "none"
      /\ ~broken
  BY DEF Init, NewThread, UserMode, NoMsg
<1>2. \A t \in Thread : Once(threads[t].waitq) /\ \A n : ~On(threads[t].waitq, n)
  <2>1. Once(<<>>) /\ \A n : ~On(<<>>, n)
    BY SMTT(30) DEF Once, On
  <2> QED BY <1>1, <2>1
<1>3. NodesOK(threads, kstack)
  BY <1>2 DEF NodesOK
<1>4. BlockedOK(threads, kstack, {}) /\ CallersOK(threads, kstack, registered, {})
  BY <1>1 DEF BlockedOK, CallersOK
<1>5. ServersOK(threads, kstack, request, {})
  <2>1. \A t \in Thread : Work(threads, kstack, request, t).op # "call"
    BY <1>1 DEF Work
  <2>2. \A t \in Thread : ContextOK(threads, kstack, request, t)
    BY <1>1, <2>1 DEF ContextOK
  <2> QED BY <1>1, <2>2 DEF ServersOK
<1>6. AnswersOK
  BY <1>1, SMTT(30) DEF AnswersOK
<1> QED BY <1>1, <1>3, <1>4, <1>5, <1>6, InitOK DEF IpcInv, Protocol

LEMMA NextProtocol == IpcInv /\ [Next]_vars => IpcInv'
<1> SUFFICES ASSUME IpcInv, [Next]_vars PROVE IpcInv'
  BY SMTT(30)
<1>1. Parts' /\ Topology'
  BY NextOK DEF IpcInv, Topology, ClientsAndServers
<1>2. CASE UNCHANGED vars
  <2>1. ~broken' /\ Protocol(threads', kstack', request', registered', {})
    BY <1>2 DEF IpcInv, vars
  <2>2. AnswersOK'
    BY <1>2 DEF IpcInv, vars, AnswersOK, Reply
  <2> QED BY <1>1, <2>1, <2>2 DEF IpcInv
<1>3. CASE Next
  <2>1. PICK t \in Thread :
          Step(t) \/ Preempt(t) \/ \E target \in Thread : thread_destroy(t, target)
    BY <1>3 DEF Next
  <2>2. ~broken' /\ Protocol(threads', kstack', request', registered', {})
    BY <1>1, <2>1, SendProtocol, CallProtocol, RecvProtocol, ReplyProtocol, ReturnProtocol,
       OtherProtocol DEF Step
  <2>3. AnswersOK'
    BY <1>3, StepAnswers
  <2> QED BY <1>1, <2>2, <2>3 DEF IpcInv
<1> QED BY <1>2, <1>3

(* A blocked caller's call is queued, or in the hands of the thread called. *)
LEMMA NobodyForgottenInv == IpcInv => NobodyForgotten
<1> SUFFICES ASSUME IpcInv, NEW t \in registered, threads[t].state = "BLOCKED"
             PROVE  LET to == kstack[t].to IN
                    \/ kstack[t].at = "send" /\ Queued(IpcNode(t), to)
                    \/ kstack[t].at = "recv" /\ threads[t].waitq = <<IpcNode(t)>>
                    \/ /\ kstack[t].at = "call"
                       /\ threads[t].waitq = <<WaitNode(t)>>
                       /\ Queued(IpcNode(t), to) \/ Owes(to, t)
  BY DEF NobodyForgotten
<1>1. /\ t \in Thread /\ Protocol(threads, kstack, request, registered, {})
      /\ kstack \in Stacks
  BY DEF IpcInv, Parts, RestOK, Stacks
<1>2. \A u \in Thread : Queued(IpcNode(t), u) <=> On(threads[u].waitq, IpcNode(t))
  BY DEF Queued, On
<1>3. kstack[t].to \in Thread
  BY <1>1 DEF Stacks
<1>4. \/ kstack[t].at = "send" /\ On(threads[kstack[t].to].waitq, IpcNode(t))
      \/ kstack[t].at = "recv" /\ threads[t].waitq = <<IpcNode(t)>>
      \/ kstack[t].at = "call" /\ threads[t].waitq = <<WaitNode(t)>>
  BY <1>1 DEF Protocol, BlockedOK
<1>5. CASE kstack[t].at = "call"
  <2> DEFINE s == kstack[t].to
  <2>1. CallerOK(threads, kstack, registered, {}, t)
    BY <1>1, <1>5 DEF Protocol, CallersOK
  <2>2. \/ On(threads[s].waitq, IpcNode(t))
        \/ /\ Serving(threads, kstack, s) /\ threads[s].sender = t
           /\ threads[s].prev_seq = threads[t].call_seq /\ threads[t].call_seq > 0
    BY <2>1 DEF CallerOK
  <2>3. ASSUME ~On(threads[s].waitq, IpcNode(t)) PROVE Owes(s, t)
    <3>1. ContextOK(threads, kstack, request, s)
      BY <1>1, <1>3, <2>2, <2>3 DEF Protocol, ServersOK
    <3>2. threads[s].prev_seq # 0
      BY <2>2, <2>3, SMTT(30)
    <3>3. Work(threads, kstack, request, s) = Request(threads, t, s)
      BY <2>2, <2>3, <3>1, <3>2 DEF ContextOK
    <3> QED BY <2>2, <2>3, <3>3 DEF Owes, Serving, Work, Request, CallOf
  <2> QED BY <1>2, <1>3, <1>4, <1>5, <2>3
<1>6. CASE kstack[t].at # "call"
  BY <1>2, <1>3, <1>4, <1>6
<1> QED BY <1>5, <1>6

LEMMA ReplyContextInv == IpcInv => ReplyContextKept
<1> SUFFICES ASSUME IpcInv, NEW t \in Repliers, kstack[t].at = "user", request[t].op = "call"
             PROVE  threads[t].sender = request[t].from /\ threads[t].prev_seq = request[t].seq
  BY DEF ReplyContextKept, HasReplyContext
<1>1. t \in Thread
  BY TopologyAssumption
<1>2. ContextOK(threads, kstack, request, t)
  BY <1>1 DEF IpcInv, Protocol, ServersOK, Serving
<1>3. /\ threads[t].prev_seq = threads[threads[t].sender].call_seq
      /\ request[t] = Request(threads, threads[t].sender, t)
  BY <1>2 DEF ContextOK, Work
<1> QED BY <1>3, SMTT(30) DEF Request

(* What the invariant gives. *)
LEMMA ProtocolGives ==
  IpcInv => LinkedOnce /\ NobodyForgotten /\ CallGetsItsReply /\ ReplyContextKept
<1>1. IpcInv => LinkedOnce
  BY DEF IpcInv, LinkedOnce
<1>2. IpcInv => CallGetsItsReply
  BY DEF IpcInv, AnswersOK, Reply, CallGetsItsReply
<1> QED BY <1>1, <1>2, NobodyForgottenInv, ReplyContextInv

(* Where threads are clients or servers, list_add_tail never meets a node  *)
(* that is linked already: ipc_list and ipc_wait_list are in one queue at  *)
(* a time, through any interleaving of sends, calls, replies, preemptions  *)
(* and destructions.                                                       *)
THEOREM NodesLinkedOnce == Topology /\ Spec => []LinkedOnce
  BY InitProtocol, NextProtocol, ProtocolGives, PTL DEF Spec

(* A thread that blocked in IPC can be found by whoever is to wake it: a   *)
(* sender in its target's queue, a receiver in its own, a caller through   *)
(* its request in the queue or through the server that holds it.           *)
THEOREM BlockedAreFound == Topology /\ Spec => []NobodyForgotten
  BY InitProtocol, NextProtocol, ProtocolGives, PTL DEF Spec

(* ipc_call returns the answer to that call, with its number, from the     *)
(* thread that was called, and never a message somebody else sent.         *)
THEOREM CallsGetTheirReply == Topology /\ Spec => []CallGetsItsReply
  BY InitProtocol, NextProtocol, ProtocolGives, PTL DEF Spec

(* A server that is working on a call still holds the ipc_sender and the   *)
(* ipc_prev_seq of that call when it answers.                              *)
THEOREM ServersKeepContext == Topology /\ Spec => []ReplyContextKept
  BY InitProtocol, NextProtocol, ProtocolGives, PTL DEF Spec

=============================================================================
