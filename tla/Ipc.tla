-------------------------------- MODULE Ipc ---------------------------------
(***************************************************************************)
(* Synchronous message passing: kernel/task/ipc.c, entered through sys_ipc *)
(* of kernel/task/syscall.c.                                               *)
(*                                                                         *)
(* The kernel runs on one processor and every system call runs with        *)
(* interrupts masked, so an operation is one step up to the point where it *)
(* gives the processor away (sched_block); what follows that point is a    *)
(* second step, IpcReturn, taken when the thread is dispatched again.      *)
(* The endpoint spin locks are therefore never contended and do not appear.*)
(* Which READY thread is dispatched is left open: Sched is one policy.     *)
(*                                                                         *)
(* `threads' is the array of struct thread with the fields IPC uses, and   *)
(* the operations of ipc.c are operators from one such array to the next.  *)
(* Message words carry no data but where they come from, which is what     *)
(* the properties need: a request names its sender, its receiver and the   *)
(* sender's call number, a reply names the request it answers.             *)
(***************************************************************************)
EXTENDS Naturals, Sequences

CONSTANTS
  Thread,       \* the threads
  Root,         \* the first thread (tid 0), in which the boot ends
  SendTargets,  \* SendTargets[t]: the threads t uses IPC_SEND on
  CallTargets,  \* CallTargets[t]: the threads t uses IPC_CALL on
  Receivers,    \* the threads that use IPC_RECV
  Repliers,     \* the threads that use IPC_REPLY_AND_WAIT
  Destroyable,  \* the threads their pager may destroy
  MaxSeq        \* bound on ipc_call_seq

ASSUME TopologyAssumption ==
  /\ Root \in Thread
  /\ SendTargets \in [Thread -> SUBSET Thread]
  /\ CallTargets \in [Thread -> SUBSET Thread]
  /\ Receivers \subseteq Thread
  /\ Repliers \subseteq Thread
  /\ Destroyable \subseteq Thread
  /\ MaxSeq \in Nat

VARIABLES
  threads,     \* struct thread of every thread
  current,     \* curcpu->current
  registered,  \* the threads g_threads[] still knows
  broken,      \* a list node was linked while it was linked already
  kstack,      \* where a thread resumes when it is dispatched
  request,     \* the message its last receive gave a thread
  answer       \* what its last call gave a thread

vars == <<threads, current, registered, broken, kstack, request, answer>>

Msg == [op : {"none", "send", "call", "reply"},
        from : Thread, to : Thread, seq : Nat]

NoMsg == [op |-> "none", from |-> Root, to |-> Root, seq |-> 0]

(* A queue holds list nodes: a thread's ipc_list or its ipc_wait_list. *)
Node == [of : Thread, list : {"ipc_list", "ipc_wait_list"}]

IpcNode(t)  == [of |-> t, list |-> "ipc_list"]
WaitNode(t) == [of |-> t, list |-> "ipc_wait_list"]

ThreadRec ==
  [state    : {"READY", "RUNNING", "BLOCKED", "TERMINATED"},
   ep       : {"INACTIVE", "WAIT_SEND", "WAIT_RECV"},
   waitq    : Seq(Node),
   msg      : Msg,
   sender   : Thread,
   prev_seq : Nat,
   call_seq : Nat]

(* memset(t, 0) in thread_create_child: sender 0 is the root thread's tid. *)
NewThread(s) ==
  [state |-> s, ep |-> "INACTIVE", waitq |-> <<>>, msg |-> NoMsg,
   sender |-> Root, prev_seq |-> 0, call_seq |-> 0]

UserMode == [at |-> "user", saved |-> Root, to |-> Root]

Init ==
  /\ threads = [t \in Thread |-> NewThread(IF t = Root THEN "RUNNING" ELSE "READY")]
  /\ current = Root
  /\ registered = Thread
  /\ broken = FALSE
  /\ kstack = [t \in Thread |-> UserMode]
  /\ request = [t \in Thread |-> NoMsg]
  /\ answer = [t \in Thread |-> [msg |-> NoMsg, sender |-> Root, to |-> Root]]

-----------------------------------------------------------------------------
(* Operators on the array of threads, one per function of ipc.c. *)

Linked(T, n) == \E u \in Thread : \E i \in 1..Len(T[u].waitq) : T[u].waitq[i] = n

(* sched_wakeup, under the test each caller makes *)
Wake(T, t) ==
  IF T[t].state = "BLOCKED" THEN [T EXCEPT ![t].state = "READY"] ELSE T

(* Mutant of Enqueue: a thread state stored where an endpoint state goes. *)
EnqueueWrongEnum(T, t, s, n) ==
  [T EXCEPT ![t] = [T[t] EXCEPT !.ep = "BLOCKED", !.waitq = Append(T[t].waitq, n)]]

(* list_add_tail(node, &t->ipc_ep.ipc_waitqueue) with ep->state = s *)
Enqueue(T, t, s, n) ==
  [T EXCEPT ![t] = [T[t] EXCEPT !.ep = s, !.waitq = Append(T[t].waitq, n)]]

(* Mutant of DropHead: the served node is not unlinked. *)
DropHeadStillLinked(r) == r

(* Mutant of DropHead: the state survives the last node. *)
DropHeadKeepsState(r) == [r EXCEPT !.waitq = Tail(r.waitq)]

(* list_del(ep->ipc_waitqueue.next), and INACTIVE once the queue is empty *)
DropHead(r) ==
  [r EXCEPT !.waitq = Tail(r.waitq),
            !.ep = IF Tail(r.waitq) = <<>> THEN "INACTIVE" ELSE r.ep]

ipc_deliver_msg(T, r, from, words, seq) ==
  Wake([T EXCEPT ![r] = [DropHead(T[r]) EXCEPT !.msg = words,
                                               !.sender = from,
                                               !.prev_seq = seq]], r)

ipc_deliver_reply(T, r, from, words) ==
  Wake([T EXCEPT ![r] = [DropHead(T[r]) EXCEPT !.msg = words,
                                               !.sender = from]], r)

(* What accepting the first sender stores at the receiver. *)
Accepted(T, r, snd, seq) ==
  [T EXCEPT ![r] = [DropHead(T[r]) EXCEPT !.msg = T[snd].msg,
                                          !.sender = snd,
                                          !.prev_seq = seq]]

(* Mutant of ipc_accept: a plain sender is not woken. *)
AcceptNoWake(T, r) ==
  LET snd == Head(T[r].waitq).of IN
  Accepted(T, r, snd, IF T[snd].ep = "WAIT_RECV" THEN T[snd].call_seq ELSE 0)

(* Mutant of ipc_accept: a caller is woken like a plain sender. *)
AcceptWakesCaller(T, r) ==
  LET snd == Head(T[r].waitq).of IN
  Wake(Accepted(T, r, snd, IF T[snd].ep = "WAIT_RECV" THEN T[snd].call_seq ELSE 0), snd)

(* Mutant of ipc_accept: the call number is not remembered. *)
AcceptNoSeq(T, r) ==
  LET snd == Head(T[r].waitq).of
      T1  == Accepted(T, r, snd, T[r].prev_seq)
  IN  IF T1[snd].ep # "WAIT_RECV" THEN Wake(T1, snd) ELSE T1

(* Take the first waiting sender's message; a caller stays blocked. *)
ipc_accept(T, r) ==
  LET snd == Head(T[r].waitq).of
      T1  == Accepted(T, r, snd,
                      IF T[snd].ep = "WAIT_RECV" THEN T[snd].call_seq ELSE 0)
  IN  IF T1[snd].ep # "WAIT_RECV" THEN Wake(T1, snd) ELSE T1

(* The reply half of ipc_reply_recv. *)
ReplyTo(T, t, words) ==
  LET caller == T[t].sender IN
  IF /\ T[t].prev_seq # 0
     /\ caller \in registered
     /\ caller # t
     /\ T[caller].call_seq = T[t].prev_seq
     /\ T[caller].ep = "WAIT_RECV"
     /\ T[caller].waitq # <<>>
  THEN ipc_deliver_reply(T, caller, t, words)
  ELSE T

-----------------------------------------------------------------------------
(* The processor. *)

(* Mutant of GiveUp: cur->state is not updated before the switch. *)
GiveUpKeepsState(T, s) ==
  \/ \E next \in Thread :
       /\ T[next].state = "READY"
       /\ threads' = [T EXCEPT ![next].state = "RUNNING"]
       /\ current' = next
  \/ /\ \A t \in Thread : T[t].state # "READY"
     /\ threads' = T
     /\ UNCHANGED current

(* The current thread leaves the processor in state s; sched_pick finds a  *)
(* READY thread, or the kernel halts.                                      *)
GiveUp(T, s) ==
  LET left == [T EXCEPT ![current].state = s] IN
  \/ \E next \in Thread :
       /\ left[next].state = "READY"
       /\ threads' = [left EXCEPT ![next].state = "RUNNING"]
       /\ current' = next
  \/ /\ \A t \in Thread : left[t].state # "READY"
     /\ threads' = left
     /\ UNCHANGED current

sched_block(T) == GiveUp(T, "BLOCKED")

Stay(T) == threads' = T /\ UNCHANGED current

(* Thread t is running user code and may enter the kernel. *)
InUser(t) ==
  /\ current = t
  /\ threads[t].state = "RUNNING"
  /\ kstack[t].at = "user"
  /\ ~broken

(* The part of t's kernel stack that is used after sched_block returns. *)
Sleep(t, where, saved, to) ==
  kstack' = [kstack EXCEPT ![t] = [at |-> where, saved |-> saved, to |-> to]]

-----------------------------------------------------------------------------
(* System calls. *)

ipc_send(t, target) ==
  LET words == [op |-> "send", from |-> t, to |-> target, seq |-> 0]
      own   == [threads EXCEPT ![t].msg = words] IN
  /\ InUser(t)
  /\ target \in SendTargets[t] \cap registered
  /\ IF threads[target].ep = "WAIT_RECV"
     THEN /\ Stay(ipc_deliver_msg(threads, target, t, words, 0))
          /\ UNCHANGED <<broken, kstack>>
     ELSE /\ broken' = Linked(threads, IpcNode(t))
          /\ Sleep(t, "send", Root, target)
          /\ sched_block(Enqueue(own, target, "WAIT_SEND", IpcNode(t)))
  /\ UNCHANGED <<registered, request, answer>>

(* The common second half of ipc_recv and ipc_reply_recv: take a pending   *)
(* message, or wait for one on the thread's own queue.                     *)
Receive(T, t) ==
  IF T[t].ep = "WAIT_SEND"
  THEN /\ Stay(ipc_accept(T, t))
       /\ request' = [request EXCEPT ![t] = ipc_accept(T, t)[t].msg]
       /\ UNCHANGED <<broken, kstack>>
  ELSE /\ broken' = Linked(T, IpcNode(t))
       /\ Sleep(t, "recv", Root, t)
       /\ sched_block(Enqueue(T, t, "WAIT_RECV", IpcNode(t)))
       /\ UNCHANGED request

ipc_recv(t) ==
  /\ InUser(t)
  /\ t \in Receivers
  /\ Receive(threads, t)
  /\ UNCHANGED <<registered, answer>>

(* A server answers the request it received last. *)
ipc_reply_recv(t) ==
  LET words == [op |-> "reply", from |-> t, to |-> request[t].from, seq |-> request[t].seq] IN
  /\ InUser(t)
  /\ t \in Repliers
  /\ Receive(ReplyTo(threads, t, words), t)
  /\ UNCHANGED <<registered, answer>>

ipc_call(t, target) ==
  LET seq   == threads[t].call_seq + 1
      words == [op |-> "call", from |-> t, to |-> target, seq |-> seq]
      slot  == Enqueue([threads EXCEPT ![t].call_seq = seq], t, "WAIT_RECV", WaitNode(t))
      own   == [slot EXCEPT ![t].msg = words]
      sent  == IF slot[target].ep = "WAIT_RECV"
               THEN ipc_deliver_msg(slot, target, t, words, seq)
               ELSE Enqueue(own, target, "WAIT_SEND", IpcNode(t))
  IN
  /\ InUser(t)
  /\ target \in CallTargets[t] \cap registered
  /\ seq <= MaxSeq
  /\ broken' = \/ Linked(threads, WaitNode(t))
               \/ slot[target].ep # "WAIT_RECV" /\ Linked(threads, IpcNode(t))
  /\ Sleep(t, "call", threads[t].sender, target)
  /\ sched_block(sent)
  /\ UNCHANGED <<registered, request, answer>>

(* A blocked thread is dispatched again and returns to user mode. *)
IpcReturn(t) ==
  /\ current = t
  /\ threads[t].state = "RUNNING"
  /\ kstack[t].at # "user"
  /\ ~broken
  /\ kstack' = [kstack EXCEPT ![t] = UserMode]
  /\ IF kstack[t].at = "recv"
     THEN request' = [request EXCEPT ![t] = threads[t].msg]
     ELSE UNCHANGED request
  /\ IF kstack[t].at = "call"
     THEN /\ answer' = [answer EXCEPT ![t] = [msg |-> threads[t].msg,
                                              sender |-> threads[t].sender,
                                              to |-> kstack[t].to]]
          /\ threads' = [threads EXCEPT ![t].sender = kstack[t].saved]
     ELSE UNCHANGED <<answer, threads>>
  /\ UNCHANGED <<current, registered, broken>>

(* Timer tick at the end of a quantum, or SYS_THREAD_SWITCH. *)
Preempt(t) ==
  /\ InUser(t)
  /\ GiveUp(threads, "READY")
  /\ UNCHANGED <<registered, broken, kstack, request, answer>>

(* TC_DESTROY.  Every thread here has the root server as its pager.  The   *)
(* call on a thread that may run ends the calling thread itself.           *)
thread_destroy(t, target) ==
  /\ InUser(t)
  /\ t = Root
  /\ target \in Destroyable \cap registered
  /\ IF threads[target].state \in {"READY", "RUNNING"}
     THEN /\ GiveUp(threads, "TERMINATED")
          /\ UNCHANGED registered
     ELSE /\ registered' = registered \ {target}
          /\ UNCHANGED <<threads, current>>
  /\ UNCHANGED <<broken, kstack, request, answer>>

Step(t) ==
  \/ \E target \in Thread : ipc_send(t, target) \/ ipc_call(t, target)
  \/ ipc_recv(t)
  \/ ipc_reply_recv(t)
  \/ IpcReturn(t)

Next ==
  \E t \in Thread :
    \/ Step(t)
    \/ Preempt(t)
    \/ \E target \in Thread : thread_destroy(t, target)

Spec == Init /\ [][Next]_vars

(* Sched gives every READY thread the processor again and again, and a     *)
(* server that runs comes back to ipc_reply_recv.                          *)
Fairness ==
  \A t \in Thread :
    /\ SF_vars(Next /\ current # t /\ current' = t)
    /\ WF_vars(IpcReturn(t))
    /\ SF_vars(ipc_reply_recv(t))

FairSpec == Spec /\ Fairness

-----------------------------------------------------------------------------
(* Properties. *)

(* Clients and servers, the way the tree uses IPC: a thread that calls     *)
(* others is nobody's target, and a thread that is called only serves,     *)
(* with ipc_reply_recv.                                                    *)
ClientsAndServers(send, call, recv) ==
  \A t \in DOMAIN call : \A s \in call[t] :
    /\ \A u \in DOMAIN call : t \notin send[u] \cup call[u]
    /\ s \notin recv /\ send[s] = {}

(* Every field keeps to the values its C type stands for. *)
TypeOK ==
  /\ threads \in [Thread -> ThreadRec]
  /\ current \in Thread
  /\ registered \subseteq Thread
  /\ broken \in BOOLEAN
  /\ kstack \in [Thread -> [at : {"user", "send", "recv", "call"},
                            saved : Thread, to : Thread]]
  /\ request \in [Thread -> Msg]
  /\ answer \in [Thread -> [msg : Msg, sender : Thread, to : Thread]]

(* No operation of ipc.c links a list node that is still linked: neither   *)
(* list_add_tail of ipc_list nor that of ipc_wait_list ever corrupts a     *)
(* queue.                                                                  *)
LinkedOnce == ~broken

(* The endpoint state tells what its queue holds.  INACTIVE is exactly the *)
(* empty queue, so ipc_deliver_msg always has a node to unlink; WAIT_SEND  *)
(* means senders only, so ipc_accept's container_of(.., ipc_list) is       *)
(* applied to an ipc_list node and to nothing else.                        *)
EndpointMatchesQueue ==
  \A t \in Thread :
    /\ threads[t].ep = "INACTIVE" <=> threads[t].waitq = <<>>
    /\ threads[t].ep = "WAIT_SEND" =>
         \A i \in 1..Len(threads[t].waitq) : threads[t].waitq[i].list = "ipc_list"

(* The request of t's current call. *)
CallOf(t, target) ==
  [op |-> "call", from |-> t, to |-> target, seq |-> threads[t].call_seq]

Queued(n, target) ==
  \E i \in 1..Len(threads[target].waitq) : threads[target].waitq[i] = n

(* Server s has t's current call in hand, with the context to answer it. *)
Owes(s, t) ==
  /\ threads[s].sender = t
  /\ threads[s].prev_seq = threads[t].call_seq
  /\ \/ kstack[s].at = "user" /\ request[s] = CallOf(t, s)
     \/ kstack[s].at = "recv" /\ threads[s].state # "BLOCKED" /\ threads[s].msg = CallOf(t, s)

(* No blocked thread is forgotten: a blocked sender is on its target's     *)
(* queue, a blocked receiver alone on its own, and a blocked caller keeps  *)
(* its reply slot while its request is queued or a server owes the answer. *)
NobodyForgotten ==
  \A t \in registered :
    threads[t].state = "BLOCKED" =>
      LET to == kstack[t].to IN
      \/ kstack[t].at = "send" /\ Queued(IpcNode(t), to)
      \/ kstack[t].at = "recv" /\ threads[t].waitq = <<IpcNode(t)>>
      \/ /\ kstack[t].at = "call"
         /\ threads[t].waitq = <<WaitNode(t)>>
         /\ Queued(IpcNode(t), to) \/ Owes(to, t)

(* ipc_call returns the answer to this very call, from the thread called.  *)
CallGetsItsReply ==
  \A t \in Thread :
    kstack[t].at # "call" /\ threads[t].call_seq > 0 =>
      /\ answer[t].msg = [op |-> "reply", from |-> answer[t].to, to |-> t,
                          seq |-> threads[t].call_seq]
      /\ answer[t].sender = answer[t].to

(* A reply that ends a call is the reply to that call: "a stale reply can  *)
(* never be delivered to a newer call" (ipc.c, lines 23-26).               *)
NoStaleReply ==
  \A t \in Thread :
    kstack[t].at # "call" /\ answer[t].msg.op = "reply" =>
      answer[t].msg = [op |-> "reply", from |-> answer[t].to, to |-> t,
                       seq |-> threads[t].call_seq]

HasReplyContext(t) ==
  kstack[t].at = "user" /\ request[t].op = "call" =>
    threads[t].sender = request[t].from /\ threads[t].prev_seq = request[t].seq

(* A server in user mode still has the reply context (ipc_sender and       *)
(* ipc_prev_seq) of the call it is working on, so its next ipc_reply_recv  *)
(* answers that call.                                                      *)
ReplyContextKept == \A t \in Repliers : HasReplyContext(t)

(* The same for the servers that call other servers: "a server can make    *)
(* nested calls to other servers without losing reply context" (ipc.c,     *)
(* lines 27-29).                                                           *)
NestedCallKeepsContext ==
  \A t \in Repliers : CallTargets[t] # {} => HasReplyContext(t)

(* A call that is made is answered. *)
CallsReturn ==
  \A t \in Thread : kstack[t].at = "call" ~> kstack[t].at = "user"

(* The thread states follow the dispatching contract. *)
states == [t \in Thread |-> threads[t].state]

D == INSTANCE Dispatch WITH state <- states

(* IPC implements Dispatch: a message operation wakes only blocked threads, *)
(* and the processor passes only to READY ones.                            *)
ImplementsDispatch == D!Spec
=============================================================================
