---------------------------- MODULE IpcInvariant ----------------------------
(***************************************************************************)
(* The inductive invariants of Ipc.  Parts is that of the types and of the *)
(* agreement of every endpoint with its wait queue; IpcInv adds, for a     *)
(* topology of clients and servers, where every thread, every node and     *)
(* every call is.                                                          *)
(***************************************************************************)
EXTENDS Ipc

(* What EndpointMatchesQueue says of one thread. *)
RecOK(r) ==
  /\ r \in ThreadRec
  /\ r.ep = "INACTIVE" <=> r.waitq = <<>>
  /\ r.ep = "WAIT_SEND" => \A i \in 1..Len(r.waitq) : r.waitq[i].list = "ipc_list"

(* An array of threads that is typed and consistent. *)
Good(T) == T \in [Thread -> ThreadRec] /\ \A t \in Thread : RecOK(T[t])

(* The types of the variables other than `threads' and `current'. *)
RestOK ==
  /\ registered \subseteq Thread
  /\ broken \in BOOLEAN
  /\ kstack \in [Thread -> [at : {"user", "send", "recv", "call"},
                            saved : Thread, to : Thread]]
  /\ request \in [Thread -> Msg]
  /\ answer \in [Thread -> [msg : Msg, sender : Thread, to : Thread]]

(* The inductive invariant, in terms of the array operators. *)
Parts == Good(threads) /\ current \in Thread /\ RestOK

-----------------------------------------------------------------------------
(* Clients and servers: no node is linked twice, nobody is forgotten, and  *)
(* every call gets its own reply.                                          *)

Topology == ClientsAndServers(SendTargets, CallTargets, Receivers)

(* The threads that somebody calls. *)
Server(s) == \E t \in Thread : s \in CallTargets[t]

(* The invariant is stated for an array T of threads, the stacks K, the    *)
(* requests R and the registered threads G, so that it can also be stated  *)
(* of what an operation has in hand before its end.  F are the threads in  *)
(* the middle of an operation.                                             *)

On(q, n) == \E i \in 1..Len(q) : q[i] = n
Once(q)  == \A i, j \in 1..Len(q) : q[i] = q[j] => i = j

(* A node n on u's queue belongs to a blocked thread, which sends to or    *)
(* calls u, or is u itself and alone on its queue.                         *)
NodeOK(T, K, u, n) ==
  /\ T[n.of].state = "BLOCKED"
  /\ IF T[u].ep = "WAIT_SEND"
     THEN n.list = "ipc_list" /\ K[n.of].at \in {"send", "call"} /\ K[n.of].to = u
     ELSE /\ n.of = u /\ T[u].waitq = <<n>>
          /\ \/ n.list = "ipc_list" /\ K[u].at = "recv"
             \/ n.list = "ipc_wait_list" /\ K[u].at = "call"

NodesOK(T, K) ==
  \A u \in Thread :
    /\ Once(T[u].waitq)
    /\ \A n \in Node : On(T[u].waitq, n) => NodeOK(T, K, u, n)

(* A blocked thread is on the queue it waits on. *)
BlockedOK(T, K, F) ==
  \A t \in Thread \ F : T[t].state = "BLOCKED" =>
    \/ K[t].at = "send" /\ On(T[K[t].to].waitq, IpcNode(t)) /\ T[t].msg.op = "send"
    \/ K[t].at = "recv" /\ T[t].waitq = <<IpcNode(t)>>
    \/ K[t].at = "call" /\ T[t].waitq = <<WaitNode(t)>>

Request(T, t, target) == [op |-> "call", from |-> t, to |-> target, seq |-> T[t].call_seq]
Reply(T, t, target)   == [op |-> "reply", from |-> target, to |-> t, seq |-> T[t].call_seq]

(* What a thread works on: its last request, or the message it was woken   *)
(* with and has not picked up yet.                                         *)
Serving(T, K, s) == K[s].at = "user" \/ (K[s].at = "recv" /\ T[s].state # "BLOCKED")
Work(T, K, R, s) == IF K[s].at = "user" THEN R[s] ELSE T[s].msg

(* A server with a reply context works on the current call of the thread   *)
(* named there, which waits for this answer and is not in the server's     *)
(* queue any more; one without a context works on no call.                 *)
ContextOK(T, K, R, s) ==
  IF T[s].prev_seq = 0 THEN Work(T, K, R, s).op # "call"
  ELSE LET c == T[s].sender IN
       /\ T[s].prev_seq = T[c].call_seq
       /\ Work(T, K, R, s) = Request(T, c, s)
       /\ K[c].at = "call" /\ K[c].to = s
       /\ T[c].state = "BLOCKED" /\ ~On(T[s].waitq, IpcNode(c))

(* Threads that nobody calls never have a context. *)
ServersOK(T, K, R, F) ==
  \A s \in Thread :
    /\ s \notin F /\ Serving(T, K, s) => ContextOK(T, K, R, s)
    /\ ~Server(s) => T[s].prev_seq = 0 /\ R[s].op # "call"

(* A call is in its target's queue or in its hands, unless the caller was  *)
(* unregistered; when the caller runs again, it has the reply.             *)
CallerOK(T, K, G, F, c) ==
  LET s == K[c].to IN
  /\ s \in CallTargets[c] /\ T[c].call_seq > 0
  /\ IF T[c].state = "BLOCKED"
     THEN /\ On(T[s].waitq, IpcNode(c)) => T[c].msg = Request(T, c, s)
          /\ c \in G \ F =>
               \/ On(T[s].waitq, IpcNode(c))
               \/ /\ s \notin F /\ Serving(T, K, s)
                  /\ T[s].sender = c /\ T[s].prev_seq = T[c].call_seq
     ELSE T[c].msg = Reply(T, c, s) /\ T[c].sender = s

CallersOK(T, K, G, F) ==
  \A t \in Thread :
    /\ K[t].at = "send" => K[t].to \in SendTargets[t]
    /\ K[t].at = "call" => CallerOK(T, K, G, F, t)

Protocol(T, K, R, G, F) ==
  /\ NodesOK(T, K)
  /\ BlockedOK(T, K, F)
  /\ ServersOK(T, K, R, F)
  /\ CallersOK(T, K, G, F)

Stacks == [Thread -> [at : {"user", "send", "recv", "call"}, saved : Thread, to : Thread]]

Typed(T, K, R) == Good(T) /\ K \in Stacks /\ R \in [Thread -> Msg]

(* What the last call gave a thread. *)
AnswersOK ==
  \A t \in Thread :
    kstack[t].at # "call" /\ threads[t].call_seq > 0 =>
      /\ answer[t].msg = Reply(threads, t, answer[t].to)
      /\ answer[t].sender = answer[t].to

IpcInv ==
  /\ Topology
  /\ Parts
  /\ ~broken
  /\ Protocol(threads, kstack, request, registered, {})
  /\ AnswersOK

=============================================================================
