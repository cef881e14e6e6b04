------------------------------- MODULE MCIpc --------------------------------
(* Instances of Ipc: the tree's own use of IPC (clients and servers), and  *)
(* the two uses that the comment at the head of ipc.c speaks of.           *)
EXTENDS Ipc, TLC

CONSTANTS r, s1, s2, c1, c2

(* Two clients; s1 answers calls, s2 collects plain messages with          *)
(* ipc_recv, and the pager r destroys the clients at any time.             *)
ServerSend == r :> {} @@ s1 :> {} @@ s2 :> {} @@ c1 :> {s1, s2} @@ c2 :> {s2}
ServerCall == r :> {} @@ s1 :> {} @@ s2 :> {} @@ c1 :> {s1} @@ c2 :> {s1}

(* One server, which is the root server, for the liveness run. *)
LiveSend == s1 :> {} @@ c1 :> {s1} @@ c2 :> {}
LiveCall == s1 :> {} @@ c1 :> {s1} @@ c2 :> {s1}

ASSUME ServersAssumption ==
  /\ ClientsAndServers(ServerSend, ServerCall, {s2})
  /\ ClientsAndServers(LiveSend, LiveCall, {})

(* A server that makes a nested call: c1 and c2 call s1, s1 calls s2. *)
NestedSend == [t \in Thread |-> {}]
NestedCall == s1 :> {s2} @@ s2 :> {} @@ c1 :> {s1} @@ c2 :> {s1}

(* c1 calls two servers, and s2 also sends it a message. *)
CrossSend == s1 :> {} @@ s2 :> {c1} @@ c1 :> {}
CrossCall == s1 :> {} @@ s2 :> {} @@ c1 :> {s1, s2}
=============================================================================
