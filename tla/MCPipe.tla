------------------------------- MODULE MCPipe -------------------------------
(***************************************************************************)
(* Small instances of Pipe for TLC: one client process with two or three   *)
(* threads, one server process with one.                                   *)
(***************************************************************************)
EXTENDS Pipe, TLC

CONSTANTS client, server, k1

HomeTwoClients   == 1 :> client @@ 2 :> client @@ 3 :> server
HomeThreeClients == 1 :> client @@ 2 :> client @@ 3 :> client @@ 4 :> server

-----------------------------------------------------------------------------
(* A service in use: the client holds one or two handles on the inlet, so    *)
(* that its table may be full when an answer comes, the server the outlet,   *)
(* and neither gives its end away.  Thread 1 of the client posts and         *)
(* collects its claims, the others only call, so that a claim that fills the *)
(* ring has somebody to collect it; the server takes every request and       *)
(* answers or drops every obligation.  A transferable handle goes along with *)
(* requests and replies, across another connection or away; either process   *)
(* may die at any moment.                                                    *)

\* The handles a process has on its end, the first of its table.
Ends(p) == IF p = client THEN 1..inlet_refs ELSE {1}
Endpoint(p) == IF p = client THEN Inlet ELSE Outlet

ServiceInit ==
  /\ inlet_refs \in 1..2
  /\ outlet_refs = 1
  /\ table \in [Procs -> [Handles -> {Inlet, Outlet, Unbound} \cup {Cap(k) : k \in Caps}]]
  /\ \A p \in Procs, h \in Handles :
        IF h \in Ends(p) THEN table[p][h] = Endpoint(p) ELSE table[p][h] \notin {Inlet, Outlet}
  /\ \A k \in Caps : Cardinality(Holders(Cap(k))) = 1
  /\ live = TRUE
  /\ staged = <<>>
  /\ state = [x \in Ring |-> "Free"]
  /\ reply_refs = [x \in Ring |-> 0]
  /\ request_refs = [x \in Ring |-> 0]
  /\ caller = [x \in Ring |-> 0]
  /\ held = [x \in Ring |-> {}]
  /\ call_pipe = [t \in Threads |-> FALSE]
  /\ call_claim = [t \in Threads |-> 0]
  /\ call_args = [t \in Threads |-> {}]
  /\ answered = Quiet
  /\ serving = FALSE
  /\ gone = {}
  /\ dying = NoProc

Clients == {t \in Threads : Home[t] = client}
Servers == {t \in Threads : Home[t] = server}

DropClaim(t) == \E h \in Handles :
  table[Home[t]][h] \in {Claim(x) : x \in Ring} /\ release_handle(t, h)

DropCap(t) == \E h \in Handles, k \in Caps :
  table[Home[t]][h] = Cap(k) /\ release_handle(t, h)

PassCap(t) == \E h \in Handles, k \in Caps, q \in Procs :
  table[Home[t]][h] = Cap(k) /\ move_entry(t, q, h)

Answer(t, x) == \E h \in Handles :
  \/ reply_peer_closed(t, h, x)
  \/ \E ks \in SendArgs(server) : pipe_reply(t, h, x, ks) \/ reply_to_caller(t, h, x, ks)
  \/ table[Home[t]][h] = Obligation(x) /\ release_handle(t, h)

ServiceNext ==
  \/ \E h \in Handles, ks \in SendArgs(client) : pipe_post(1, h, ks)
  \/ Resolve(1) \/ DropClaim(1)
  \/ \E t \in Clients \ {1}, h \in Handles, ks \in SendArgs(client) :
        pipe_call(t, h, ks) \/ block_on_call_room(t, h, ks)
  \/ \E t \in Servers : Take(t) \/ \E x \in Ring : Answer(t, x)
  \/ \E t \in Threads : DropCap(t) \/ PassCap(t)
  \/ \E p \in Procs : end_process(p)
  \/ Kernel

\* The kernel runs a syscall to completion (ktrap returns to a thread only when
\* the handler has returned), so its steps are weakly fair.  Strong fairness for
\* the syscalls: the kernel's steps disable them only while a handler runs.
ServiceSpec ==
  /\ ServiceInit /\ [][ServiceNext]_vars
  /\ WF_vars(Kernel)
  /\ SF_vars(Resolve(1))
  /\ \A t \in Servers : SF_vars(Take(t)) /\ \A x \in Ring : SF_vars(Answer(t, x))

\* A thread parked in Call or Resolve comes back (notify_room, notify_claim):
\* the kernel loses no wakeup along the way from the wait for room, through the
\* staged queue and the service, to the answer.
CallReturns ==
  \A t \in Clients : call_pipe[t] \/ call_claim[t] # 0
                       ~> ~call_pipe[t] /\ call_claim[t] = 0

\* The service goes round: parked callers come back, and no handler is stuck in
\* the kernel on the way.
ServiceRuns == CallReturns /\ KernelReturns

=============================================================================
