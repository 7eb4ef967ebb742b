-------------------------------- MODULE Pipe --------------------------------
(***************************************************************************)
(* One pipe connection of the SawOS kernel: its two reference columns, its *)
(* ring of exchanges, the staged queue, the handle tables of the processes *)
(* that use it and the threads parked in Call and Resolve.                 *)
(*                                                                         *)
(* The kernel is uniprocessor and a syscall runs to completion, so one     *)
(* action is one syscall.  Two things inside it loop over a table and are  *)
(* cut into mandatory kernel steps, during which no syscall is enabled:    *)
(* notify_room (one parked caller per step) and the teardown of a dying    *)
(* process (one parked thread or one handle per step).                     *)
(*                                                                         *)
(* A syscall that faults its caller before any store is the death of that  *)
(* process (end_process); one that answers WouldBlock, PeerClosed or a       *)
(* refusal before any store is a stuttering step.                          *)
(***************************************************************************)
EXTENDS Naturals, Sequences, FiniteSets

CONSTANTS Procs,       \* process slots
          NThreads,    \* thread slots are 1..NThreads; their order matters
          Home,        \* Home[t] is THREADS[t].process
          Inflight,    \* PIPE_INFLIGHT, exchanges of a connection
          MaxHandles,  \* MAX_HANDLES, entries of a handle table
          Caps,        \* transferable handles that do not name this pipe
          MsgHandles,  \* PIPE_MSG_HANDLES, handles of one message
          Mortal,      \* processes that may end
          NoProc       \* not a process

Threads == 1..NThreads
Ring    == 1..Inflight
Handles == 1..MaxHandles

ASSUME ConstantsOK ==
  /\ NThreads \in Nat
  /\ Inflight \in Nat \ {0}
  /\ MaxHandles \in Nat \ {0}
  /\ MsgHandles \in Nat
  /\ Home \in [Threads -> Procs]
  /\ Mortal \subseteq Procs
  /\ NoProc \notin Procs
  /\ IsFiniteSet(Procs)
  /\ IsFiniteSet(Caps)

VARIABLES
  table,       \* table[p][h]: PROCESSES[p].handles[h]
  live,        \* PIPES[c].state = Live
  inlet_refs,  \* PIPES[c].inlet_refs
  outlet_refs, \* PIPES[c].outlet_refs
  staged,      \* PIPES[c].staged and the next links: the queue of untaken requests
  state,       \* EXCHANGES[x].state
  reply_refs,  \* EXCHANGES[x].reply_refs, the claim column
  request_refs,\* EXCHANGES[x].request_refs, the obligation column
  caller,      \* EXCHANGES[x].caller: the thread parked on the claim, 0 if none
  held,        \* EXCHANGES[x].held: the handles the message carries
  call_pipe,   \* THREADS[t].call_pipe # 0: parked in Call for room
  call_claim,  \* THREADS[t].call_claim: the exchange t is parked on, 0 if none
  call_args,   \* the handles the send record of a room-parked call still names
  answered,    \* what the last step wrote in the frame of a thread it woke
  serving,     \* the notify_room loop has a caller to serve and a slot for it
  gone,        \* processes in state Gone
  dying        \* the process end_process is tearing down, or NoProc

tables    == <<table>>
columns   == <<live, inlet_refs, outlet_refs>>
exchanges == <<staged, state, reply_refs, request_refs, held>>
parked    == <<caller, call_pipe, call_claim, call_args>>
kernel    == <<serving, gone, dying>>
vars == <<table, live, inlet_refs, outlet_refs, staged, state, reply_refs,
          request_refs, caller, held, call_pipe, call_claim, call_args,
          answered, serving, gone, dying>>

-----------------------------------------------------------------------------
(* Handle entries: a kind and a target.                                    *)

Unbound       == <<"Unbound", 0>>
Inlet         == <<"PipeInlet", 0>>
Outlet        == <<"PipeOutlet", 0>>
Claim(x)      == <<"PipeReply", x>>
Obligation(x) == <<"PipeRequest", x>>
Cap(k)        == <<"Cap", k>>

Entry == {Unbound, Inlet, Outlet}
         \cup {Claim(x) : x \in Ring} \cup {Obligation(x) : x \in Ring}
         \cup {Cap(k) : k \in Caps}

Answers == {"None", "Ok", "PeerClosed", "Refused"}
Quiet   == [t \in Threads |-> "None"]

\* drop_reference never takes a column below zero.
Dec(n) == IF n = 0 THEN 0 ELSE n - 1

Lowest(S) == {i \in S : \A j \in S : i <= j}

Vacant(row) == {h \in Handles : row[h] = Unbound}

CapsOf(row) == {k \in Caps : \E h \in Handles : row[h] = Cap(k)}

\* The table with an entry minted at its lowest unbound index: no table at all
\* when every entry is bound.
mint_handle(row, e) == {[row EXCEPT ![h] = e] : h \in Lowest(Vacant(row))}

table_room(row, n) == Cardinality(Vacant(row)) >= n

\* The rows in which the handles of a message are bound at the lowest unbound
\* indices.
mint_staged(row, ks) ==
  UNION {{[h \in Handles |-> IF h \in F THEN Cap(f[h]) ELSE row[h]] :
             f \in {g \in [F -> ks] : \A k \in ks : \E h \in F : g[h] = k}} :
          F \in {G \in SUBSET Vacant(row) :
                    /\ Cardinality(G) = Cardinality(ks)
                    /\ \A h \in G, i \in Vacant(row) \ G : h < i}}

\* Mutant of hold_staged: the sender keeps the handles it sends.
hold_staged_copied(row, ks) == row

\* The sender's row once the handles of a message are moved out of it.
hold_staged(row, ks) ==
  [h \in Handles |-> IF \E k \in ks : row[h] = Cap(k) THEN Unbound ELSE row[h]]

unbind_handle(row, h) == [row EXCEPT ![h] = Unbound]

\* A handle word never resolves again once its entry is unbound (the generation
\* moved on), so a send record waiting for room loses the handles that leave p.
Forget(p, ks) ==
  [t \in Threads |-> IF Home[t] = p THEN call_args[t] \ ks ELSE call_args[t]]

-----------------------------------------------------------------------------
(* The ring.                                                               *)

alloc_exchange == Lowest({x \in Ring : state[x] = "Free"})

pipe_idle == \A x \in Ring : state[x] = "Free"

RoomWaiters == {t \in Threads : call_pipe[t]}

call_room_waiter == Lowest(RoomWaiters)

\* The peer of a claim cannot answer it any more.
PeerGone(x) ==
  \/ state[x] = "Taken" /\ request_refs[x] = 0
  \/ state[x] = "Staged" /\ outlet_refs = 0
  \/ state[x] = "Settled"

\* Mutants of can_settle: the obligation column or the staged queue is ignored.
can_settle_unanswered(rep, req, st) == rep = 0 /\ st # "Free"

can_settle_staged(rep, req, st) == rep = 0 /\ req = 0 /\ st # "Free"

\* Nothing names an exchange with these columns in this state.
can_settle(rep, req, st) ==
  /\ rep = 0
  /\ req = 0
  /\ st # "Free"
  /\ st = "Staged" => outlet_refs = 0

exchange_can_settle(x) == can_settle(reply_refs[x], request_refs[x], state[x])

\* Mutant of notify_room: nobody is served.
notify_room_skipped(freed) == FALSE

\* A connection whose room level may have risen serves its parked callers.
notify_room(freed) == freed /\ RoomWaiters # {}

\* Room is left once x is taken, so the notify_room loop goes round again.
room_after(x) == \E y \in Ring \ {x} : state[y] = "Free"

\* Mutant of stage: a second reference, for a handle Call does not mint.
stage_twice(x, ks) ==
  /\ held'         = [held EXCEPT ![x] = ks]
  /\ reply_refs'   = [reply_refs EXCEPT ![x] = 2]
  /\ request_refs' = [request_refs EXCEPT ![x] = 0]
  /\ state'        = [state EXCEPT ![x] = "Staged"]
  /\ staged'       = Append(staged, x)

\* A request enters the ring: its claim column is 1 and the queue names it.
stage(x, ks) ==
  /\ held'         = [held EXCEPT ![x] = ks]
  /\ reply_refs'   = [reply_refs EXCEPT ![x] = 1]
  /\ request_refs' = [request_refs EXCEPT ![x] = 0]
  /\ state'        = [state EXCEPT ![x] = "Staged"]
  /\ staged'       = Append(staged, x)

\* unref_object on a claim or an obligation, up to the settle of the exchange:
\* rep and req are the columns that remain, st the state and ks the message it
\* is left with if it does not settle.  A settle frees the pipe with its last
\* exchange and otherwise offers the slot to the callers parked for room.
unref_exchange(x, rep, req, st, ks) ==
  LET settles == can_settle(rep, req, st)
      frees   == /\ settles
                 /\ inlet_refs = 0
                 /\ outlet_refs = 0
                 /\ \A y \in Ring \ {x} : state[y] = "Free"
  IN /\ reply_refs'   = [reply_refs EXCEPT ![x] = rep]
     /\ request_refs' = [request_refs EXCEPT ![x] = req]
     /\ state' = [state EXCEPT ![x] = IF settles THEN "Free" ELSE st]
     /\ held'  = [held EXCEPT ![x] = IF settles THEN {} ELSE ks]
     /\ live'  = (live /\ ~frees)
     /\ serving' = notify_room(settles /\ live /\ ~frees)

Running(t) ==
  /\ ~serving
  /\ dying = NoProc
  /\ Home[t] \notin gone
  /\ ~call_pipe[t]
  /\ call_claim[t] = 0

-----------------------------------------------------------------------------
(* Connections and handles.                                                *)

pipe_create(t) ==
  LET p == Home[t] IN
  /\ Running(t)
  /\ ~live
  /\ \E in \in mint_handle(table[p], Inlet) :
       \E row \in mint_handle(in, Outlet) :
          table' = [table EXCEPT ![p] = row]
  /\ live' = TRUE
  /\ inlet_refs' = 1
  /\ outlet_refs' = 1
  /\ answered' = Quiet
  /\ UNCHANGED <<exchanges, parked, kernel>>

\* Only the endpoints carry the Mint right: a claim or an obligation has one
\* handle.
mint_sibling(t, h) ==
  LET p == Home[t]
      e == table[p][h]
  IN
  /\ Running(t)
  /\ e \in {Inlet, Outlet}
  /\ \E row \in mint_handle(table[p], e) : table' = [table EXCEPT ![p] = row]
  /\ inlet_refs'  = IF e = Inlet  THEN inlet_refs + 1  ELSE inlet_refs
  /\ outlet_refs' = IF e = Outlet THEN outlet_refs + 1 ELSE outlet_refs
  /\ answered' = Quiet
  /\ UNCHANGED <<live, exchanges, parked, kernel>>

\* A handle of p becomes a handle of q: process_give to a child being built, or
\* a message of another connection that carried it across.
move_entry(t, q, h) ==
  LET p == Home[t]
      e == table[p][h]
  IN
  /\ Running(t)
  /\ q \in Procs \ (gone \cup {p})
  /\ e # Unbound
  /\ \E row \in mint_handle(table[q], e) :
       table' = [table EXCEPT ![q] = row, ![p] = unbind_handle(table[p], h)]
  /\ call_args' = Forget(p, {k \in Caps : e = Cap(k)})
  /\ answered' = Quiet
  /\ UNCHANGED <<columns, exchanges, caller, call_pipe, call_claim, kernel>>

-----------------------------------------------------------------------------
(* Sending and taking.                                                     *)

SendArgs(p) == {ks \in SUBSET CapsOf(table[p]) : Cardinality(ks) <= MsgHandles}

pipe_post(t, h, ks) ==
  LET p == Home[t] IN
  /\ Running(t)
  /\ table[p][h] = Inlet
  /\ outlet_refs > 0
  /\ \E x \in alloc_exchange :
       \E row \in mint_handle(table[p], Claim(x)) :
          /\ table' = [table EXCEPT ![p] = hold_staged(row, ks)]
          /\ stage(x, ks)
  /\ call_args' = Forget(p, ks)
  /\ answered' = Quiet
  /\ UNCHANGED <<columns, caller, call_pipe, call_claim, kernel>>

\* Call with a free exchange: stage, then park on the claim, which no handle
\* names.
pipe_call(t, h, ks) ==
  LET p == Home[t] IN
  /\ Running(t)
  /\ table[p][h] = Inlet
  /\ outlet_refs > 0
  /\ \E x \in alloc_exchange :
       /\ table' = [table EXCEPT ![p] = hold_staged(table[p], ks)]
       /\ stage(x, ks)
       /\ caller' = [caller EXCEPT ![x] = t]
       /\ call_claim' = [call_claim EXCEPT ![t] = x]
  /\ call_args' = Forget(p, ks)
  /\ answered' = Quiet
  /\ UNCHANGED <<columns, call_pipe, kernel>>

\* Call with the ring full: park for room, holding nothing.
block_on_call_room(t, h, ks) ==
  /\ Running(t)
  /\ table[Home[t]][h] = Inlet
  /\ outlet_refs > 0
  /\ alloc_exchange = {}
  /\ call_pipe' = [call_pipe EXCEPT ![t] = TRUE]
  /\ call_args' = [call_args EXCEPT ![t] = ks]
  /\ answered' = Quiet
  /\ UNCHANGED <<tables, columns, exchanges, caller, call_claim, kernel>>

\* One turn of the notify_room loop: the lowest-indexed caller parked for room
\* gets the lowest free exchange.
resume_call_room ==
  /\ serving
  /\ \E t \in call_room_waiter, x \in alloc_exchange :
       LET p  == Home[t]
           ks == call_args[t]
       IN
       /\ table' = [table EXCEPT ![p] = hold_staged(table[p], ks)]
       /\ stage(x, ks)
       /\ caller' = [caller EXCEPT ![x] = t]
       /\ call_claim' = [call_claim EXCEPT ![t] = x]
       /\ call_pipe' = [call_pipe EXCEPT ![t] = FALSE]
       /\ call_args' = [Forget(p, ks) EXCEPT ![t] = {}]
       /\ serving' = (RoomWaiters # {t} /\ room_after(x))
  /\ answered' = Quiet
  /\ UNCHANGED <<columns, gone, dying>>

pipe_take(t, h) ==
  LET p == Home[t]
      x == Head(staged)
  IN
  /\ Running(t)
  /\ table[p][h] = Outlet
  /\ staged # <<>>
  /\ table_room(table[p], Cardinality(held[x]) + 1)
  /\ \E mid \in mint_handle(table[p], Obligation(x)) :
       \E row \in mint_staged(mid, held[x]) :
          table' = [table EXCEPT ![p] = row]
  /\ staged'       = Tail(staged)
  /\ held'         = [held EXCEPT ![x] = {}]
  /\ request_refs' = [request_refs EXCEPT ![x] = 1]
  /\ state'        = [state EXCEPT ![x] = "Taken"]
  /\ answered' = Quiet
  /\ UNCHANGED <<columns, reply_refs, parked, kernel>>

-----------------------------------------------------------------------------
(* Collecting a reply.                                                     *)

\* Resolve of an answered claim: the reply's handles are minted while the claim
\* is still bound; without room for them they are released with the exchange.
pipe_resolve(t, h, x) ==
  LET p == Home[t] IN
  /\ Running(t)
  /\ table[p][h] = Claim(x)
  /\ state[x] = "Replied"
  /\ IF table_room(table[p], Cardinality(held[x]))
       THEN \E row \in mint_staged(table[p], held[x]) :
              table' = [table EXCEPT ![p] = unbind_handle(row, h)]
       ELSE table' = [table EXCEPT ![p] = unbind_handle(table[p], h)]
  /\ unref_exchange(x, 0, request_refs[x], state[x], held[x])
  /\ answered' = Quiet
  /\ UNCHANGED <<inlet_refs, outlet_refs, staged, parked, gone, dying>>

\* Resolve of a claim nobody can answer consumes it.
resolve_peer_closed(t, h, x) ==
  LET p == Home[t] IN
  /\ Running(t)
  /\ table[p][h] = Claim(x)
  /\ PeerGone(x)
  /\ table' = [table EXCEPT ![p] = unbind_handle(table[p], h)]
  /\ unref_exchange(x, 0, request_refs[x], state[x], held[x])
  /\ answered' = Quiet
  /\ UNCHANGED <<inlet_refs, outlet_refs, staged, parked, gone, dying>>

\* Resolve of a claim still to be answered: the entry is unbound but its
\* reference stays, now the parked thread's.
park_resolve(t, h, x) ==
  LET p == Home[t] IN
  /\ Running(t)
  /\ table[p][h] = Claim(x)
  /\ state[x] \in {"Staged", "Taken"}
  /\ ~PeerGone(x)
  /\ table' = [table EXCEPT ![p] = unbind_handle(table[p], h)]
  /\ caller' = [caller EXCEPT ![x] = t]
  /\ call_claim' = [call_claim EXCEPT ![t] = x]
  /\ answered' = Quiet
  /\ UNCHANGED <<columns, exchanges, call_pipe, call_args, kernel>>

-----------------------------------------------------------------------------
(* Answering.                                                              *)

\* Mutant of wake_call_reply: the exchange keeps the thread's name.
wake_call_reply_tied(x, status) ==
  /\ call_claim' = [call_claim EXCEPT ![caller[x]] = 0]
  /\ answered' = [Quiet EXCEPT ![caller[x]] = status]
  /\ UNCHANGED caller

\* wake_call_reply on the caller of x: the tie is cut and the frame written.
wake_call_reply(x, status) ==
  /\ caller' = [caller EXCEPT ![x] = 0]
  /\ call_claim' = [call_claim EXCEPT ![caller[x]] = 0]
  /\ answered' = [Quiet EXCEPT ![caller[x]] = status]

\* Reply to an abandoned request only consumes the obligation.
reply_peer_closed(t, h, x) ==
  LET p == Home[t] IN
  /\ Running(t)
  /\ table[p][h] = Obligation(x)
  /\ \/ state[x] = "Taken" /\ reply_refs[x] = 0
     \/ state[x] \in {"Replied", "Settled"}
  /\ table' = [table EXCEPT ![p] = unbind_handle(table[p], h)]
  /\ unref_exchange(x, reply_refs[x], 0, state[x], held[x])
  /\ answered' = Quiet
  /\ UNCHANGED <<inlet_refs, outlet_refs, staged, parked, gone, dying>>

\* Reply to a request whose claim is a handle: the answer waits in the exchange.
pipe_reply(t, h, x, ks) ==
  LET p == Home[t] IN
  /\ Running(t)
  /\ table[p][h] = Obligation(x)
  /\ state[x] = "Taken"
  /\ reply_refs[x] # 0
  /\ caller[x] = 0
  /\ table' = [table EXCEPT ![p] = unbind_handle(hold_staged(table[p], ks), h)]
  /\ unref_exchange(x, reply_refs[x], 0, "Replied", ks)
  /\ call_args' = Forget(p, ks)
  /\ answered' = Quiet
  /\ UNCHANGED <<inlet_refs, outlet_refs, staged, caller, call_pipe,
                 call_claim, gone, dying>>

\* Reply to a parked caller: it is woken with the answer, whose handles are
\* minted in its table or, without room for them, released with the exchange;
\* then the obligation goes.
reply_to_caller(t, h, x, ks) ==
  LET p    == Home[t]
      q    == Home[caller[x]]
      sent == [table EXCEPT ![p] = hold_staged(table[p], ks)]
  IN
  /\ Running(t)
  /\ table[p][h] = Obligation(x)
  /\ state[x] = "Taken"
  /\ reply_refs[x] # 0
  /\ caller[x] # 0
  /\ IF table_room(sent[q], Cardinality(ks))
       THEN /\ \E row \in mint_staged(sent[q], ks) :
                 LET minted == [sent EXCEPT ![q] = row] IN
                 table' = [minted EXCEPT ![p] = unbind_handle(minted[p], h)]
            /\ wake_call_reply(x, "Ok")
       ELSE /\ table' = [sent EXCEPT ![p] = unbind_handle(sent[p], h)]
            /\ wake_call_reply(x, "Refused")
  /\ unref_exchange(x, Dec(reply_refs[x]), 0, "Settled", {})
  /\ call_args' = Forget(p, ks)
  /\ UNCHANGED <<inlet_refs, outlet_refs, staged, call_pipe, gone, dying>>

-----------------------------------------------------------------------------
(* Dropping a reference.  full is unref_object, which frees what nothing   *)
(* names any more; the teardown leaves that to reap_unreferenced.          *)

\* Mutant of drop_inlet: a pipe with neither end and no exchange is not freed.
drop_inlet_kept(full) ==
  /\ inlet_refs' = Dec(inlet_refs)
  /\ answered' = Quiet
  /\ UNCHANGED <<live, outlet_refs, exchanges, parked, serving>>

drop_inlet(full) ==
  /\ inlet_refs' = Dec(inlet_refs)
  /\ live' = (live /\ ~(full /\ inlet_refs = 1 /\ outlet_refs = 0 /\ pipe_idle))
  /\ answered' = Quiet
  /\ UNCHANGED <<outlet_refs, exchanges, parked, serving>>

drop_outlet(full) ==
  /\ outlet_refs # 1
  /\ outlet_refs' = Dec(outlet_refs)
  /\ answered' = Quiet
  /\ UNCHANGED <<inlet_refs, live, exchanges, parked, serving>>

\* Mutant of Doomed: notify_claims is left out.
Doomed_unnotified == {x \in Ring : state[x] = "Staged" /\ reply_refs[x] = 0}

\* The exchanges the loss of the last outlet settles.
Doomed == {x \in Ring : /\ state[x] = "Staged"
                        /\ request_refs[x] = 0
                        /\ reply_refs[x] = 0 \/ caller[x] # 0}

\* The last outlet goes: pipe_drop_staged settles the untaken requests nobody
\* waits for, notify_room answers every caller parked for room, notify_claims
\* answers every caller parked on an untaken request and so settles it.
drop_last_outlet(full) ==
  LET woken == {t \in Threads : call_pipe[t] \/ call_claim[t] \in Doomed}
  IN
  /\ outlet_refs = 1
  /\ outlet_refs' = 0
  /\ staged' = <<>>
  /\ state' = [x \in Ring |-> IF x \in Doomed THEN "Free" ELSE state[x]]
  /\ held'  = [x \in Ring |-> IF x \in Doomed THEN {} ELSE held[x]]
  /\ reply_refs' = [x \in Ring |-> IF x \in Doomed THEN 0 ELSE reply_refs[x]]
  /\ caller' = [x \in Ring |-> IF x \in Doomed THEN 0 ELSE caller[x]]
  /\ call_pipe'  = [t \in Threads |-> FALSE]
  /\ call_claim' = [t \in Threads |-> IF t \in woken THEN 0 ELSE call_claim[t]]
  /\ call_args'  = [t \in Threads |-> {}]
  /\ answered' = [t \in Threads |-> IF t \in woken THEN "PeerClosed" ELSE "None"]
  /\ live' = (live /\ ~(/\ inlet_refs = 0
                        /\ \A x \in Ring \ Doomed : state[x] = "Free"
                        /\ full \/ Doomed # {}))
  /\ UNCHANGED <<inlet_refs, request_refs, serving>>

drop_claim(x, full) ==
  /\ IF full
       THEN unref_exchange(x, Dec(reply_refs[x]), request_refs[x], state[x], held[x])
       ELSE /\ reply_refs' = [reply_refs EXCEPT ![x] = Dec(@)]
            /\ UNCHANGED <<live, request_refs, state, held, serving>>
  /\ answered' = Quiet
  /\ UNCHANGED <<inlet_refs, outlet_refs, staged, parked>>

\* Mutant of drop_obligation: the caller is not told.
drop_obligation_silent(x, full) ==
  /\ answered' = Quiet
  /\ request_refs' = [request_refs EXCEPT ![x] = Dec(@)]
  /\ UNCHANGED <<columns, staged, state, reply_refs, held, parked, serving>>

\* Dropping an obligation unanswered wakes the caller parked on the claim
\* (notify_claim), whose own reference settles the exchange even in a teardown.
drop_obligation(x, full) ==
  /\ IF request_refs[x] = 1 /\ caller[x] # 0 /\ state[x] = "Taken"
       THEN /\ wake_call_reply(x, "PeerClosed")
            /\ unref_exchange(x, Dec(reply_refs[x]), Dec(request_refs[x]), "Settled", held[x])
       ELSE /\ answered' = Quiet
            /\ UNCHANGED <<caller, call_claim>>
            /\ IF full
                 THEN unref_exchange(x, reply_refs[x], Dec(request_refs[x]), state[x], held[x])
                 ELSE /\ request_refs' = [request_refs EXCEPT ![x] = Dec(@)]
                      /\ UNCHANGED <<live, reply_refs, state, held, serving>>
  /\ UNCHANGED <<inlet_refs, outlet_refs, staged, call_pipe, call_args>>

drop_cap(p, k) ==
  /\ call_args' = Forget(p, {k})
  /\ answered' = Quiet
  /\ UNCHANGED <<columns, exchanges, caller, call_pipe, call_claim, serving>>

drop_reference(p, h, full) ==
  LET e == table[p][h] IN
  /\ table' = [table EXCEPT ![p] = unbind_handle(table[p], h)]
  /\ \/ e = Inlet /\ drop_inlet(full)
     \/ e = Outlet /\ drop_outlet(full)
     \/ e = Outlet /\ drop_last_outlet(full)
     \/ \E x \in Ring : e = Claim(x) /\ drop_claim(x, full)
     \/ \E x \in Ring : e = Obligation(x) /\ drop_obligation(x, full)
     \/ \E k \in Caps : e = Cap(k) /\ drop_cap(p, k)
  /\ UNCHANGED <<gone, dying>>

release_handle(t, h) ==
  /\ Running(t)
  /\ drop_reference(Home[t], h, TRUE)

-----------------------------------------------------------------------------
(* The end of a process.                                                   *)

\* end_process begins: the process is Gone and the first pass of
\* release_pending_calls forgets its threads parked for room.
end_process(p) ==
  /\ ~serving
  /\ dying = NoProc
  /\ p \in Mortal \ gone
  /\ gone' = gone \cup {p}
  /\ dying' = p
  /\ call_pipe' = [t \in Threads |-> Home[t] # p /\ call_pipe[t]]
  /\ call_args' = [t \in Threads |-> IF Home[t] = p THEN {} ELSE call_args[t]]
  /\ answered' = Quiet
  /\ UNCHANGED <<tables, columns, exchanges, caller, call_claim, serving>>

Orphans == {t \in Threads : Home[t] = dying /\ call_claim[t] # 0}

\* The second pass of release_pending_calls: a parked thread abandons its claim.
release_pending_calls ==
  /\ dying # NoProc
  /\ ~serving
  /\ \E t \in Lowest(Orphans) :
       LET x == call_claim[t] IN
       /\ caller' = [caller EXCEPT ![x] = 0]
       /\ call_claim' = [call_claim EXCEPT ![t] = 0]
       /\ unref_exchange(x, Dec(reply_refs[x]), request_refs[x], state[x], held[x])
  /\ answered' = Quiet
  /\ UNCHANGED <<tables, inlet_refs, outlet_refs, staged, call_pipe, call_args,
                 gone, dying>>

Bound == {h \in Handles : table[dying][h] # Unbound}

\* One handle of the close-all.
close_all ==
  /\ dying # NoProc
  /\ ~serving
  /\ Orphans = {}
  /\ \E h \in Lowest(Bound) : drop_reference(dying, h, FALSE)

\* The end of the teardown: reap_unreferenced settles every exchange and frees
\* the pipe that nothing names.  It settles by exchange_settle, not
\* settle_exchange: no caller parked for room is served.
reap_unreferenced ==
  LET reaped == {x \in Ring : exchange_can_settle(x)} IN
  /\ dying # NoProc
  /\ ~serving
  /\ Orphans = {}
  /\ Bound = {}
  /\ state' = [x \in Ring |-> IF x \in reaped THEN "Free" ELSE state[x]]
  /\ held'  = [x \in Ring |-> IF x \in reaped THEN {} ELSE held[x]]
  /\ live'  = (live /\ ~(/\ inlet_refs = 0
                         /\ outlet_refs = 0
                         /\ \A x \in Ring \ reaped : state[x] = "Free"))
  /\ dying' = NoProc
  /\ answered' = Quiet
  /\ UNCHANGED <<tables, inlet_refs, outlet_refs, staged, reply_refs,
                 request_refs, parked, serving, gone>>

-----------------------------------------------------------------------------
\* No pipe yet; each transferable handle is somewhere in some table.
Init ==
  /\ table \in [Procs -> [Handles -> {Unbound} \cup {Cap(k) : k \in Caps}]]
  /\ \A k \in Caps : \E p \in Procs, h \in Handles :
        \A q \in Procs, i \in Handles : table[q][i] = Cap(k) <=> q = p /\ i = h
  /\ live = FALSE
  /\ inlet_refs = 0
  /\ outlet_refs = 0
  /\ staged = <<>>
  /\ state = [x \in Ring |-> "Free"]
  /\ reply_refs = [x \in Ring |-> 0]
  /\ request_refs = [x \in Ring |-> 0]
  /\ caller = [x \in Ring |-> 0]
  /\ held = [x \in Ring |-> {}]
  /\ call_pipe = [t \in Threads |-> FALSE]
  /\ call_claim = [t \in Threads |-> 0]
  /\ call_args = [t \in Threads |-> {}]
  /\ answered = Quiet
  /\ serving = FALSE
  /\ gone = {}
  /\ dying = NoProc

Send(t) == \E h \in Handles : \E ks \in SendArgs(Home[t]) :
             \/ pipe_post(t, h, ks)
             \/ pipe_call(t, h, ks)
             \/ block_on_call_room(t, h, ks)

Resolve(t) == \E h \in Handles, x \in Ring :
                \/ pipe_resolve(t, h, x)
                \/ resolve_peer_closed(t, h, x)
                \/ park_resolve(t, h, x)

Reply(t) == \E h \in Handles, x \in Ring :
              \/ reply_peer_closed(t, h, x)
              \/ \E ks \in SendArgs(Home[t]) :
                   \/ pipe_reply(t, h, x, ks)
                   \/ reply_to_caller(t, h, x, ks)

Take(t) == \E h \in Handles : pipe_take(t, h)

HandleOp(t) == \/ pipe_create(t)
               \/ \E h \in Handles : \/ mint_sibling(t, h)
                                     \/ release_handle(t, h)
                                     \/ \E q \in Procs : move_entry(t, q, h)

Syscall(t) == Send(t) \/ Take(t) \/ Resolve(t) \/ Reply(t) \/ HandleOp(t)

Kernel == resume_call_room \/ release_pending_calls \/ close_all \/ reap_unreferenced

Next == \/ \E t \in Threads : Syscall(t)
        \/ \E p \in Procs : end_process(p)
        \/ Kernel

Spec == Init /\ [][Next]_vars

-----------------------------------------------------------------------------
(* Properties.                                                             *)

ExchangeStates == {"Free", "Staged", "Taken", "Replied", "Settled"}

\* Every variable holds a value the kernel's tables can hold; a claim and an
\* obligation each have one reference at most (their rights carry no Mint).
TypeOK ==
  /\ table \in [Procs -> [Handles -> Entry]]
  /\ live \in BOOLEAN
  /\ inlet_refs \in Nat
  /\ outlet_refs \in Nat
  /\ staged \in Seq(Ring)
  /\ state \in [Ring -> ExchangeStates]
  /\ reply_refs \in [Ring -> 0..1]
  /\ request_refs \in [Ring -> 0..1]
  /\ caller \in [Ring -> Threads \cup {0}]
  /\ held \in [Ring -> SUBSET Caps]
  /\ call_pipe \in [Threads -> BOOLEAN]
  /\ call_claim \in [Threads -> Ring \cup {0}]
  /\ call_args \in [Threads -> SUBSET Caps]
  /\ answered \in [Threads -> Answers]
  /\ serving \in BOOLEAN
  /\ gone \subseteq Procs
  /\ dying \in Procs \cup {NoProc}

Holders(e) == {ph \in Procs \X Handles : table[ph[1]][ph[2]] = e}

\* The reference columns are exact (refs.saw drop_reference/ref_object): each
\* counts the handles that name its object in every table, and a claim also
\* counts the thread parked on it.  A column too low frees an object in use, one
\* too high pins a ring slot for ever.
RefsExact ==
  /\ inlet_refs = Cardinality(Holders(Inlet))
  /\ outlet_refs = Cardinality(Holders(Outlet))
  /\ \A x \in Ring :
       /\ request_refs[x] = Cardinality(Holders(Obligation(x)))
       /\ reply_refs[x] = Cardinality(Holders(Claim(x)))
                          + IF caller[x] = 0 THEN 0 ELSE 1

\* What the fatal_kernel arms of pipe_resolve, pipe_ready and pipe_reply_status
\* call impossible: no claim names a free exchange, no obligation one that was
\* not taken or is already answered, no endpoint a freed pipe.
NoDangling ==
  /\ \A p \in Procs, h \in Handles :
       /\ table[p][h] \in {Inlet, Outlet} => live
       /\ \A x \in Ring : table[p][h] = Claim(x) => state[x] # "Free"
       /\ \A x \in Ring : table[p][h] = Obligation(x) => state[x] = "Taken"
  /\ ~live => pipe_idle /\ staged = <<>>

\* A thread and the exchange it is parked on name each other
\* (THREADS.call_claim and EXCHANGES.caller), so a reply reaches the thread that
\* asked, a recycled thread slot is never woken, and no exchange settles under a
\* parked caller (the fatal_kernel of exchange_settle).
CallerTie ==
  /\ \A x \in Ring : caller[x] # 0 =>
        /\ call_claim[caller[x]] = x
        /\ state[x] \in {"Staged", "Taken"}
  /\ \A t \in Threads : call_claim[t] # 0 =>
        /\ caller[call_claim[t]] = t
        /\ ~call_pipe[t]
        /\ Home[t] \notin gone \ {dying}

\* No reply and no peer-closed transition is missed by the thread parked on the
\* claim (notify_claim): while it is parked the answer can still come.
NoLostWakeup ==
  \A x \in Ring : caller[x] # 0 => state[x] # "Replied" /\ ~PeerGone(x)

\* The staged queue is exactly the untaken requests of a connection that still
\* has an outlet, each once (stage_push, stage_pop, pipe_drop_staged).
StagedQueue ==
  /\ \A i, j \in 1..Len(staged) : staged[i] = staged[j] => i = j
  /\ \A x \in Ring : (\E i \in 1..Len(staged) : staged[i] = x)
                      <=> (state[x] = "Staged" /\ outlet_refs > 0)

\* Between syscalls nothing is leaked: an exchange in use is named by a claim or
\* an obligation or is still to be taken, and a live pipe has an endpoint or an
\* exchange in use (exchange_can_settle, pipe_frees_now).
NoLeak ==
  ~serving /\ dying = NoProc =>
    /\ \A x \in Ring : ~exchange_can_settle(x)
    /\ live => inlet_refs > 0 \/ outlet_refs > 0 \/ ~pipe_idle

\* A handle is in one place at a time: one entry of one table or one message,
\* and a message in a ring slot is an untaken request or an uncollected reply
\* (hold_staged, mint_staged, take_staged).
CapsInOnePlace ==
  \A k \in Caps :
    /\ Cardinality(Holders(Cap(k))) + Cardinality({x \in Ring : k \in held[x]}) <= 1
    /\ \A x \in Ring : k \in held[x] => state[x] \in {"Staged", "Replied"}
    /\ \A t \in Threads : k \in call_args[t] =>
          call_pipe[t] /\ k \in CapsOf(table[Home[t]])

\* The detailed kernel implements the contract of a waiting thread: a call is
\* answered Ok only by the reply to the request it waits for, once; the loss of
\* the last outlet reaches every thread not yet served in that same step.
phase == [t \in Threads |->
            IF Home[t] \in gone THEN "gone"
            ELSE IF call_pipe[t] THEN "sent"
            ELSE IF call_claim[t] = 0 THEN "idle"
            ELSE IF state[call_claim[t]] = "Staged" THEN "sent" ELSE "served"]

Contract == INSTANCE CallContract WITH phase <- phase, answered <- answered

KeepsContract == Contract!CSpec

\* refs.saw notify_room: "nothing parked can be silently doomed".  A caller is
\* parked for room only while there is none and a server may still make some.
RoomWaitersFull ==
  RoomWaiters # {} /\ ~serving => alloc_exchange = {} /\ outlet_refs > 0

\* A caller is parked for room only while there is none and a server may still
\* make some, as long as every process lives (notify_room).
RoomWhileAlive == gone = {} /\ dying = NoProc => RoomWaitersFull

\* Every syscall and every teardown ends: the notify_room loop runs out of
\* callers or of room, the close-all out of handles.
KernelReturns == serving \/ dying # NoProc ~> ~serving /\ dying = NoProc

\* Nothing is left behind: no exchange or pipe that nobody names, and no caller
\* parked for room that is there (pipe_settle, notify_room).
NothingLeftBehind == NoLeak /\ RoomWhileAlive

=============================================================================
