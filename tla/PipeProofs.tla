----------------------------- MODULE PipeProofs -----------------------------
(* Proofs about Pipe, for every number of processes, threads, exchanges and  *)
(* handles: type correctness; the inductive invariant IInv and the safety    *)
(* properties it implies; and, on top of it, what a pipe owes the processes  *)
(* that use it: nothing is left behind in the ring, a handle in transit is   *)
(* in one place, and a waiting thread gets what CallContract promises.       *)
EXTENDS Pipe, FiniteSetTheorems, FunctionTheorems, WellFoundedInduction, TLAPS

Row == [Handles -> Entry]

LEMMA EntryMembers ==
  /\ Unbound \in Entry /\ Inlet \in Entry /\ Outlet \in Entry
  /\ \A x \in Ring : Claim(x) \in Entry /\ Obligation(x) \in Entry
  /\ \A k \in Caps : Cap(k) \in Entry
BY DEF Entry

\* Different kinds, or different targets, make different entries.
LEMMA EntriesDiffer ==
  /\ Unbound # Inlet /\ Unbound # Outlet /\ Inlet # Outlet
  /\ \A x : /\ Claim(x) \notin {Unbound, Inlet, Outlet}
            /\ Obligation(x) \notin {Unbound, Inlet, Outlet}
            /\ Cap(x) \notin {Unbound, Inlet, Outlet}
  /\ \A x, y : /\ Claim(x) # Obligation(y) /\ Claim(x) # Cap(y)
               /\ Obligation(x) # Cap(y)
               /\ Claim(x) = Claim(y) => x = y
               /\ Obligation(x) = Obligation(y) => x = y
               /\ Cap(x) = Cap(y) => x = y
BY DEF Unbound, Inlet, Outlet, Claim, Obligation, Cap

\* A mint binds one unbound entry and leaves the others alone.
LEMMA MintHandle ==
  ASSUME NEW row \in Row, NEW e \in Entry, NEW new \in mint_handle(row, e)
  PROVE  /\ new \in Row
         /\ \E h \in Handles : row[h] = Unbound /\ new = [row EXCEPT ![h] = e]
BY DEF mint_handle, Lowest, Vacant, Row

\* The handles of a message go to unbound entries.
LEMMA MintStaged ==
  ASSUME NEW row \in Row, NEW ks \in SUBSET Caps, NEW new \in mint_staged(row, ks)
  PROVE  /\ new \in Row
         /\ \A h \in Handles : \/ new[h] = row[h]
                               \/ row[h] = Unbound /\ \E k \in ks : new[h] = Cap(k)
BY EntryMembers DEF mint_staged, Vacant, Row

LEMMA HoldStaged ==
  ASSUME NEW row \in Row, NEW ks \in SUBSET Caps
  PROVE  /\ hold_staged(row, ks) \in Row
         /\ \A h \in Handles :
              \/ hold_staged(row, ks)[h] = row[h]
              \/ hold_staged(row, ks)[h] = Unbound /\ \E k \in ks : row[h] = Cap(k)
BY EntryMembers DEF hold_staged, Row

LEMMA UnbindHandle ==
  ASSUME NEW row \in Row, NEW h \in Handles
  PROVE  unbind_handle(row, h) \in Row
BY EntryMembers DEF unbind_handle, Row

-----------------------------------------------------------------------------
(* Type correctness.                                                       *)

LEMMA StageTypes ==
  ASSUME TypeOK, NEW x \in Ring, NEW ks \in SUBSET Caps, stage(x, ks)
  PROVE  /\ staged' \in Seq(Ring)
         /\ state' \in [Ring -> ExchangeStates]
         /\ reply_refs' \in [Ring -> 0..1]
         /\ request_refs' \in [Ring -> 0..1]
         /\ held' \in [Ring -> SUBSET Caps]
BY DEF stage, TypeOK, ExchangeStates

LEMMA UnrefTypes ==
  ASSUME TypeOK, NEW x \in Ring, NEW rep \in 0..1, NEW req \in 0..1,
         NEW st \in ExchangeStates, NEW ks \in SUBSET Caps,
         unref_exchange(x, rep, req, st, ks)
  PROVE  /\ live' \in BOOLEAN
         /\ state' \in [Ring -> ExchangeStates]
         /\ reply_refs' \in [Ring -> 0..1]
         /\ request_refs' \in [Ring -> 0..1]
         /\ held' \in [Ring -> SUBSET Caps]
         /\ serving' \in BOOLEAN
BY DEF unref_exchange, notify_room, TypeOK, ExchangeStates

LEMMA QuietType == Quiet \in [Threads -> Answers]
BY DEF Quiet, Answers

LEMMA ForgetType ==
  ASSUME TypeOK, NEW p, NEW ks
  PROVE  Forget(p, ks) \in [Threads -> SUBSET Caps]
BY DEF Forget, TypeOK

LEMMA DecType ==
  /\ \A n \in Nat : Dec(n) \in Nat
  /\ \A n \in 0..1 : Dec(n) \in 0..1
BY DEF Dec

LEMMA LowestIn == \A S : Lowest(S) \subseteq S
BY DEF Lowest

LEMMA AllocType == alloc_exchange \subseteq Ring /\ call_room_waiter \subseteq Threads
BY LowestIn DEF alloc_exchange, call_room_waiter, RoomWaiters

LEMMA TableRow == ASSUME TypeOK, NEW p \in Procs PROVE table[p] \in Row
BY DEF TypeOK, Row

LEMMA HomeType == ASSUME NEW t \in Threads PROVE Home[t] \in Procs
BY ConstantsOK

LEMMA SendArgsType ==
  ASSUME NEW p, NEW ks \in SendArgs(p) PROVE ks \in SUBSET Caps
BY DEF SendArgs, CapsOf

LEMMA TypeSend ==
  ASSUME TypeOK, NEW t \in Threads, NEW h \in Handles, NEW ks \in SUBSET Caps,
         \/ pipe_post(t, h, ks)
         \/ pipe_call(t, h, ks)
         \/ block_on_call_room(t, h, ks)
  PROVE  TypeOK'
<1> DEFINE p == Home[t]
<1>p. p \in Procs /\ table[p] \in Row
  BY HomeType, TableRow
<1>1. CASE pipe_post(t, h, ks)
  <2>1. PICK x \in Ring, row \in Row :
           table' = [table EXCEPT ![p] = hold_staged(row, ks)] /\ stage(x, ks)
    BY <1>1, <1>p, AllocType, MintHandle, EntryMembers DEF pipe_post
  <2>2. table' \in [Procs -> Row]
    BY <2>1, <1>p, HoldStaged DEF TypeOK, Row
  <2> QED BY <1>1, <2>1, <2>2, StageTypes, ForgetType, QuietType
       DEF pipe_post, TypeOK, Row, columns, kernel
<1>2. CASE pipe_call(t, h, ks)
  <2>1. PICK x \in Ring :
           /\ table' = [table EXCEPT ![p] = hold_staged(table[p], ks)]
           /\ stage(x, ks)
           /\ caller' = [caller EXCEPT ![x] = t]
           /\ call_claim' = [call_claim EXCEPT ![t] = x]
    BY <1>2, AllocType DEF pipe_call
  <2>2. table' \in [Procs -> Row]
    BY <2>1, <1>p, HoldStaged DEF TypeOK, Row
  <2> QED BY <1>2, <2>1, <2>2, StageTypes, ForgetType, QuietType
       DEF pipe_call, TypeOK, Row, columns, kernel
<1>3. CASE block_on_call_room(t, h, ks)
  BY <1>3, QuietType
     DEF block_on_call_room, TypeOK, tables, columns, exchanges, kernel
<1> QED BY <1>1, <1>2, <1>3

LEMMA TypeTake ==
  ASSUME TypeOK, NEW t \in Threads, NEW h \in Handles, pipe_take(t, h)
  PROVE  TypeOK'
<1> DEFINE p == Home[t]
           x == Head(staged)
<1>p. p \in Procs /\ table[p] \in Row
  BY HomeType, TableRow
<1>1. x \in Ring /\ Tail(staged) \in Seq(Ring) /\ held[x] \in SUBSET Caps
  BY DEF pipe_take, TypeOK
<1>2. PICK mid \in mint_handle(table[p], Obligation(x)) :
        \E row \in mint_staged(mid, held[x]) : table' = [table EXCEPT ![p] = row]
  BY DEF pipe_take
<1>3. mid \in Row
  BY <1>1, <1>p, EntryMembers, MintHandle
<1>4. PICK row \in mint_staged(mid, held[x]) : table' = [table EXCEPT ![p] = row]
  BY <1>2
<1>5. row \in Row
  BY <1>1, <1>3, MintStaged
<1>6. table' \in [Procs -> Row]
  BY <1>4, <1>5, <1>p DEF TypeOK, Row
<1> QED BY <1>1, <1>6, QuietType
     DEF pipe_take, TypeOK, ExchangeStates, Row, columns, parked, kernel

LEMMA TypeResolve ==
  ASSUME TypeOK, NEW t \in Threads, NEW h \in Handles, NEW x \in Ring,
         \/ pipe_resolve(t, h, x)
         \/ resolve_peer_closed(t, h, x)
         \/ park_resolve(t, h, x)
  PROVE  TypeOK'
<1> DEFINE p == Home[t]
<1>p. p \in Procs /\ table[p] \in Row
  BY HomeType, TableRow
<1>x. /\ held[x] \in SUBSET Caps
      /\ state[x] \in ExchangeStates
      /\ request_refs[x] \in 0..1
  BY DEF TypeOK
<1>1. CASE pipe_resolve(t, h, x)
  <2>1. table' \in [Procs -> Row]
    <3>1. CASE table_room(table[p], Cardinality(held[x]))
      <4>1. PICK row \in mint_staged(table[p], held[x]) :
               table' = [table EXCEPT ![p] = unbind_handle(row, h)]
        BY <1>1, <3>1 DEF pipe_resolve
      <4>2. unbind_handle(row, h) \in Row
        BY <1>p, <1>x, MintStaged, UnbindHandle
      <4> QED BY <4>1, <4>2, <1>p DEF TypeOK, Row
    <3>2. CASE ~table_room(table[p], Cardinality(held[x]))
      BY <1>1, <1>p, <3>2, UnbindHandle, SMTT(30) DEF pipe_resolve, TypeOK, Row
    <3> QED BY <3>1, <3>2
  <2>2. unref_exchange(x, 0, request_refs[x], state[x], held[x])
    BY <1>1 DEF pipe_resolve
  <2> QED BY <1>1, <1>x, <2>1, <2>2, UnrefTypes, QuietType
       DEF pipe_resolve, TypeOK, Row, parked
<1>2. CASE resolve_peer_closed(t, h, x)
  <2>1. table' \in [Procs -> Row]
    BY <1>2, <1>p, UnbindHandle DEF resolve_peer_closed, TypeOK, Row
  <2>2. unref_exchange(x, 0, request_refs[x], state[x], held[x])
    BY <1>2 DEF resolve_peer_closed
  <2> QED BY <1>2, <1>x, <2>1, <2>2, UnrefTypes, QuietType
       DEF resolve_peer_closed, TypeOK, Row, parked
<1>3. CASE park_resolve(t, h, x)
  <2>1. table' \in [Procs -> Row]
    BY <1>3, <1>p, UnbindHandle DEF park_resolve, TypeOK, Row
  <2> QED BY <1>3, <2>1, QuietType
       DEF park_resolve, TypeOK, Row, columns, exchanges, kernel
<1> QED BY <1>1, <1>2, <1>3

LEMMA TypeReply ==
  ASSUME TypeOK, NEW t \in Threads, NEW h \in Handles, NEW x \in Ring,
         NEW ks \in SUBSET Caps,
         \/ reply_peer_closed(t, h, x)
         \/ pipe_reply(t, h, x, ks)
         \/ reply_to_caller(t, h, x, ks)
  PROVE  TypeOK'
<1> DEFINE p == Home[t]
<1>p. p \in Procs /\ table[p] \in Row
  BY HomeType, TableRow
<1>x. /\ held[x] \in SUBSET Caps
      /\ state[x] \in ExchangeStates
      /\ reply_refs[x] \in 0..1
      /\ Dec(reply_refs[x]) \in 0..1
      /\ {"Replied", "Settled"} \subseteq ExchangeStates
  BY DecType DEF TypeOK, ExchangeStates
<1>1. CASE reply_peer_closed(t, h, x)
  <2>1. table' \in [Procs -> Row]
    BY <1>1, <1>p, UnbindHandle DEF reply_peer_closed, TypeOK, Row
  <2>2. unref_exchange(x, reply_refs[x], 0, state[x], held[x])
    BY <1>1 DEF reply_peer_closed
  <2> QED BY <1>1, <1>x, <2>1, <2>2, UnrefTypes, QuietType
       DEF reply_peer_closed, TypeOK, Row, parked
<1>2. CASE pipe_reply(t, h, x, ks)
  <2>1. table' \in [Procs -> Row]
    BY <1>2, <1>p, HoldStaged, UnbindHandle DEF pipe_reply, TypeOK, Row
  <2>2. unref_exchange(x, reply_refs[x], 0, "Replied", ks)
    BY <1>2 DEF pipe_reply
  <2> QED BY <1>2, <1>x, <2>1, <2>2, UnrefTypes, ForgetType, QuietType
       DEF pipe_reply, TypeOK, Row
<1>3. CASE reply_to_caller(t, h, x, ks)
  <2> DEFINE q == Home[caller[x]]
             sent == [table EXCEPT ![p] = hold_staged(table[p], ks)]
  <2>c. caller[x] \in Threads /\ q \in Procs
    BY <1>3, HomeType DEF reply_to_caller, TypeOK
  <2>s. sent \in [Procs -> Row]
    BY <1>p, HoldStaged DEF TypeOK, Row
  <2>1. /\ table' \in [Procs -> Row]
        /\ \E status \in Answers : wake_call_reply(x, status)
    <3>1. CASE table_room(sent[q], Cardinality(ks))
      <4>1. PICK row \in mint_staged(sent[q], ks) :
              LET minted == [sent EXCEPT ![q] = row] IN
              table' = [minted EXCEPT ![p] = unbind_handle(minted[p], h)]
        BY <1>3, <3>1 DEF reply_to_caller
      <4> DEFINE minted == [sent EXCEPT ![q] = row]
      <4>2. row \in Row
        BY <2>c, <2>s, MintStaged
      <4>3. minted \in [Procs -> Row]
        BY <4>2, <2>c, <2>s
      <4>4. unbind_handle(minted[p], h) \in Row
        BY <4>3, <1>p, UnbindHandle
      <4>5. table' \in [Procs -> Row]
        BY <4>1, <4>3, <4>4
      <4> QED BY <4>5, <1>3, <3>1 DEF reply_to_caller, Answers
    <3>2. CASE ~table_room(sent[q], Cardinality(ks))
      <4>1. table' = [sent EXCEPT ![p] = unbind_handle(sent[p], h)]
        BY <1>3, <3>2 DEF reply_to_caller
      <4>2. unbind_handle(sent[p], h) \in Row
        BY <2>s, <1>p, UnbindHandle
      <4>3. table' \in [Procs -> Row]
        BY <4>1, <4>2, <2>s
      <4> QED BY <4>3, <1>3, <3>2 DEF reply_to_caller, Answers
    <3> QED BY <3>1, <3>2
  <2>2. unref_exchange(x, Dec(reply_refs[x]), 0, "Settled", {})
    BY <1>3 DEF reply_to_caller
  <2>3. /\ caller' \in [Ring -> Threads \cup {0}]
        /\ call_claim' \in [Threads -> Ring \cup {0}]
        /\ answered' \in [Threads -> Answers]
    BY <2>1, <2>c, QuietType DEF wake_call_reply, TypeOK
  <2> QED BY <1>3, <1>x, <2>1, <2>2, <2>3, UnrefTypes, ForgetType
       DEF reply_to_caller, TypeOK, Row
<1> QED BY <1>1, <1>2, <1>3

LEMMA TypeHandle ==
  ASSUME TypeOK, NEW t \in Threads, NEW h \in Handles, NEW q \in Procs,
         \/ pipe_create(t)
         \/ mint_sibling(t, h)
         \/ move_entry(t, q, h)
  PROVE  TypeOK'
<1> DEFINE p == Home[t]
<1>p. p \in Procs /\ table[p] \in Row /\ table[p][h] \in Entry /\ table[q] \in Row
  BY HomeType, TableRow DEF Row
<1>1. CASE pipe_create(t)
  <2>1. PICK in \in mint_handle(table[p], Inlet) :
          \E row \in mint_handle(in, Outlet) : table' = [table EXCEPT ![p] = row]
    BY <1>1 DEF pipe_create
  <2>2. in \in Row
    BY <1>p, MintHandle, EntryMembers
  <2>3. PICK row \in mint_handle(in, Outlet) : table' = [table EXCEPT ![p] = row]
    BY <2>1
  <2>4. row \in Row
    BY <2>2, MintHandle, EntryMembers
  <2>5. table' \in [Procs -> Row]
    BY <2>3, <2>4, <1>p DEF TypeOK, Row
  <2> QED BY <1>1, <2>5, QuietType DEF pipe_create, TypeOK, Row, exchanges, parked, kernel
<1>2. CASE mint_sibling(t, h)
  <2>1. PICK row \in mint_handle(table[p], table[p][h]) : table' = [table EXCEPT ![p] = row]
    BY <1>2 DEF mint_sibling
  <2>2. row \in Row
    BY <1>p, MintHandle
  <2>3. table' \in [Procs -> Row]
    BY <2>1, <2>2, <1>p DEF TypeOK, Row
  <2> QED BY <1>2, <2>3, QuietType DEF mint_sibling, TypeOK, Row, exchanges, parked, kernel
<1>3. CASE move_entry(t, q, h)
  <2>1. PICK row \in mint_handle(table[q], table[p][h]) :
          table' = [table EXCEPT ![q] = row, ![p] = unbind_handle(table[p], h)]
    BY <1>3 DEF move_entry
  <2>2. row \in Row /\ unbind_handle(table[p], h) \in Row
    BY <1>p, MintHandle, UnbindHandle
  <2>3. table' \in [Procs -> Row]
    BY <2>1, <2>2, <1>p DEF TypeOK, Row
  <2> QED BY <1>3, <2>3, ForgetType, QuietType
       DEF move_entry, TypeOK, Row, columns, exchanges, kernel
<1> QED BY <1>1, <1>2, <1>3

LEMMA TypeDrop ==
  ASSUME TypeOK, NEW p \in Procs, NEW h \in Handles, NEW full \in BOOLEAN,
         drop_reference(p, h, full)
  PROVE  TypeOK'
<1>t. table' \in [Procs -> Row] /\ UNCHANGED <<gone, dying>>
  BY TableRow, UnbindHandle DEF drop_reference, TypeOK, Row
<1>1. CASE drop_inlet(full)
  BY <1>t, <1>1, QuietType, DecType DEF drop_inlet, TypeOK, Row, exchanges, parked
<1>2. CASE drop_outlet(full)
  BY <1>t, <1>2, QuietType, DecType DEF drop_outlet, TypeOK, Row, exchanges, parked
<1>3. CASE drop_last_outlet(full)
  <2>1. /\ state' \in [Ring -> ExchangeStates]
        /\ held' \in [Ring -> SUBSET Caps]
        /\ reply_refs' \in [Ring -> 0..1]
        /\ caller' \in [Ring -> Threads \cup {0}]
    BY <1>3 DEF drop_last_outlet, TypeOK, ExchangeStates
  <2>2. /\ call_pipe' \in [Threads -> BOOLEAN]
        /\ call_claim' \in [Threads -> Ring \cup {0}]
        /\ call_args' \in [Threads -> SUBSET Caps]
        /\ answered' \in [Threads -> Answers]
    BY <1>3 DEF drop_last_outlet, TypeOK, Answers
  <2>3. /\ outlet_refs' \in Nat
        /\ live' \in BOOLEAN
        /\ staged' \in Seq(Ring)
        /\ UNCHANGED <<inlet_refs, request_refs, serving>>
    BY <1>3 DEF drop_last_outlet, TypeOK
  <2> QED BY <1>t, <2>1, <2>2, <2>3 DEF TypeOK, Row
<1>4. ASSUME NEW x \in Ring, drop_claim(x, full) PROVE TypeOK'
  <2>x. /\ held[x] \in SUBSET Caps
        /\ state[x] \in ExchangeStates
        /\ Dec(reply_refs[x]) \in 0..1
        /\ request_refs[x] \in 0..1
    BY DecType DEF TypeOK
  <2>1. CASE full
    <3>1. unref_exchange(x, Dec(reply_refs[x]), request_refs[x], state[x], held[x])
      BY <2>1, <1>4 DEF drop_claim
    <3> QED BY <3>1, <1>4, <2>x, <1>t, UnrefTypes, QuietType
         DEF drop_claim, TypeOK, Row, parked
  <2>2. CASE ~full
    BY <2>2, <1>4, <2>x, <1>t, QuietType DEF drop_claim, TypeOK, Row, parked
  <2> QED BY <2>1, <2>2
<1>5. ASSUME NEW x \in Ring, drop_obligation(x, full) PROVE TypeOK'
  <2>x. /\ held[x] \in SUBSET Caps
        /\ state[x] \in ExchangeStates
        /\ "Settled" \in ExchangeStates
        /\ reply_refs[x] \in 0..1
        /\ Dec(reply_refs[x]) \in 0..1
        /\ Dec(request_refs[x]) \in 0..1
    BY DecType DEF TypeOK, ExchangeStates
  <2>1. CASE request_refs[x] = 1 /\ caller[x] # 0 /\ state[x] = "Taken"
    <3>1. /\ unref_exchange(x, Dec(reply_refs[x]), Dec(request_refs[x]), "Settled", held[x])
          /\ wake_call_reply(x, "PeerClosed")
      BY <2>1, <1>5 DEF drop_obligation
    <3>2. /\ caller' \in [Ring -> Threads \cup {0}]
          /\ call_claim' \in [Threads -> Ring \cup {0}]
          /\ answered' \in [Threads -> Answers]
      BY <2>1, <3>1, QuietType DEF wake_call_reply, TypeOK, Answers
    <3> QED BY <3>1, <3>2, <1>5, <2>x, <1>t, UnrefTypes
         DEF drop_obligation, TypeOK, Row
  <2>2. CASE ~(request_refs[x] = 1 /\ caller[x] # 0 /\ state[x] = "Taken")
    <3>1. CASE full
      <4>1. unref_exchange(x, reply_refs[x], Dec(request_refs[x]), state[x], held[x])
        BY <3>1, <2>2, <1>5 DEF drop_obligation
      <4> QED BY <4>1, <2>2, <1>5, <2>x, <1>t, UnrefTypes, QuietType
           DEF drop_obligation, TypeOK, Row
    <3>2. CASE ~full
      BY <3>2, <2>2, <1>5, <2>x, <1>t, QuietType DEF drop_obligation, TypeOK, Row
    <3> QED BY <3>1, <3>2
  <2> QED BY <2>1, <2>2
<1>6. ASSUME NEW k \in Caps, drop_cap(p, k) PROVE TypeOK'
  BY <1>6, <1>t, ForgetType, QuietType DEF drop_cap, TypeOK, Row, columns, exchanges
<1> QED BY <1>1, <1>2, <1>3, <1>4, <1>5, <1>6 DEF drop_reference

LEMMA TypeKernel ==
  ASSUME TypeOK, \/ \E p \in Procs : end_process(p)
                 \/ resume_call_room
                 \/ release_pending_calls
                 \/ reap_unreferenced
  PROVE  TypeOK'
<1>1. ASSUME NEW p \in Procs, end_process(p) PROVE TypeOK'
  BY <1>1, QuietType DEF end_process, TypeOK, tables, columns, exchanges
<1>2. CASE resume_call_room
  <2>1. PICK t \in Threads, x \in Ring :
           /\ table' = [table EXCEPT ![Home[t]] = hold_staged(table[Home[t]], call_args[t])]
           /\ stage(x, call_args[t])
           /\ caller' = [caller EXCEPT ![x] = t]
           /\ call_claim' = [call_claim EXCEPT ![t] = x]
           /\ call_pipe' = [call_pipe EXCEPT ![t] = FALSE]
           /\ call_args' = [Forget(Home[t], call_args[t]) EXCEPT ![t] = {}]
           /\ serving' = (RoomWaiters # {t} /\ room_after(x))
    BY <1>2, AllocType DEF resume_call_room
  <2>2. /\ Home[t] \in Procs
        /\ table[Home[t]] \in Row
        /\ call_args[t] \in SUBSET Caps
    BY HomeType, TableRow DEF TypeOK
  <2>3. table' \in [Procs -> Row]
    BY <2>1, <2>2, HoldStaged DEF TypeOK, Row
  <2>4. call_args' \in [Threads -> SUBSET Caps]
    BY <2>1, ForgetType
  <2> QED BY <1>2, <2>1, <2>2, <2>3, <2>4, StageTypes, QuietType
       DEF resume_call_room, TypeOK, Row, columns
<1>3. CASE release_pending_calls
  <2>1. PICK t \in Lowest(Orphans) :
          LET x == call_claim[t] IN
          /\ caller' = [caller EXCEPT ![x] = 0]
          /\ call_claim' = [call_claim EXCEPT ![t] = 0]
          /\ unref_exchange(x, Dec(reply_refs[x]), request_refs[x], state[x], held[x])
    BY <1>3 DEF release_pending_calls
  <2>2. t \in Threads /\ call_claim[t] \in Ring
    BY LowestIn DEF Orphans, TypeOK
  <2>3. /\ Dec(reply_refs[call_claim[t]]) \in 0..1
        /\ request_refs[call_claim[t]] \in 0..1
        /\ state[call_claim[t]] \in ExchangeStates
        /\ held[call_claim[t]] \in SUBSET Caps
    BY <2>2, DecType DEF TypeOK
  <2> QED BY <1>3, <2>1, <2>2, <2>3, UnrefTypes, QuietType
       DEF release_pending_calls, TypeOK, tables
<1>4. CASE reap_unreferenced
  BY <1>4, QuietType DEF reap_unreferenced, TypeOK, ExchangeStates, tables, parked
<1> QED BY <1>1, <1>2, <1>3, <1>4

LEMMA TypeStep == TypeOK /\ [Next]_vars => TypeOK'
<1> SUFFICES ASSUME TypeOK, [Next]_vars PROVE TypeOK'
  OBVIOUS
<1>1. ASSUME NEW t \in Threads, Syscall(t) PROVE TypeOK'
  <2>1. CASE Send(t)
    BY <2>1, TypeSend, SendArgsType DEF Send
  <2>2. CASE Take(t)
    BY <2>2, TypeTake DEF Take
  <2>3. CASE Resolve(t)
    BY <2>3, TypeResolve DEF Resolve
  <2>4. CASE Reply(t)
    BY <2>4, TypeReply, SendArgsType DEF Reply
  <2>5. CASE HandleOp(t)
    <3>1. CASE pipe_create(t)
      BY <3>1, TypeHandle, HomeType, ConstantsOK DEF Handles
    <3>2. ASSUME NEW h \in Handles, mint_sibling(t, h) PROVE TypeOK'
      BY <3>2, TypeHandle, HomeType
    <3>3. ASSUME NEW h \in Handles, release_handle(t, h) PROVE TypeOK'
      BY <3>3, TypeDrop, HomeType DEF release_handle
    <3>4. ASSUME NEW h \in Handles, NEW q \in Procs, move_entry(t, q, h) PROVE TypeOK'
      BY <3>4, TypeHandle
    <3> QED BY <2>5, <3>1, <3>2, <3>3, <3>4 DEF HandleOp
  <2> QED BY <1>1, <2>1, <2>2, <2>3, <2>4, <2>5 DEF Syscall
<1>2. CASE close_all
  BY <1>2, TypeDrop, LowestIn DEF close_all, Bound, TypeOK
<1>3. CASE \/ \E p \in Procs : end_process(p)
           \/ resume_call_room
           \/ release_pending_calls
           \/ reap_unreferenced
  BY <1>3, TypeKernel
<1>4. CASE UNCHANGED vars
  BY <1>4 DEF vars, TypeOK
<1> QED BY <1>1, <1>2, <1>3, <1>4 DEF Next, Kernel

LEMMA TypeInit == Init => TypeOK
<1> SUFFICES ASSUME Init PROVE TypeOK
  OBVIOUS
<1>1. {Unbound} \cup {Cap(k) : k \in Caps} \subseteq Entry
  BY EntryMembers
<1>2. table \in [Procs -> [Handles -> Entry]]
  BY <1>1 DEF Init
<1>3. /\ staged \in Seq(Ring)
      /\ state \in [Ring -> ExchangeStates]
      /\ reply_refs \in [Ring -> 0..1]
      /\ request_refs \in [Ring -> 0..1]
      /\ caller \in [Ring -> Threads \cup {0}]
      /\ held \in [Ring -> SUBSET Caps]
  BY DEF Init, ExchangeStates
<1>4. /\ call_pipe \in [Threads -> BOOLEAN]
      /\ call_claim \in [Threads -> Ring \cup {0}]
      /\ call_args \in [Threads -> SUBSET Caps]
      /\ answered \in [Threads -> Answers]
  BY QuietType DEF Init
<1> QED BY <1>2, <1>3, <1>4 DEF Init, TypeOK

\* Type correctness of the connection, its ring, its parked threads and the
\* handle tables, whatever the syscalls and deaths.
THEOREM TypeCorrect == Spec => []TypeOK
BY TypeInit, TypeStep, PTL DEF Spec

-----------------------------------------------------------------------------
(* The inductive invariant, and the safety properties it implies.          *)

\* Columns against holders.
RefInv ==
  /\ inlet_refs = Cardinality(Holders(Inlet))
  /\ outlet_refs = Cardinality(Holders(Outlet))
  /\ \A x \in Ring :
       /\ \A a, b \in Holders(Claim(x)) : a = b
       /\ \A a, b \in Holders(Obligation(x)) : a = b
       /\ reply_refs[x] = 0 <=> caller[x] = 0 /\ Holders(Claim(x)) = {}
       /\ caller[x] # 0 => Holders(Claim(x)) = {}
       /\ request_refs[x] = 0 <=> Holders(Obligation(x)) = {}

\* The life of an exchange against its columns, and of the pipe against both.
LifeInv ==
  /\ \A x \in Ring :
       /\ request_refs[x] # 0 => state[x] = "Taken"
       /\ reply_refs[x] # 0 => state[x] # "Free"
       /\ state[x] # "Settled"
  /\ ~live => pipe_idle /\ inlet_refs = 0 /\ outlet_refs = 0

\* Who may be parked for room.
RoomInv == \A t \in Threads : call_pipe[t] =>
             /\ outlet_refs > 0
             /\ call_claim[t] = 0
             /\ Home[t] \notin gone

IInv ==
  /\ TypeOK
  /\ RefInv
  /\ LifeInv
  /\ RoomInv
  /\ CallerTie
  /\ NoLostWakeup
  /\ StagedQueue

-----------------------------------------------------------------------------
(* How the steps on a table move the holders of an entry.                  *)

\* Entries that name the pipe or an exchange.
Named == {Inlet, Outlet} \cup {Claim(x) : x \in Ring} \cup {Obligation(x) : x \in Ring}

LEMMA NamedMembers ==
  /\ Inlet \in Named /\ Outlet \in Named
  /\ \A x \in Ring : Claim(x) \in Named /\ Obligation(x) \in Named
  /\ Unbound \notin Named
  /\ \A k : Cap(k) \notin Named
  /\ Named \subseteq Entry
BY EntriesDiffer, EntryMembers DEF Named

LEMMA HoldersFinite == \A e : IsFiniteSet(Holders(e))
<1>1. IsFiniteSet(Handles)
  BY FS_Interval, ConstantsOK DEF Handles
<1>2. IsFiniteSet(Procs \X Handles)
  BY <1>1, FS_Product, ConstantsOK
<1>3. \A e : Holders(e) \subseteq Procs \X Handles
  BY DEF Holders
<1> QED BY <1>2, <1>3, FS_Subset

\* A row that differs only in what it says of caps has the same holders.
LEMMA HoldersSame ==
  ASSUME TypeOK, NEW p \in Procs, NEW row \in Row,
         table' = [table EXCEPT ![p] = row],
         \A h \in Handles : \A e \in Named : row[h] = e <=> table[p][h] = e
  PROVE  \A e \in Named : Holders(e)' = Holders(e)
BY DEF Holders, TypeOK

LEMMA NotHolder ==
  ASSUME NEW p \in Procs, NEW h \in Handles, NEW e
  PROVE  <<p, h>> \in Holders(e) <=> table[p][h] = e
BY DEF Holders

-----------------------------------------------------------------------------
(* What the two ring operations preserve, given what the caller does to the  *)
(* holders and to the tie of the exchange.                                   *)

ExchangeHoldersSame(y) ==
  /\ Holders(Claim(y))' = Holders(Claim(y))
  /\ Holders(Obligation(y))' = Holders(Obligation(y))

EndpointHoldersSame ==
  /\ Holders(Inlet)' = Holders(Inlet)
  /\ Holders(Outlet)' = Holders(Outlet)

LEMMA UnrefKeeps ==
  ASSUME IInv, NEW x \in Ring, NEW rep \in 0..1, NEW req \in 0..1,
         NEW st \in ExchangeStates, NEW ks,
         unref_exchange(x, rep, req, st, ks),
         UNCHANGED <<inlet_refs, outlet_refs, staged>>,
         EndpointHoldersSame,
         \A y \in Ring \ {x} : ExchangeHoldersSame(y) /\ caller'[y] = caller[y],
         \A a, b \in Holders(Claim(x))' : a = b,
         \A a, b \in Holders(Obligation(x))' : a = b,
         rep = 0 <=> caller'[x] = 0 /\ Holders(Claim(x))' = {},
         req = 0 <=> Holders(Obligation(x))' = {},
         caller'[x] # 0 => Holders(Claim(x))' = {},
         req # 0 => st = "Taken",
         rep # 0 => st # "Free",
         req # 0 => request_refs[x] # 0,
         rep # 0 => reply_refs[x] # 0,
         st = "Settled" => rep = 0 /\ req = 0,
         st = "Free" => state[x] = "Free",
         st = "Staged" <=> state[x] = "Staged",
         caller'[x] # 0 => /\ st = "Staged" => outlet_refs > 0
                           /\ st = "Taken" => req # 0
                           /\ st # "Replied"
  PROVE  RefInv' /\ LifeInv' /\ NoLostWakeup' /\ StagedQueue'
<1>t. /\ state \in [Ring -> ExchangeStates]
      /\ reply_refs \in [Ring -> 0..1]
      /\ request_refs \in [Ring -> 0..1]
      /\ outlet_refs \in Nat
      /\ staged \in Seq(Ring)
  BY DEF IInv, TypeOK
<1> DEFINE settles == can_settle(rep, req, st)
<1>1. /\ reply_refs' = [reply_refs EXCEPT ![x] = rep]
      /\ request_refs' = [request_refs EXCEPT ![x] = req]
      /\ state' = [state EXCEPT ![x] = IF settles THEN "Free" ELSE st]
      /\ settles => rep = 0 /\ req = 0 /\ (st = "Staged" => outlet_refs = 0)
      /\ ~settles => rep # 0 \/ req # 0 \/ st = "Free" \/ (st = "Staged" /\ outlet_refs # 0)
  BY DEF unref_exchange, can_settle
<1>2. RefInv'
  BY <1>1, <1>t DEF RefInv, IInv, EndpointHoldersSame, ExchangeHoldersSame
<1>3. LifeInv'
  <2>1. \A y \in Ring : /\ request_refs'[y] # 0 => state'[y] = "Taken"
                        /\ reply_refs'[y] # 0 => state'[y] # "Free"
                        /\ state'[y] # "Settled"
    BY <1>1, <1>t DEF IInv, LifeInv
  <2>2. ~live' => (\A y \in Ring : state'[y] = "Free") /\ inlet_refs = 0 /\ outlet_refs = 0
    <3>1. CASE live
      BY <1>1, <1>t, <3>1 DEF unref_exchange
    <3>2. CASE ~live
      <4>1. /\ \A y \in Ring : state[y] = "Free"
            /\ inlet_refs = 0 /\ outlet_refs = 0
        BY <3>2 DEF IInv, LifeInv, pipe_idle
      <4>2. st = "Free" \/ settles
        BY <1>1, <4>1, <1>t DEF IInv, LifeInv, RefInv
      <4> QED BY <1>1, <1>t, <4>1, <4>2
    <3> QED BY <3>1, <3>2
  <2> QED BY <2>1, <2>2 DEF LifeInv, pipe_idle
<1>4. NoLostWakeup'
  <2> SUFFICES ASSUME NEW y \in Ring, caller'[y] # 0
               PROVE  state'[y] # "Replied" /\ ~PeerGone(y)'
    BY DEF NoLostWakeup
  <2>1. CASE y = x
    BY <1>1, <1>t, <2>1 DEF PeerGone
  <2>2. CASE y # x
    BY <1>1, <1>t, <2>2 DEF PeerGone, IInv, NoLostWakeup
  <2> QED BY <2>1, <2>2
<1>5. StagedQueue'
  <2>1. \A y \in Ring : (state'[y] = "Staged" /\ outlet_refs > 0)
                          <=> (state[y] = "Staged" /\ outlet_refs > 0)
    BY <1>1, <1>t
  <2> QED BY <2>1 DEF StagedQueue, IInv
<1> QED BY <1>2, <1>3, <1>4, <1>5

LEMMA StageKeeps ==
  ASSUME IInv, NEW x \in Ring, NEW ks, stage(x, ks),
         state[x] = "Free", outlet_refs > 0,
         UNCHANGED <<inlet_refs, outlet_refs, live>>,
         EndpointHoldersSame,
         \A y \in Ring \ {x} : ExchangeHoldersSame(y) /\ caller'[y] = caller[y],
         Holders(Obligation(x))' = Holders(Obligation(x)),
         \A a, b \in Holders(Claim(x))' : a = b,
         caller'[x] # 0 \/ Holders(Claim(x))' # {},
         caller'[x] # 0 => Holders(Claim(x))' = {}
  PROVE  RefInv' /\ LifeInv' /\ NoLostWakeup' /\ StagedQueue'
<1>t. /\ state \in [Ring -> ExchangeStates]
      /\ reply_refs \in [Ring -> 0..1]
      /\ request_refs \in [Ring -> 0..1]
      /\ outlet_refs \in Nat
      /\ staged \in Seq(Ring)
  BY DEF IInv, TypeOK
<1>1. /\ reply_refs' = [reply_refs EXCEPT ![x] = 1]
      /\ request_refs' = [request_refs EXCEPT ![x] = 0]
      /\ state' = [state EXCEPT ![x] = "Staged"]
      /\ staged' = Append(staged, x)
  BY DEF stage
<1>0. request_refs[x] = 0 /\ Holders(Obligation(x)) = {}
  BY <1>t DEF IInv, LifeInv, RefInv
<1>2. RefInv'
  BY <1>0, <1>1, <1>t DEF RefInv, IInv, EndpointHoldersSame, ExchangeHoldersSame
<1>3. LifeInv'
  <2>1. live
    BY DEF IInv, LifeInv
  <2>2. \A y \in Ring : /\ request_refs'[y] # 0 => state'[y] = "Taken"
                        /\ reply_refs'[y] # 0 => state'[y] # "Free"
                        /\ state'[y] # "Settled"
    BY <1>1, <1>t DEF IInv, LifeInv
  <2> QED BY <2>1, <2>2 DEF LifeInv
<1>4. NoLostWakeup'
  BY <1>1, <1>t DEF PeerGone, IInv, NoLostWakeup
<1>5. StagedQueue'
  <2>1. /\ Len(staged') = Len(staged) + 1
        /\ \A i \in 1..Len(staged) : staged'[i] = staged[i]
        /\ staged'[Len(staged) + 1] = x
        /\ \A i \in 1..Len(staged) : staged[i] \in Ring
        /\ Len(staged) \in Nat
    BY <1>1, <1>t
  <2>2. \A i \in 1..Len(staged) : staged[i] # x
    BY DEF IInv, StagedQueue
  <2>3. \A i, j \in 1..Len(staged') : staged'[i] = staged'[j] => i = j
    BY <2>1, <2>2 DEF IInv, StagedQueue
  <2>4. \A y \in Ring : (\E i \in 1..Len(staged') : staged'[i] = y)
                          <=> y = x \/ \E i \in 1..Len(staged) : staged[i] = y
    BY <2>1
  <2>5. \A y \in Ring : state'[y] = "Staged" <=> y = x \/ state[y] = "Staged"
    BY <1>1, <1>t
  <2> QED BY <2>3, <2>4, <2>5 DEF IInv, StagedQueue
<1> QED BY <1>2, <1>3, <1>4, <1>5

-----------------------------------------------------------------------------
(* The same, row by row.                                                   *)

LEMMA RowHold ==
  ASSUME NEW row \in Row, NEW ks \in SUBSET Caps
  PROVE  \A h \in Handles : \A e \in Named : hold_staged(row, ks)[h] = e <=> row[h] = e
BY HoldStaged, NamedMembers

LEMMA RowMintStaged ==
  ASSUME NEW row \in Row, NEW ks \in SUBSET Caps, NEW new \in mint_staged(row, ks)
  PROVE  \A h \in Handles : \A e \in Named : new[h] = e <=> row[h] = e
BY MintStaged, NamedMembers

LEMMA RowMint ==
  ASSUME NEW row \in Row, NEW f \in Named, NEW new \in mint_handle(row, f)
  PROVE  /\ new \in Row
         /\ \E h \in Handles :
              /\ row[h] = Unbound
              /\ \A i \in Handles : \A e \in Named :
                    new[i] = e <=> row[i] = e \/ (i = h /\ e = f)
<1>1. f \in Entry
  BY NamedMembers
<1>2. PICK h \in Handles : row[h] = Unbound /\ new = [row EXCEPT ![h] = f]
  BY <1>1, MintHandle
<1> QED BY <1>1, <1>2, MintHandle, NamedMembers DEF Row

LEMMA RowUnbind ==
  ASSUME NEW row \in Row, NEW h \in Handles
  PROVE  \A i \in Handles : \A e \in Named :
            unbind_handle(row, h)[i] = e <=> row[i] = e /\ i # h
BY NamedMembers DEF unbind_handle, Row

\* An unbound entry holds nothing.
LEMMA UnboundNotHolder ==
  ASSUME NEW p \in Procs, NEW h \in Handles, table[p][h] = Unbound, NEW e \in Named
  PROVE  <<p, h>> \notin Holders(e)
BY NamedMembers DEF Holders

-----------------------------------------------------------------------------
(* Sending.                                                                *)

LEMMA FreeExchange ==
  ASSUME NEW x \in alloc_exchange PROVE x \in Ring /\ state[x] = "Free"
BY LowestIn DEF alloc_exchange

\* A free exchange has no holder and no caller.
LEMMA FreeUnnamed ==
  ASSUME IInv, NEW x \in Ring, state[x] = "Free"
  PROVE  /\ Holders(Claim(x)) = {}
         /\ Holders(Obligation(x)) = {}
         /\ caller[x] = 0
<1>1. reply_refs[x] = 0 /\ request_refs[x] = 0
  BY DEF IInv, LifeInv, TypeOK
<1> QED BY <1>1 DEF IInv, RefInv

LEMMA InvPost ==
  ASSUME IInv, NEW t \in Threads, NEW h \in Handles, NEW ks \in SUBSET Caps,
         pipe_post(t, h, ks)
  PROVE  RefInv' /\ LifeInv' /\ RoomInv' /\ CallerTie' /\ NoLostWakeup' /\ StagedQueue'
<1> DEFINE p == Home[t]
<1>p. p \in Procs /\ table[p] \in Row
  BY HomeType, TableRow DEF IInv
<1>0. PICK x \in alloc_exchange :
         \E row \in mint_handle(table[p], Claim(x)) :
            table' = [table EXCEPT ![p] = hold_staged(row, ks)] /\ stage(x, ks)
  BY DEF pipe_post
<1>1. PICK row \in mint_handle(table[p], Claim(x)) :
         table' = [table EXCEPT ![p] = hold_staged(row, ks)] /\ stage(x, ks)
  BY <1>0
<1>2. x \in Ring /\ state[x] = "Free" /\ Claim(x) \in Named
  BY FreeExchange, NamedMembers
<1>3. PICK g \in Handles :
         /\ row \in Row
         /\ \A i \in Handles : \A e \in Named :
              row[i] = e <=> table[p][i] = e \/ (i = g /\ e = Claim(x))
  BY <1>p, <1>2, RowMint
<1>4. /\ hold_staged(row, ks) \in Row
      /\ \A i \in Handles : \A e \in Named :
           hold_staged(row, ks)[i] = e <=> table[p][i] = e \/ (i = g /\ e = Claim(x))
  BY <1>3, HoldStaged, RowHold
<1>5. /\ Holders(Claim(x))' = Holders(Claim(x)) \cup {<<p, g>>}
      /\ \A e \in Named : e # Claim(x) => Holders(e)' = Holders(e)
  <2> DEFINE new == hold_staged(row, ks)
  <2>1. TypeOK /\ new \in Row /\ table' = [table EXCEPT ![p] = new]
    BY <1>1, <1>4 DEF IInv
  <2>2. \A i \in Handles : \A e \in Named :
           new[i] = e <=> (table[p][i] = e \/ (i = g /\ e = Claim(x)))
    BY <1>4
  <2>3. /\ g \in Handles
        /\ p \in Procs
        /\ Claim(x) \in Named
    BY <1>2, <1>p
  <2> HIDE DEF new, p
  <2> QED BY <2>1, <2>2, <2>3 DEF Holders, TypeOK
<1>6. /\ EndpointHoldersSame
      /\ \A y \in Ring \ {x} : ExchangeHoldersSame(y)
      /\ Holders(Obligation(x))' = Holders(Obligation(x))
      /\ Holders(Claim(x))' = {<<p, g>>}
  BY <1>2, <1>5, NamedMembers, EntriesDiffer, FreeUnnamed
     DEF EndpointHoldersSame, ExchangeHoldersSame
<1>7. UNCHANGED <<inlet_refs, outlet_refs, live, caller, call_pipe, call_claim, gone, dying>>
  BY DEF pipe_post, columns, kernel
<1>8. RefInv' /\ LifeInv' /\ NoLostWakeup' /\ StagedQueue'
  <2>1. caller'[x] = 0
    BY <1>2, <1>7, FreeUnnamed
  <2>2. outlet_refs > 0
    BY DEF pipe_post
  <2> QED BY <1>1, <1>2, <1>6, <1>7, <2>1, <2>2, StageKeeps
<1>9. \A y \in Ring : caller[y] # 0 => state'[y] = state[y]
  BY <1>1, <1>2, FreeUnnamed DEF stage, IInv, TypeOK
<1> QED BY <1>7, <1>8, <1>9 DEF IInv, RoomInv, CallerTie

\* What parking thread t on the freshly staged exchange x leaves true.
LEMMA InvTie ==
  ASSUME IInv, NEW t \in Threads, NEW x \in Ring, NEW ks \in SUBSET Caps,
         state[x] = "Free", outlet_refs > 0, call_claim[t] = 0, Home[t] \notin gone,
         table' = [table EXCEPT ![Home[t]] = hold_staged(table[Home[t]], ks)],
         stage(x, ks),
         caller' = [caller EXCEPT ![x] = t],
         call_claim' = [call_claim EXCEPT ![t] = x],
         call_pipe' = [call_pipe EXCEPT ![t] = FALSE],
         UNCHANGED <<columns, gone, dying>>
  PROVE  RefInv' /\ LifeInv' /\ RoomInv' /\ CallerTie' /\ NoLostWakeup' /\ StagedQueue'
<1> DEFINE p == Home[t]
<1>p. p \in Procs /\ table[p] \in Row
  BY HomeType, TableRow DEF IInv
<1>t. /\ caller \in [Ring -> Threads \cup {0}]
      /\ call_claim \in [Threads -> Ring \cup {0}]
      /\ call_pipe \in [Threads -> BOOLEAN]
      /\ state \in [Ring -> ExchangeStates]
      /\ t # 0 /\ x # 0
  BY DEF IInv, TypeOK, Threads, Ring
<1>1. \A e \in Named : Holders(e)' = Holders(e)
  <2> DEFINE new == hold_staged(table[p], ks)
  <2>1. TypeOK /\ new \in Row /\ table' = [table EXCEPT ![p] = new]
    BY <1>p, HoldStaged DEF IInv
  <2>2. \A i \in Handles : \A e \in Named : new[i] = e <=> table[p][i] = e
    BY <1>p, RowHold
  <2> HIDE DEF new
  <2> QED BY <1>p, <2>1, <2>2, HoldersSame, ZenonT(60)
<1>2. /\ EndpointHoldersSame
      /\ \A y \in Ring : ExchangeHoldersSame(y)
  BY <1>1, NamedMembers DEF EndpointHoldersSame, ExchangeHoldersSame
<1>3. Holders(Claim(x))' = {} /\ caller[x] = 0
  BY <1>2, FreeUnnamed DEF ExchangeHoldersSame
<1>4. RefInv' /\ LifeInv' /\ NoLostWakeup' /\ StagedQueue'
  BY <1>2, <1>3, <1>t, StageKeeps DEF columns, ExchangeHoldersSame
<1>5. RoomInv'
  BY <1>t DEF IInv, RoomInv, columns
<1>6. CallerTie'
  <2>1. ASSUME NEW y \in Ring, caller'[y] # 0
        PROVE  call_claim'[caller'[y]] = y /\ state'[y] \in {"Staged", "Taken"}
    <3>1. CASE y = x
      BY <3>1, <1>t DEF stage
    <3>2. CASE y # x
      <4>1. caller'[y] = caller[y] /\ state'[y] = state[y] /\ caller[y] \in Threads
        BY <2>1, <3>2, <1>t DEF stage
      <4>2. call_claim[caller[y]] = y /\ state[y] \in {"Staged", "Taken"}
        BY <2>1, <4>1 DEF IInv, CallerTie
      <4>3. caller[y] # t
        BY <4>2, <1>t DEF Ring
      <4> QED BY <4>1, <4>2, <4>3, <1>t
    <3> QED BY <3>1, <3>2
  <2>2. ASSUME NEW u \in Threads, call_claim'[u] # 0
        PROVE  /\ caller'[call_claim'[u]] = u
               /\ ~call_pipe'[u]
               /\ Home[u] \notin gone' \ {dying'}
    <3>1. CASE u = t
      BY <3>1, <1>t
    <3>2. CASE u # t
      <4>1. call_claim'[u] = call_claim[u] /\ call_claim[u] \in Ring /\ call_pipe'[u] = call_pipe[u]
        BY <2>2, <3>2, <1>t
      <4>2. /\ caller[call_claim[u]] = u
            /\ ~call_pipe[u]
            /\ Home[u] \notin gone \ {dying}
        BY <2>2, <4>1 DEF IInv, CallerTie
      <4>3. call_claim[u] # x
        BY <4>2, <1>3 DEF Threads
      <4> QED BY <4>1, <4>2, <4>3, <1>t
    <3> QED BY <3>1, <3>2
  <2> QED BY <2>1, <2>2 DEF CallerTie
<1> QED BY <1>4, <1>5, <1>6

LEMMA InvCall ==
  ASSUME IInv, NEW t \in Threads, NEW h \in Handles, NEW ks \in SUBSET Caps,
         pipe_call(t, h, ks)
  PROVE  RefInv' /\ LifeInv' /\ RoomInv' /\ CallerTie' /\ NoLostWakeup' /\ StagedQueue'
<1>1. PICK x \in alloc_exchange :
         /\ table' = [table EXCEPT ![Home[t]] = hold_staged(table[Home[t]], ks)]
         /\ stage(x, ks)
         /\ caller' = [caller EXCEPT ![x] = t]
         /\ call_claim' = [call_claim EXCEPT ![t] = x]
  BY DEF pipe_call
<1>2. /\ call_pipe' = [call_pipe EXCEPT ![t] = FALSE]
      /\ call_claim[t] = 0
      /\ Home[t] \notin gone
      /\ outlet_refs > 0
      /\ UNCHANGED <<columns, gone, dying>>
  BY DEF pipe_call, Running, IInv, TypeOK, kernel
<1> QED BY <1>1, <1>2, FreeExchange, InvTie

LEMMA InvResume ==
  ASSUME IInv, resume_call_room
  PROVE  RefInv' /\ LifeInv' /\ RoomInv' /\ CallerTie' /\ NoLostWakeup' /\ StagedQueue'
<1>1. PICK t \in call_room_waiter, x \in alloc_exchange :
         /\ table' = [table EXCEPT ![Home[t]] = hold_staged(table[Home[t]], call_args[t])]
         /\ stage(x, call_args[t])
         /\ caller' = [caller EXCEPT ![x] = t]
         /\ call_claim' = [call_claim EXCEPT ![t] = x]
         /\ call_pipe' = [call_pipe EXCEPT ![t] = FALSE]
  BY DEF resume_call_room
<1>2. t \in Threads /\ call_pipe[t]
  BY LowestIn DEF call_room_waiter, RoomWaiters
<1>3. /\ call_claim[t] = 0
      /\ Home[t] \notin gone
      /\ outlet_refs > 0
      /\ call_args[t] \in SUBSET Caps
      /\ UNCHANGED <<columns, gone, dying>>
  BY <1>2 DEF resume_call_room, IInv, RoomInv, TypeOK
<1> QED BY <1>1, <1>2, <1>3, FreeExchange, InvTie

LEMMA InvBlock ==
  ASSUME IInv, NEW t \in Threads, NEW h \in Handles, NEW ks \in SUBSET Caps,
         block_on_call_room(t, h, ks)
  PROVE  RefInv' /\ LifeInv' /\ RoomInv' /\ CallerTie' /\ NoLostWakeup' /\ StagedQueue'
<1>1. /\ UNCHANGED <<table, live, inlet_refs, outlet_refs, staged, state, reply_refs,
                     request_refs, held, caller, call_claim, gone, dying>>
      /\ call_pipe' = [call_pipe EXCEPT ![t] = TRUE]
      /\ outlet_refs > 0 /\ call_claim[t] = 0 /\ Home[t] \notin gone
  BY DEF block_on_call_room, Running, tables, columns, exchanges, kernel
<1>2. \A e : Holders(e)' = Holders(e)
  BY <1>1 DEF Holders
<1>3. RefInv' /\ LifeInv'
  BY <1>1, <1>2 DEF IInv, RefInv, LifeInv, pipe_idle
<1>4. RoomInv'
  BY <1>1 DEF IInv, RoomInv, TypeOK
<1>5. CallerTie' /\ NoLostWakeup' /\ StagedQueue'
  BY <1>1 DEF IInv, CallerTie, NoLostWakeup, StagedQueue, PeerGone, TypeOK
<1> QED BY <1>3, <1>4, <1>5

-----------------------------------------------------------------------------
(* Taking a request.                                                       *)

LEMMA InvTake ==
  ASSUME IInv, NEW t \in Threads, NEW h \in Handles, pipe_take(t, h)
  PROVE  RefInv' /\ LifeInv' /\ RoomInv' /\ CallerTie' /\ NoLostWakeup' /\ StagedQueue'
<1> DEFINE p == Home[t]
<1>p. p \in Procs /\ table[p] \in Row
  BY HomeType, TableRow DEF IInv
<1>t. /\ staged \in Seq(Ring) /\ staged # <<>>
      /\ state \in [Ring -> ExchangeStates]
      /\ request_refs \in [Ring -> 0..1]
      /\ held \in [Ring -> SUBSET Caps]
      /\ outlet_refs \in Nat
  BY DEF pipe_take, IInv, TypeOK
<1>0. PICK x \in Ring : x = Head(staged)
  BY <1>t
<1>1. /\ x \in Ring
      /\ 1 \in 1..Len(staged) /\ staged[1] = x
      /\ Len(Tail(staged)) = Len(staged) - 1
      /\ Len(staged) \in Nat
      /\ \A i \in 1..(Len(staged) - 1) : Tail(staged)[i] = staged[i + 1]
  BY <1>t, <1>0
<1>2. state[x] = "Staged" /\ outlet_refs > 0
  BY <1>1 DEF IInv, StagedQueue
<1>3. request_refs[x] = 0 /\ Holders(Obligation(x)) = {}
  BY <1>1, <1>2 DEF IInv, LifeInv, RefInv
<1>4. PICK mid \in mint_handle(table[p], Obligation(x)) :
        \E row \in mint_staged(mid, held[x]) : table' = [table EXCEPT ![p] = row]
  BY <1>0 DEF pipe_take
<1>5. PICK row \in mint_staged(mid, held[x]) : table' = [table EXCEPT ![p] = row]
  BY <1>4
<1>6. Obligation(x) \in Named /\ held[x] \in SUBSET Caps
  BY <1>1, <1>t, NamedMembers
<1>7. PICK g \in Handles :
         /\ mid \in Row
         /\ \A i \in Handles : \A e \in Named :
              mid[i] = e <=> table[p][i] = e \/ (i = g /\ e = Obligation(x))
  BY <1>p, <1>6, RowMint
<1>8. /\ row \in Row
      /\ \A i \in Handles : \A e \in Named :
           row[i] = e <=> (table[p][i] = e \/ (i = g /\ e = Obligation(x)))
  BY <1>6, <1>7, MintStaged, RowMintStaged
<1>9. /\ Holders(Obligation(x))' = {<<p, g>>}
      /\ \A e \in Named : e # Obligation(x) => Holders(e)' = Holders(e)
  <2>1. TypeOK /\ g \in Handles /\ p \in Procs
    BY <1>p DEF IInv
  <2> HIDE DEF p
  <2> QED BY <2>1, <1>3, <1>5, <1>6, <1>8 DEF Holders, TypeOK
<1>10. /\ \A y \in Ring : Holders(Claim(y))' = Holders(Claim(y))
       /\ \A y \in Ring \ {x} : Holders(Obligation(y))' = Holders(Obligation(y))
       /\ Holders(Inlet)' = Holders(Inlet)
       /\ Holders(Outlet)' = Holders(Outlet)
  BY <1>1, <1>9, NamedMembers, EntriesDiffer
<1>11. /\ staged' = Tail(staged)
       /\ request_refs' = [request_refs EXCEPT ![x] = 1]
       /\ state' = [state EXCEPT ![x] = "Taken"]
       /\ UNCHANGED <<live, inlet_refs, outlet_refs, reply_refs, caller, call_pipe,
                      call_claim, gone, dying>>
  BY <1>0 DEF pipe_take, columns, parked, kernel
<1> HIDE DEF p
<1>12. RefInv'
  <2>1. /\ \A a, b \in Holders(Obligation(x))' : a = b
        /\ Holders(Obligation(x))' # {}
    BY <1>9
  <2>2. request_refs'[x] = 1 /\ \A y \in Ring \ {x} : request_refs'[y] = request_refs[y]
    BY <1>1, <1>t, <1>11
  <2> QED BY <2>1, <2>2, <1>10, <1>11 DEF IInv, RefInv
<1>13. LifeInv'
  BY <1>1, <1>2, <1>t, <1>11 DEF IInv, LifeInv, pipe_idle
<1>14. RoomInv' /\ CallerTie'
  BY <1>1, <1>t, <1>11 DEF IInv, RoomInv, CallerTie
<1>15. NoLostWakeup'
  BY <1>1, <1>t, <1>11 DEF IInv, NoLostWakeup, PeerGone
<1>16. StagedQueue'
  <2>1. \A i, j \in 1..Len(staged) : staged[i] = staged[j] => i = j
    BY DEF IInv, StagedQueue
  <2>2. \A i, j \in 1..Len(staged') : staged'[i] = staged'[j] => i = j
    BY <2>1, <1>1, <1>11
  <2>3. \A y \in Ring : (\E i \in 1..Len(staged') : staged'[i] = y)
                          <=> y # x /\ \E i \in 1..Len(staged) : staged[i] = y
    <3> TAKE y \in Ring
    <3>1. ASSUME NEW i \in 1..Len(staged'), staged'[i] = y
          PROVE  y # x /\ \E j \in 1..Len(staged) : staged[j] = y
      <4>1. i + 1 \in 1..Len(staged) /\ staged[i + 1] = y /\ i + 1 # 1
        BY <3>1, <1>1, <1>11
      <4> QED BY <4>1, <2>1, <1>1
    <3>2. ASSUME y # x, NEW j \in 1..Len(staged), staged[j] = y
          PROVE  \E i \in 1..Len(staged') : staged'[i] = y
      <4>1. j # 1
        BY <3>2, <1>1
      <4>2. j - 1 \in 1..Len(staged') /\ staged'[j - 1] = y
        BY <4>1, <3>2, <1>1, <1>11
      <4> QED BY <4>2
    <3> QED BY <3>1, <3>2
  <2>4. \A y \in Ring : state'[y] = "Staged" <=> y # x /\ state[y] = "Staged"
    BY <1>1, <1>t, <1>11
  <2> QED BY <2>2, <2>3, <2>4, <1>11 DEF IInv, StagedQueue
<1> QED BY <1>12, <1>13, <1>14, <1>15, <1>16

-----------------------------------------------------------------------------
(* Unbinding one handle.                                                   *)

\* The step's only effect on entries that name the pipe or an exchange.
OnlyUnbinds(p, h) ==
  \A q \in Procs, i \in Handles : \A e \in Named :
     table'[q][i] = e <=> (table[q][i] = e /\ <<q, i>> # <<p, h>>)

LEMMA UnbindHolders ==
  ASSUME NEW p, NEW h, OnlyUnbinds(p, h), NEW e \in Named
  PROVE  Holders(e)' = Holders(e) \ {<<p, h>>}
BY DEF OnlyUnbinds, Holders

LEMMA ClaimGone ==
  ASSUME IInv, NEW p \in Procs, NEW h \in Handles, NEW x \in Ring,
         table[p][h] = Claim(x), OnlyUnbinds(p, h)
  PROVE  /\ EndpointHoldersSame
         /\ \A y \in Ring \ {x} : ExchangeHoldersSame(y)
         /\ Holders(Claim(x))' = {}
         /\ Holders(Obligation(x))' = Holders(Obligation(x))
         /\ caller[x] = 0
         /\ reply_refs[x] = 1
         /\ state[x] # "Free"
<1>1. <<p, h>> \in Holders(Claim(x))
  BY NotHolder
<1>2. \A e : e # Claim(x) => <<p, h>> \notin Holders(e)
  BY NotHolder
<1>3. \A e \in Named : e # Claim(x) => Holders(e)' = Holders(e)
  BY <1>2, UnbindHolders, SMTT(30)
<1>4. Holders(Claim(x))' = Holders(Claim(x)) \ {<<p, h>>}
  BY UnbindHolders, NamedMembers
<1>5. Holders(Claim(x))' = {}
  BY <1>1, <1>4 DEF IInv, RefInv
<1>6. caller[x] = 0 /\ reply_refs[x] = 1 /\ state[x] # "Free"
  BY <1>1 DEF IInv, RefInv, LifeInv, TypeOK
<1> QED BY <1>3, <1>5, <1>6, NamedMembers, EntriesDiffer
     DEF EndpointHoldersSame, ExchangeHoldersSame

LEMMA ObligationGone ==
  ASSUME IInv, NEW p \in Procs, NEW h \in Handles, NEW x \in Ring,
         table[p][h] = Obligation(x), OnlyUnbinds(p, h)
  PROVE  /\ EndpointHoldersSame
         /\ \A y \in Ring \ {x} : ExchangeHoldersSame(y)
         /\ Holders(Obligation(x))' = {}
         /\ Holders(Claim(x))' = Holders(Claim(x))
         /\ request_refs[x] = 1
         /\ state[x] = "Taken"
<1>1. <<p, h>> \in Holders(Obligation(x))
  BY NotHolder
<1>2. \A e : e # Obligation(x) => <<p, h>> \notin Holders(e)
  BY NotHolder
<1>3. \A e \in Named : e # Obligation(x) => Holders(e)' = Holders(e)
  BY <1>2, UnbindHolders, SMTT(30)
<1>4. Holders(Obligation(x))' = Holders(Obligation(x)) \ {<<p, h>>}
  BY UnbindHolders, NamedMembers
<1>5. Holders(Obligation(x))' = {}
  BY <1>1, <1>4 DEF IInv, RefInv
<1>6. request_refs[x] = 1 /\ state[x] = "Taken"
  BY <1>1 DEF IInv, RefInv, LifeInv, TypeOK
<1> QED BY <1>3, <1>5, <1>6, NamedMembers, EntriesDiffer
     DEF EndpointHoldersSame, ExchangeHoldersSame

\* Without a caller on x, the tie is as it was.
LEMMA UntiedTie ==
  ASSUME IInv, NEW x \in Ring, caller[x] = 0,
         \A y \in Ring \ {x} : state'[y] = state[y],
         UNCHANGED <<outlet_refs, caller, call_pipe, call_claim, gone, dying>>
  PROVE  RoomInv' /\ CallerTie'
BY DEF IInv, RoomInv, CallerTie

LEMMA UnrefOthers ==
  ASSUME TypeOK, NEW x \in Ring, NEW rep, NEW req, NEW st, NEW ks,
         unref_exchange(x, rep, req, st, ks)
  PROVE  \A y \in Ring \ {x} : state'[y] = state[y]
BY DEF unref_exchange, TypeOK

\* The caller of x is woken: its tie is cut at both ends.
LEMMA WokenTie ==
  ASSUME IInv, NEW x \in Ring, caller[x] # 0,
         \A y \in Ring \ {x} : state'[y] = state[y],
         caller' = [caller EXCEPT ![x] = 0],
         call_claim' = [call_claim EXCEPT ![caller[x]] = 0],
         UNCHANGED <<outlet_refs, call_pipe, gone, dying>>
  PROVE  RoomInv' /\ CallerTie'
<1>t. /\ caller \in [Ring -> Threads \cup {0}]
      /\ call_claim \in [Threads -> Ring \cup {0}]
      /\ caller[x] \in Threads
      /\ call_claim[caller[x]] = x
  BY DEF IInv, TypeOK, CallerTie
<1>1. RoomInv'
  BY <1>t DEF IInv, RoomInv
<1>2. ASSUME NEW y \in Ring, caller'[y] # 0
      PROVE  call_claim'[caller'[y]] = y /\ state'[y] \in {"Staged", "Taken"}
  <2>1. y # x /\ caller'[y] = caller[y] /\ state'[y] = state[y] /\ caller[y] \in Threads
    BY <1>2, <1>t
  <2>2. call_claim[caller[y]] = y /\ state[y] \in {"Staged", "Taken"}
    BY <1>2, <2>1 DEF IInv, CallerTie
  <2> QED BY <2>1, <2>2, <1>t
<1>3. ASSUME NEW u \in Threads, call_claim'[u] # 0
      PROVE  /\ caller'[call_claim'[u]] = u
             /\ ~call_pipe'[u]
             /\ Home[u] \notin gone' \ {dying'}
  <2>1. u # caller[x] /\ call_claim'[u] = call_claim[u] /\ call_claim[u] \in Ring
    BY <1>3, <1>t
  <2>2. caller[call_claim[u]] = u /\ ~call_pipe[u] /\ Home[u] \notin gone \ {dying}
    BY <1>3, <2>1 DEF IInv, CallerTie
  <2> QED BY <2>1, <2>2, <1>t
<1> QED BY <1>1, <1>2, <1>3 DEF CallerTie

-----------------------------------------------------------------------------
(* Collecting a reply and answering.                                       *)

\* A row whose named entries are those of the old one but for one index.
LEMMA RowOnlyUnbinds ==
  ASSUME TypeOK, NEW p \in Procs, NEW h \in Handles, NEW row,
         table' = [table EXCEPT ![p] = row],
         \A i \in Handles : \A e \in Named : row[i] = e <=> (table[p][i] = e /\ i # h)
  PROVE  OnlyUnbinds(p, h)
BY DEF OnlyUnbinds, TypeOK

LEMMA UnbindOnly ==
  ASSUME TypeOK, NEW p \in Procs, NEW h \in Handles,
         table' = [table EXCEPT ![p] = unbind_handle(table[p], h)]
  PROVE  OnlyUnbinds(p, h)
<1> DEFINE row == unbind_handle(table[p], h)
<1>1. \A i \in Handles : \A e \in Named : row[i] = e <=> (table[p][i] = e /\ i # h)
  BY RowUnbind, TableRow
<1>2. table' = [table EXCEPT ![p] = row]
  OBVIOUS
<1> HIDE DEF row
<1> QED BY <1>1, <1>2, RowOnlyUnbinds

\* A claim is consumed by the thread that names it, whoever its peer is.
LEMMA ClaimConsumed ==
  ASSUME IInv, NEW p \in Procs, NEW h \in Handles, NEW x \in Ring, NEW ks,
         table[p][h] = Claim(x), OnlyUnbinds(p, h),
         unref_exchange(x, 0, request_refs[x], state[x], ks),
         UNCHANGED <<inlet_refs, outlet_refs, staged, caller, call_pipe, call_claim,
                     gone, dying>>
  PROVE  RefInv' /\ LifeInv' /\ RoomInv' /\ CallerTie' /\ NoLostWakeup' /\ StagedQueue'
<1>1. /\ EndpointHoldersSame
      /\ \A y \in Ring \ {x} : ExchangeHoldersSame(y)
      /\ Holders(Claim(x))' = {}
      /\ Holders(Obligation(x))' = Holders(Obligation(x))
      /\ caller[x] = 0
      /\ state[x] # "Free"
  BY ClaimGone
<1>2. /\ request_refs[x] \in 0..1
      /\ state[x] \in ExchangeStates
      /\ state[x] # "Settled"
      /\ request_refs[x] # 0 => state[x] = "Taken"
      /\ request_refs[x] = 0 <=> Holders(Obligation(x)) = {}
      /\ \A a, b \in Holders(Obligation(x)) : a = b
  BY DEF IInv, TypeOK, LifeInv, RefInv
<1>3. RefInv' /\ LifeInv' /\ NoLostWakeup' /\ StagedQueue'
  <2> DEFINE req == request_refs[x]
             st == state[x]
  <2>0. 0 \in 0..1
    OBVIOUS
  <2> QED BY <2>0, <1>1, <1>2, UnrefKeeps
<1>4. RoomInv' /\ CallerTie'
  BY <1>1, UnrefOthers, UntiedTie DEF IInv
<1> QED BY <1>3, <1>4

LEMMA InvResolve ==
  ASSUME IInv, NEW t \in Threads, NEW h \in Handles, NEW x \in Ring,
         pipe_resolve(t, h, x) \/ resolve_peer_closed(t, h, x)
  PROVE  RefInv' /\ LifeInv' /\ RoomInv' /\ CallerTie' /\ NoLostWakeup' /\ StagedQueue'
<1> DEFINE p == Home[t]
<1>p. p \in Procs /\ table[p] \in Row /\ TypeOK /\ held[x] \in SUBSET Caps
  BY HomeType, TableRow DEF IInv, TypeOK
<1>1. /\ table[p][h] = Claim(x)
      /\ unref_exchange(x, 0, request_refs[x], state[x], held[x])
      /\ UNCHANGED <<inlet_refs, outlet_refs, staged, caller, call_pipe, call_claim,
                     gone, dying>>
  BY DEF pipe_resolve, resolve_peer_closed, parked
<1>2. CASE table' = [table EXCEPT ![p] = unbind_handle(table[p], h)]
  BY <1>1, <1>2, <1>p, UnbindOnly, ClaimConsumed
<1>3. CASE \E row \in mint_staged(table[p], held[x]) :
              table' = [table EXCEPT ![p] = unbind_handle(row, h)]
  <2>1. PICK row \in mint_staged(table[p], held[x]) :
              table' = [table EXCEPT ![p] = unbind_handle(row, h)]
    BY <1>3
  <2> DEFINE new == unbind_handle(row, h)
  <2>2. row \in Row /\ \A i \in Handles : \A e \in Named : row[i] = e <=> table[p][i] = e
    BY <1>p, MintStaged, RowMintStaged
  <2>3. \A i \in Handles : \A e \in Named : new[i] = e <=> (table[p][i] = e /\ i # h)
    BY <2>2, RowUnbind
  <2>4. table' = [table EXCEPT ![p] = new]
    BY <2>1
  <2> HIDE DEF new
  <2>5. OnlyUnbinds(p, h)
    BY <2>3, <2>4, <1>p, RowOnlyUnbinds
  <2> QED BY <2>5, <1>1, <1>p, ClaimConsumed
<1> QED BY <1>2, <1>3 DEF pipe_resolve, resolve_peer_closed

LEMMA InvParkResolve ==
  ASSUME IInv, NEW t \in Threads, NEW h \in Handles, NEW x \in Ring,
         park_resolve(t, h, x)
  PROVE  RefInv' /\ LifeInv' /\ RoomInv' /\ CallerTie' /\ NoLostWakeup' /\ StagedQueue'
<1> DEFINE p == Home[t]
<1>p. p \in Procs /\ TypeOK
  BY HomeType DEF IInv
<1>0. /\ table[p][h] = Claim(x)
      /\ table' = [table EXCEPT ![p] = unbind_handle(table[p], h)]
      /\ state[x] \in {"Staged", "Taken"} /\ ~PeerGone(x)
      /\ caller' = [caller EXCEPT ![x] = t]
      /\ call_claim' = [call_claim EXCEPT ![t] = x]
      /\ ~call_pipe[t] /\ call_claim[t] = 0 /\ Home[t] \notin gone
      /\ UNCHANGED <<live, inlet_refs, outlet_refs, staged, state, reply_refs,
                     request_refs, call_pipe, gone, dying>>
  BY DEF park_resolve, Running, columns, exchanges, kernel
<1>1. /\ EndpointHoldersSame
      /\ \A y \in Ring \ {x} : ExchangeHoldersSame(y)
      /\ Holders(Claim(x))' = {}
      /\ Holders(Obligation(x))' = Holders(Obligation(x))
      /\ caller[x] = 0
      /\ reply_refs[x] = 1
  BY <1>0, <1>p, UnbindOnly, ClaimGone
<1>t. /\ caller \in [Ring -> Threads \cup {0}]
      /\ call_claim \in [Threads -> Ring \cup {0}]
      /\ t # 0 /\ x # 0
      /\ \A y \in Ring : y # 0
      /\ \A u \in Threads : u # 0
  BY DEF IInv, TypeOK, Threads, Ring
<1> HIDE DEF p
<1>2. caller'[x] = t /\ \A y \in Ring \ {x} : caller'[y] = caller[y]
  BY <1>0, <1>t
<1>3. RefInv'
  BY <1>0, <1>1, <1>2, <1>t DEF IInv, RefInv, EndpointHoldersSame, ExchangeHoldersSame
<1>4. LifeInv' /\ RoomInv' /\ StagedQueue'
  <2>1. RoomInv'
    BY <1>0, <1>t DEF IInv, RoomInv
  <2> QED BY <2>1, <1>0 DEF IInv, LifeInv, pipe_idle, StagedQueue
<1>5. NoLostWakeup'
  BY <1>0, <1>2 DEF IInv, NoLostWakeup, PeerGone
<1>6. CallerTie'
  <2>1. ASSUME NEW y \in Ring, caller'[y] # 0
        PROVE  call_claim'[caller'[y]] = y /\ state'[y] \in {"Staged", "Taken"}
    <3>1. CASE y = x
      BY <3>1, <1>0, <1>2, <1>t
    <3>2. CASE y # x
      <4>1. caller'[y] = caller[y] /\ caller[y] \in Threads
        BY <2>1, <3>2, <1>2, <1>t
      <4>2. call_claim[caller[y]] = y /\ state[y] \in {"Staged", "Taken"}
        BY <2>1, <4>1 DEF IInv, CallerTie
      <4>3. caller[y] # t
        BY <4>2, <1>0, <1>t
      <4> QED BY <4>1, <4>2, <4>3, <1>0, <1>t
    <3> QED BY <3>1, <3>2
  <2>2. ASSUME NEW u \in Threads, call_claim'[u] # 0
        PROVE  /\ caller'[call_claim'[u]] = u
               /\ ~call_pipe'[u]
               /\ Home[u] \notin gone' \ {dying'}
    <3>1. CASE u = t
      BY <3>1, <1>0, <1>t
    <3>2. CASE u # t
      <4>1. call_claim'[u] = call_claim[u] /\ call_claim[u] \in Ring
        BY <2>2, <3>2, <1>0, <1>t
      <4>2. caller[call_claim[u]] = u /\ ~call_pipe[u] /\ Home[u] \notin gone \ {dying}
        BY <2>2, <4>1 DEF IInv, CallerTie
      <4>3. call_claim[u] # x
        BY <4>2, <1>1, <1>t
      <4> QED BY <4>1, <4>2, <4>3, <1>0, <1>2
    <3> QED BY <3>1, <3>2
  <2> QED BY <2>1, <2>2 DEF CallerTie
<1> QED BY <1>3, <1>4, <1>5, <1>6

\* An obligation goes and nobody is parked on the claim.
LEMMA ObligationConsumed ==
  ASSUME IInv, NEW p \in Procs, NEW h \in Handles, NEW x \in Ring,
         NEW st \in {"Taken", "Replied"}, NEW ks,
         table[p][h] = Obligation(x), OnlyUnbinds(p, h), caller[x] = 0,
         unref_exchange(x, reply_refs[x], 0, st, ks),
         UNCHANGED <<inlet_refs, outlet_refs, staged, caller, call_pipe, call_claim,
                     gone, dying>>
  PROVE  RefInv' /\ LifeInv' /\ RoomInv' /\ CallerTie' /\ NoLostWakeup' /\ StagedQueue'
<1>1. /\ EndpointHoldersSame
      /\ \A y \in Ring \ {x} : ExchangeHoldersSame(y)
      /\ Holders(Obligation(x))' = {}
      /\ Holders(Claim(x))' = Holders(Claim(x))
      /\ state[x] = "Taken"
  BY ObligationGone
<1>2. /\ reply_refs[x] \in 0..1
      /\ 0 \in 0..1
      /\ st \in ExchangeStates
      /\ reply_refs[x] = 0 <=> caller[x] = 0 /\ Holders(Claim(x)) = {}
      /\ \A a, b \in Holders(Claim(x)) : a = b
  BY DEF IInv, TypeOK, RefInv, ExchangeStates
<1>3. RefInv' /\ LifeInv' /\ NoLostWakeup' /\ StagedQueue'
  BY <1>1, <1>2, UnrefKeeps
<1>4. RoomInv' /\ CallerTie'
  BY UnrefOthers, UntiedTie DEF IInv
<1> QED BY <1>3, <1>4

\* An obligation goes and the caller parked on the claim is woken.
LEMMA ObligationWakes ==
  ASSUME IInv, NEW p \in Procs, NEW h \in Handles, NEW x \in Ring, NEW ks,
         table[p][h] = Obligation(x), OnlyUnbinds(p, h), caller[x] # 0,
         unref_exchange(x, Dec(reply_refs[x]), 0, "Settled", ks),
         caller' = [caller EXCEPT ![x] = 0],
         call_claim' = [call_claim EXCEPT ![caller[x]] = 0],
         UNCHANGED <<inlet_refs, outlet_refs, staged, call_pipe, gone, dying>>
  PROVE  RefInv' /\ LifeInv' /\ RoomInv' /\ CallerTie' /\ NoLostWakeup' /\ StagedQueue'
<1>1. /\ EndpointHoldersSame
      /\ \A y \in Ring \ {x} : ExchangeHoldersSame(y)
      /\ Holders(Obligation(x))' = {}
      /\ Holders(Claim(x))' = Holders(Claim(x))
      /\ state[x] = "Taken"
  BY ObligationGone
<1>2. /\ Dec(reply_refs[x]) = 0
      /\ 0 \in 0..1
      /\ "Settled" \in ExchangeStates
      /\ Holders(Claim(x)) = {}
  BY DEF IInv, TypeOK, RefInv, ExchangeStates, Dec
<1>3. caller'[x] = 0 /\ \A y \in Ring \ {x} : caller'[y] = caller[y]
  BY DEF IInv, TypeOK
<1>4. unref_exchange(x, 0, 0, "Settled", ks)
  BY <1>2
<1>5. RefInv' /\ LifeInv' /\ NoLostWakeup' /\ StagedQueue'
  BY <1>1, <1>2, <1>3, <1>4, UnrefKeeps
<1>6. RoomInv' /\ CallerTie'
  BY <1>4, UnrefOthers, WokenTie DEF IInv
<1> QED BY <1>5, <1>6

LEMMA InvReply ==
  ASSUME IInv, NEW t \in Threads, NEW h \in Handles, NEW x \in Ring,
         NEW ks \in SUBSET Caps,
         reply_peer_closed(t, h, x) \/ pipe_reply(t, h, x, ks)
  PROVE  RefInv' /\ LifeInv' /\ RoomInv' /\ CallerTie' /\ NoLostWakeup' /\ StagedQueue'
<1> DEFINE p == Home[t]
<1>p. p \in Procs /\ table[p] \in Row /\ TypeOK
  BY HomeType, TableRow DEF IInv
<1>1. CASE reply_peer_closed(t, h, x)
  <2>1. /\ table[p][h] = Obligation(x)
        /\ table' = [table EXCEPT ![p] = unbind_handle(table[p], h)]
        /\ unref_exchange(x, reply_refs[x], 0, state[x], held[x])
        /\ UNCHANGED <<inlet_refs, outlet_refs, staged, caller, call_pipe, call_claim,
                       gone, dying>>
    BY <1>1 DEF reply_peer_closed, parked
  <2>2. OnlyUnbinds(p, h)
    BY <2>1, <1>p, UnbindOnly
  <2>3. state[x] = "Taken"
    BY <2>1, <2>2, <1>p, ObligationGone
  <2>4. caller[x] = 0
    BY <1>1, <2>3 DEF reply_peer_closed, IInv, RefInv
  <2> QED BY <2>1, <2>2, <2>3, <2>4, <1>p, ObligationConsumed
<1>2. CASE pipe_reply(t, h, x, ks)
  <2> DEFINE held_row == hold_staged(table[p], ks)
             new == unbind_handle(held_row, h)
  <2>1. /\ table[p][h] = Obligation(x)
        /\ table' = [table EXCEPT ![p] = new]
        /\ unref_exchange(x, reply_refs[x], 0, "Replied", ks)
        /\ caller[x] = 0
        /\ UNCHANGED <<inlet_refs, outlet_refs, staged, caller, call_pipe, call_claim,
                       gone, dying>>
    BY <1>2 DEF pipe_reply
  <2>2. held_row \in Row /\ \A i \in Handles : \A e \in Named : held_row[i] = e <=> table[p][i] = e
    BY <1>p, HoldStaged, RowHold
  <2> HIDE DEF held_row
  <2>3. \A i \in Handles : \A e \in Named : new[i] = e <=> (table[p][i] = e /\ i # h)
    BY <2>2, RowUnbind
  <2> HIDE DEF new
  <2>4. OnlyUnbinds(p, h)
    BY <2>1, <2>3, <1>p, RowOnlyUnbinds, ZenonT(60)
  <2> QED BY <2>1, <2>4, <1>p, ObligationConsumed
<1> QED BY <1>1, <1>2

LEMMA InvReplyToCaller ==
  ASSUME IInv, NEW t \in Threads, NEW h \in Handles, NEW x \in Ring,
         NEW ks \in SUBSET Caps, reply_to_caller(t, h, x, ks)
  PROVE  RefInv' /\ LifeInv' /\ RoomInv' /\ CallerTie' /\ NoLostWakeup' /\ StagedQueue'
<1> DEFINE p == Home[t]
           q == Home[caller[x]]
           sent == [table EXCEPT ![p] = hold_staged(table[p], ks)]
<1>p. p \in Procs /\ table[p] \in Row /\ TypeOK
  BY HomeType, TableRow DEF IInv
<1>q. caller[x] \in Threads /\ q \in Procs
  BY HomeType DEF reply_to_caller, IInv, TypeOK
<1>s. /\ sent \in [Procs -> Row]
      /\ \A r \in Procs, i \in Handles : \A e \in Named : sent[r][i] = e <=> table[r][i] = e
  <2> DEFINE new == hold_staged(table[p], ks)
  <2>1. new \in Row /\ \A i \in Handles : \A e \in Named : new[i] = e <=> table[p][i] = e
    BY <1>p, HoldStaged, RowHold
  <2>2. table \in [Procs -> Row] /\ sent = [table EXCEPT ![p] = new]
    BY <1>p DEF TypeOK, Row
  <2> HIDE DEF new, sent
  <2> QED BY <1>p, <2>1, <2>2
<1>1. /\ table[p][h] = Obligation(x)
      /\ caller[x] # 0
      /\ caller' = [caller EXCEPT ![x] = 0]
      /\ call_claim' = [call_claim EXCEPT ![caller[x]] = 0]
      /\ unref_exchange(x, Dec(reply_refs[x]), 0, "Settled", {})
      /\ UNCHANGED <<inlet_refs, outlet_refs, staged, call_pipe, gone, dying>>
  BY DEF reply_to_caller, wake_call_reply
<1>2. \E minted \in [Procs -> Row] :
         /\ \A r \in Procs, i \in Handles : \A e \in Named : minted[r][i] = e <=> sent[r][i] = e
         /\ table' = [minted EXCEPT ![p] = unbind_handle(minted[p], h)]
  <2>1. CASE table_room(sent[q], Cardinality(ks))
    <3>1. PICK row \in mint_staged(sent[q], ks) :
            LET minted == [sent EXCEPT ![q] = row] IN
            table' = [minted EXCEPT ![p] = unbind_handle(minted[p], h)]
      BY <2>1 DEF reply_to_caller
    <3> HIDE DEF sent, q, p
    <3>2. row \in Row /\ \A i \in Handles : \A e \in Named : row[i] = e <=> sent[q][i] = e
      BY <1>q, <1>s, MintStaged, RowMintStaged
    <3> DEFINE minted == [sent EXCEPT ![q] = row]
    <3>3. /\ minted \in [Procs -> Row]
          /\ \A r \in Procs, i \in Handles : \A e \in Named : minted[r][i] = e <=> sent[r][i] = e
      BY <3>2, <1>q, <1>s
    <3> QED BY <3>1, <3>3
  <2>2. CASE ~table_room(sent[q], Cardinality(ks))
    <3>1. table' = [sent EXCEPT ![p] = unbind_handle(sent[p], h)]
      BY <2>2 DEF reply_to_caller
    <3> HIDE DEF sent, q, p
    <3> QED BY <3>1, <1>s
  <2> QED BY <2>1, <2>2
<1>3. OnlyUnbinds(p, h)
  <2> HIDE DEF sent, p
  <2>1. PICK minted \in [Procs -> Row] :
          /\ \A r \in Procs, i \in Handles : \A e \in Named : minted[r][i] = e <=> sent[r][i] = e
          /\ table' = [minted EXCEPT ![p] = unbind_handle(minted[p], h)]
    BY <1>2
  <2> DEFINE new == unbind_handle(minted[p], h)
  <2>2. \A i \in Handles : \A e \in Named : new[i] = e <=> minted[p][i] = e /\ i # h
    BY <2>1, <1>p, RowUnbind
  <2>3. table' = [minted EXCEPT ![p] = new]
    BY <2>1
  <2> HIDE DEF new
  <2> QED BY <2>1, <2>2, <2>3, <1>p, <1>s DEF OnlyUnbinds
<1> QED BY <1>1, <1>3, <1>p, ObligationWakes

-----------------------------------------------------------------------------
(* Handles of the two ends.                                                *)

LEMMA HoldersCount ==
  ASSUME NEW e
  PROVE  /\ Cardinality(Holders(e)) \in Nat
         /\ Cardinality(Holders(e)) = 0 <=> Holders(e) = {}
         /\ \A a \in Holders(e) :
              Cardinality(Holders(e) \ {a}) = Cardinality(Holders(e)) - 1
         /\ \A a : a \notin Holders(e) =>
              Cardinality(Holders(e) \cup {a}) = Cardinality(Holders(e)) + 1
<1>1. IsFiniteSet(Holders(e))
  BY HoldersFinite
<1>2. \A a : a \notin Holders(e) =>
         Cardinality(Holders(e) \cup {a}) = Cardinality(Holders(e)) + 1
  BY <1>1, FS_AddElement
<1>3. \A a \in Holders(e) : Cardinality(Holders(e) \ {a}) = Cardinality(Holders(e)) - 1
  BY <1>1, FS_RemoveElement
<1>4. Cardinality(Holders(e)) = 0 <=> Holders(e) = {}
  BY <1>1, FS_EmptySet
<1> QED BY <1>1, <1>2, <1>3, <1>4, FS_CardinalityType

\* The holder of an end keeps its column above zero and the pipe live.
LEMMA HolderCounted ==
  ASSUME IInv, NEW p \in Procs, NEW h \in Handles
  PROVE  /\ table[p][h] = Inlet => inlet_refs > 0 /\ live
         /\ table[p][h] = Outlet => outlet_refs > 0 /\ live
<1>1. table[p][h] = Inlet => Cardinality(Holders(Inlet)) # 0
  BY HoldersCount, NotHolder
<1>2. table[p][h] = Outlet => Cardinality(Holders(Outlet)) # 0
  BY HoldersCount, NotHolder
<1> QED BY <1>1, <1>2 DEF IInv, RefInv, LifeInv, TypeOK

LEMMA InvCreate ==
  ASSUME IInv, NEW t \in Threads, pipe_create(t)
  PROVE  RefInv' /\ LifeInv' /\ RoomInv' /\ CallerTie' /\ NoLostWakeup' /\ StagedQueue'
<1> DEFINE p == Home[t]
<1>p. p \in Procs /\ table[p] \in Row /\ TypeOK
  BY HomeType, TableRow DEF IInv
<1>1. /\ ~live
      /\ live' /\ inlet_refs' = 1 /\ outlet_refs' = 1
      /\ UNCHANGED <<staged, state, reply_refs, request_refs, caller, call_pipe,
                     call_claim, gone, dying>>
  BY DEF pipe_create, exchanges, parked, kernel
<1>2. /\ \A x \in Ring : state[x] = "Free"
      /\ Holders(Inlet) = {} /\ Holders(Outlet) = {}
      /\ outlet_refs = 0
  BY <1>1, HoldersCount DEF IInv, LifeInv, RefInv, pipe_idle
<1>3. PICK in \in mint_handle(table[p], Inlet) :
         \E row \in mint_handle(in, Outlet) : table' = [table EXCEPT ![p] = row]
  BY DEF pipe_create
<1>4. PICK row \in mint_handle(in, Outlet) : table' = [table EXCEPT ![p] = row]
  BY <1>3
<1> HIDE DEF p
<1>5. PICK a \in Handles : in \in Row /\ \A i \in Handles : \A e \in Named :
         in[i] = e <=> table[p][i] = e \/ (i = a /\ e = Inlet)
  BY <1>p, RowMint, NamedMembers
<1>6. PICK b \in Handles : row \in Row /\ \A i \in Handles : \A e \in Named :
         row[i] = e <=> in[i] = e \/ (i = b /\ e = Outlet)
  BY <1>5, RowMint, NamedMembers
<1>7. \A i \in Handles : \A e \in Named :
         row[i] = e <=> (table[p][i] = e \/ (i = a /\ e = Inlet) \/ (i = b /\ e = Outlet))
  BY <1>5, <1>6
<1>8. \A e \in Named : e \notin {Inlet, Outlet} => Holders(e)' = Holders(e)
  BY <1>4, <1>6, <1>7, <1>p DEF Holders, TypeOK
<1>9. Holders(Inlet)' = {<<p, a>>} /\ Holders(Outlet)' = {<<p, b>>}
  <2>1. Inlet \in Named /\ Outlet \in Named /\ Inlet # Outlet
    BY NamedMembers, EntriesDiffer
  <2> QED BY <2>1, <1>2, <1>4, <1>6, <1>7, <1>p DEF Holders, TypeOK
<1>10. RefInv'
  <2>1. \A x \in Ring : /\ Holders(Claim(x))' = Holders(Claim(x))
                        /\ Holders(Obligation(x))' = Holders(Obligation(x))
    BY <1>8, NamedMembers, EntriesDiffer
  <2>2. Cardinality(Holders(Inlet)') = 1 /\ Cardinality(Holders(Outlet)') = 1
    BY <1>9, FS_Singleton
  <2> QED BY <2>1, <2>2, <1>1 DEF IInv, RefInv
<1>11. LifeInv' /\ RoomInv' /\ CallerTie'
  BY <1>1, <1>2 DEF IInv, LifeInv, RoomInv, CallerTie
<1>12. NoLostWakeup' /\ StagedQueue'
  BY <1>1, <1>2, FreeUnnamed DEF IInv, NoLostWakeup, StagedQueue, PeerGone
<1> QED BY <1>10, <1>11, <1>12

LEMMA InvSibling ==
  ASSUME IInv, NEW t \in Threads, NEW h \in Handles, mint_sibling(t, h)
  PROVE  RefInv' /\ LifeInv' /\ RoomInv' /\ CallerTie' /\ NoLostWakeup' /\ StagedQueue'
<1> DEFINE p == Home[t]
<1>p. p \in Procs /\ table[p] \in Row /\ TypeOK
  BY HomeType, TableRow DEF IInv
<1>0. PICK f \in {Inlet, Outlet} :
         /\ table[p][h] = f
         /\ \E row \in mint_handle(table[p], f) : table' = [table EXCEPT ![p] = row]
         /\ inlet_refs'  = IF f = Inlet  THEN inlet_refs + 1  ELSE inlet_refs
         /\ outlet_refs' = IF f = Outlet THEN outlet_refs + 1 ELSE outlet_refs
         /\ UNCHANGED <<live, staged, state, reply_refs, request_refs, caller, call_pipe,
                        call_claim, gone, dying>>
  BY DEF mint_sibling, exchanges, parked, kernel
<1>1. PICK row \in mint_handle(table[p], f) : table' = [table EXCEPT ![p] = row]
  BY <1>0
<1>2. f \in Named /\ Inlet # Outlet
  BY NamedMembers, EntriesDiffer
<1> HIDE DEF p
<1>3. PICK g \in Handles : /\ row \in Row
                           /\ table[p][g] = Unbound
                           /\ \A i \in Handles : \A e \in Named :
                                row[i] = e <=> table[p][i] = e \/ (i = g /\ e = f)
  BY <1>p, <1>2, RowMint
<1>4. \A e \in Named : e # f => Holders(e)' = Holders(e)
  BY <1>1, <1>3, <1>p DEF Holders, TypeOK
<1>5. Holders(f)' = Holders(f) \cup {<<p, g>>} /\ <<p, g>> \notin Holders(f)
  BY <1>1, <1>2, <1>3, <1>p, UnboundNotHolder DEF Holders, TypeOK
<1>6. /\ inlet_refs \in Nat /\ outlet_refs \in Nat
      /\ f = Outlet => outlet_refs > 0
      /\ live
  BY <1>0, <1>p, HolderCounted DEF TypeOK
<1>7. RefInv'
  <2>1. \A x \in Ring : /\ Holders(Claim(x))' = Holders(Claim(x))
                        /\ Holders(Obligation(x))' = Holders(Obligation(x))
    BY <1>4, NamedMembers, EntriesDiffer
  <2>2. Cardinality(Holders(f)') = Cardinality(Holders(f)) + 1
    BY <1>5, HoldersCount
  <2>3. /\ inlet_refs' = Cardinality(Holders(Inlet)')
        /\ outlet_refs' = Cardinality(Holders(Outlet)')
    BY <2>2, <1>0, <1>2, <1>4, NamedMembers DEF IInv, RefInv
  <2> QED BY <2>1, <2>3, <1>0 DEF IInv, RefInv
<1>8. LifeInv' /\ RoomInv' /\ CallerTie'
  BY <1>0, <1>6 DEF IInv, LifeInv, RoomInv, CallerTie
<1>9. NoLostWakeup' /\ StagedQueue'
  BY <1>0, <1>6 DEF IInv, NoLostWakeup, StagedQueue, PeerGone
<1> QED BY <1>7, <1>8, <1>9

LEMMA InvMove ==
  ASSUME IInv, NEW t \in Threads, NEW q \in Procs, NEW h \in Handles, move_entry(t, q, h)
  PROVE  RefInv' /\ LifeInv' /\ RoomInv' /\ CallerTie' /\ NoLostWakeup' /\ StagedQueue'
<1> DEFINE p == Home[t]
<1>p. p \in Procs /\ table[p] \in Row /\ table[q] \in Row /\ TypeOK
  BY HomeType, TableRow DEF IInv
<1>0. PICK f \in Entry :
         /\ f = table[p][h]
         /\ q # p
         /\ \E row \in mint_handle(table[q], f) :
              table' = [table EXCEPT ![q] = row, ![p] = unbind_handle(table[p], h)]
         /\ UNCHANGED <<live, inlet_refs, outlet_refs, staged, state, reply_refs,
                        request_refs, caller, call_pipe, call_claim, gone, dying>>
  BY <1>p DEF move_entry, columns, exchanges, kernel, Row
<1>1. PICK row \in mint_handle(table[q], f) :
         table' = [table EXCEPT ![q] = row, ![p] = unbind_handle(table[p], h)]
  BY <1>0
<1>2. PICK g \in Handles : /\ row \in Row
                           /\ table[q][g] = Unbound
                           /\ row = [table[q] EXCEPT ![g] = f]
  BY <1>0, <1>p, MintHandle
<1> DEFINE old == unbind_handle(table[p], h)
<1>3. /\ table' = [table EXCEPT ![q] = row, ![p] = old]
      /\ \A i \in Handles : \A e \in Named : old[i] = e <=> (table[p][i] = e /\ i # h)
  BY <1>1, <1>p, RowUnbind
<1>4. \A i \in Handles : \A e \in Named :
         row[i] = e <=> (table[q][i] = e \/ (i = g /\ e = f))
  BY <1>2, <1>p, NamedMembers DEF Row
<1> HIDE DEF p, old
<1>5. \A e \in Named : e # f => Holders(e)' = Holders(e)
  BY <1>0, <1>3, <1>4, <1>p DEF Holders, TypeOK
<1>6. f \in Named => /\ Holders(f)' = (Holders(f) \ {<<p, h>>}) \cup {<<q, g>>}
                     /\ <<p, h>> \in Holders(f)
                     /\ <<q, g>> \notin Holders(f)
  BY <1>0, <1>2, <1>3, <1>4, <1>p, UnboundNotHolder DEF Holders, TypeOK
<1>7. \A e \in Named : /\ Cardinality(Holders(e)') = Cardinality(Holders(e))
                       /\ Holders(e)' = {} <=> Holders(e) = {}
                       /\ (\A a, b \in Holders(e) : a = b) => (\A a, b \in Holders(e)' : a = b)
  <2> TAKE e \in Named
  <2>1. CASE e # f
    BY <2>1, <1>5
  <2>2. CASE e = f
    <3>1. /\ Holders(f)' = (Holders(f) \ {<<p, h>>}) \cup {<<q, g>>}
          /\ <<p, h>> \in Holders(f)
          /\ <<q, g>> \notin Holders(f)
      BY <1>6, <2>2
    <3>2. /\ Cardinality(Holders(f) \ {<<p, h>>}) = Cardinality(Holders(f)) - 1
          /\ Cardinality(Holders(f)) \in Nat
          /\ IsFiniteSet(Holders(f) \ {<<p, h>>})
      BY <3>1, HoldersCount, HoldersFinite, FS_RemoveElement
    <3>3. Cardinality(Holders(f)') = Cardinality(Holders(f) \ {<<p, h>>}) + 1
      BY <3>1, <3>2, FS_AddElement
    <3>4. Cardinality(Holders(f)') = Cardinality(Holders(f))
      BY <3>2, <3>3
    <3>5. (\A a, b \in Holders(f) : a = b) => (\A a, b \in Holders(f)' : a = b)
      BY <3>1
    <3> QED BY <2>2, <3>1, <3>4, <3>5
  <2> QED BY <2>1, <2>2
<1>8. RefInv'
  BY <1>0, <1>7, NamedMembers DEF IInv, RefInv
<1>9. LifeInv' /\ RoomInv' /\ CallerTie' /\ NoLostWakeup' /\ StagedQueue'
  BY <1>0 DEF IInv, LifeInv, RoomInv, CallerTie, NoLostWakeup, StagedQueue, PeerGone, pipe_idle
<1> QED BY <1>8, <1>9

-----------------------------------------------------------------------------
(* Dropping a reference.                                                   *)

\* An end is unbound: its count falls by one and nothing else moves.
LEMMA EndGone ==
  ASSUME IInv, NEW p \in Procs, NEW h \in Handles, NEW f \in {Inlet, Outlet},
         table[p][h] = f, OnlyUnbinds(p, h)
  PROVE  /\ Cardinality(Holders(f)') = Cardinality(Holders(f)) - 1
         /\ \A e \in Named : e # f => Holders(e)' = Holders(e)
<1>1. <<p, h>> \in Holders(f) /\ f \in Named
  BY NotHolder, NamedMembers
<1>2. Holders(f)' = Holders(f) \ {<<p, h>>}
  BY <1>1, UnbindHolders
<1>3. Cardinality(Holders(f) \ {<<p, h>>}) = Cardinality(Holders(f)) - 1
  BY <1>1, HoldersCount
<1>4. \A e : e # f => <<p, h>> \notin Holders(e)
  BY NotHolder
<1>5. \A e \in Named : e # f => Holders(e)' = Holders(e)
  BY <1>4, UnbindHolders
<1>6. Cardinality(Holders(f)') = Cardinality(Holders(f)) - 1
  BY <1>2, <1>3
<1> QED BY <1>5, <1>6

LEMMA InvDropInlet ==
  ASSUME IInv, NEW p \in Procs, NEW h \in Handles, NEW full \in BOOLEAN,
         table[p][h] = Inlet, OnlyUnbinds(p, h), drop_inlet(full), UNCHANGED <<gone, dying>>
  PROVE  RefInv' /\ LifeInv' /\ RoomInv' /\ CallerTie' /\ NoLostWakeup' /\ StagedQueue'
<1>1. /\ inlet_refs' = Dec(inlet_refs)
      /\ live' = (live /\ ~(full /\ inlet_refs = 1 /\ outlet_refs = 0 /\ pipe_idle))
      /\ UNCHANGED <<outlet_refs, staged, state, reply_refs, request_refs, caller,
                     call_pipe, call_claim, gone, dying>>
  BY DEF drop_inlet, exchanges, parked
<1>2. inlet_refs > 0 /\ inlet_refs \in Nat /\ live
  BY HolderCounted DEF IInv, TypeOK
<1>3. inlet_refs' = inlet_refs - 1
  BY <1>1, <1>2 DEF Dec
<1>4. /\ Cardinality(Holders(Inlet)') = Cardinality(Holders(Inlet)) - 1
      /\ Holders(Outlet)' = Holders(Outlet)
      /\ \A x \in Ring : /\ Holders(Claim(x))' = Holders(Claim(x))
                         /\ Holders(Obligation(x))' = Holders(Obligation(x))
  BY EndGone, NamedMembers, EntriesDiffer
<1>5. RefInv'
  BY <1>1, <1>3, <1>4 DEF IInv, RefInv
<1>6. LifeInv'
  <2>1. ~live' => inlet_refs = 1 /\ outlet_refs = 0 /\ pipe_idle
    BY <1>1, <1>2
  <2>2. ~live' => inlet_refs' = 0 /\ outlet_refs' = 0 /\ pipe_idle'
    BY <2>1, <1>1, <1>3 DEF pipe_idle
  <2> QED BY <2>2, <1>1 DEF IInv, LifeInv
<1>7. RoomInv' /\ CallerTie' /\ NoLostWakeup' /\ StagedQueue'
  BY <1>1 DEF IInv, RoomInv, CallerTie, NoLostWakeup, StagedQueue, PeerGone
<1> QED BY <1>5, <1>6, <1>7

LEMMA InvDropOutlet ==
  ASSUME IInv, NEW p \in Procs, NEW h \in Handles, NEW full \in BOOLEAN,
         table[p][h] = Outlet, OnlyUnbinds(p, h), drop_outlet(full), UNCHANGED <<gone, dying>>
  PROVE  RefInv' /\ LifeInv' /\ RoomInv' /\ CallerTie' /\ NoLostWakeup' /\ StagedQueue'
<1>1. /\ outlet_refs # 1
      /\ outlet_refs' = Dec(outlet_refs)
      /\ UNCHANGED <<live, inlet_refs, staged, state, reply_refs, request_refs, caller,
                     call_pipe, call_claim, gone, dying>>
  BY DEF drop_outlet, exchanges, parked
<1>2. outlet_refs > 0 /\ outlet_refs \in Nat /\ live
  BY HolderCounted DEF IInv, TypeOK
<1>3. outlet_refs' = outlet_refs - 1 /\ outlet_refs' > 0
  BY <1>1, <1>2 DEF Dec
<1>4. /\ Cardinality(Holders(Outlet)') = Cardinality(Holders(Outlet)) - 1
      /\ Holders(Inlet)' = Holders(Inlet)
      /\ \A x \in Ring : /\ Holders(Claim(x))' = Holders(Claim(x))
                         /\ Holders(Obligation(x))' = Holders(Obligation(x))
  BY EndGone, NamedMembers, EntriesDiffer
<1>5. RefInv'
  BY <1>1, <1>3, <1>4 DEF IInv, RefInv
<1>6. LifeInv' /\ RoomInv' /\ CallerTie'
  BY <1>1, <1>2, <1>3 DEF IInv, LifeInv, RoomInv, CallerTie
<1>7. NoLostWakeup' /\ StagedQueue'
  BY <1>1, <1>2, <1>3 DEF IInv, NoLostWakeup, StagedQueue, PeerGone
<1> QED BY <1>5, <1>6, <1>7

LEMMA InvDropLastOutlet ==
  ASSUME IInv, NEW p \in Procs, NEW h \in Handles, NEW full \in BOOLEAN,
         table[p][h] = Outlet, OnlyUnbinds(p, h), drop_last_outlet(full),
         UNCHANGED <<gone, dying>>
  PROVE  RefInv' /\ LifeInv' /\ RoomInv' /\ CallerTie' /\ NoLostWakeup' /\ StagedQueue'
<1>t. /\ caller \in [Ring -> Threads \cup {0}]
      /\ call_claim \in [Threads -> Ring \cup {0}]
      /\ \A y \in Ring : y # 0
  BY DEF IInv, TypeOK, Ring
<1>1. /\ outlet_refs = 1 /\ outlet_refs' = 0 /\ live
      /\ staged' = <<>>
      /\ \A t \in Threads : ~call_pipe'[t]
      /\ UNCHANGED <<inlet_refs, request_refs, gone, dying>>
  BY HolderCounted DEF drop_last_outlet
<1>2. \A x \in Ring : x \in Doomed <=> /\ state[x] = "Staged"
                                       /\ request_refs[x] = 0
                                       /\ reply_refs[x] = 0 \/ caller[x] # 0
  <2> TAKE x \in Ring
  <2> QED BY DEF Doomed
<1>3. /\ \A x \in Ring : x \in Doomed => state'[x] = "Free" /\ reply_refs'[x] = 0 /\ caller'[x] = 0
      /\ \A x \in Ring : x \notin Doomed => /\ state'[x] = state[x]
                                            /\ reply_refs'[x] = reply_refs[x]
                                            /\ caller'[x] = caller[x]
  BY DEF drop_last_outlet
<1>4. \A t \in Threads :
        call_claim'[t] = IF call_pipe[t] \/ call_claim[t] \in Doomed THEN 0 ELSE call_claim[t]
  BY DEF drop_last_outlet
<1>5. /\ Cardinality(Holders(Outlet)') = 0
      /\ Holders(Inlet)' = Holders(Inlet)
      /\ \A x \in Ring : /\ Holders(Claim(x))' = Holders(Claim(x))
                         /\ Holders(Obligation(x))' = Holders(Obligation(x))
  <2>1. Cardinality(Holders(Outlet)') = Cardinality(Holders(Outlet)) - 1
    BY EndGone
  <2>2. Cardinality(Holders(Outlet)) = 1
    BY <1>1 DEF IInv, RefInv
  <2> QED BY <2>1, <2>2, EndGone, NamedMembers, EntriesDiffer
<1>6. RefInv'
  <2>1. \A x \in Ring : /\ reply_refs'[x] = 0 <=> caller'[x] = 0 /\ Holders(Claim(x)) = {}
                        /\ caller'[x] # 0 => Holders(Claim(x)) = {}
    BY <1>2, <1>3 DEF IInv, RefInv
  <2> QED BY <2>1, <1>1, <1>5 DEF IInv, RefInv
<1>7. LifeInv'
  <2>1. \A x \in Ring : /\ request_refs'[x] # 0 => state'[x] = "Taken"
                        /\ reply_refs'[x] # 0 => state'[x] # "Free"
                        /\ state'[x] # "Settled"
    <3> TAKE x \in Ring
    <3>1. CASE x \in Doomed
      BY <3>1, <1>1, <1>2, <1>3
    <3>2. CASE x \notin Doomed
      BY <3>2, <1>1, <1>3 DEF IInv, LifeInv
    <3> QED BY <3>1, <3>2
  <2>2. ~live' => (\A x \in Ring : state'[x] = "Free") /\ inlet_refs = 0
    BY <1>1, <1>3 DEF drop_last_outlet
  <2> QED BY <2>1, <2>2, <1>1 DEF LifeInv, pipe_idle
<1>8. RoomInv' /\ StagedQueue'
  BY <1>1 DEF RoomInv, StagedQueue
<1>9. CallerTie'
  <2>1. ASSUME NEW y \in Ring, caller'[y] # 0
        PROVE  call_claim'[caller'[y]] = y /\ state'[y] \in {"Staged", "Taken"}
    <3>1. y \notin Doomed /\ caller'[y] = caller[y] /\ state'[y] = state[y]
      BY <2>1, <1>3
    <3>2. caller[y] \in Threads
      BY <2>1, <3>1, <1>t
    <3>3. call_claim[caller[y]] = y /\ state[y] \in {"Staged", "Taken"}
      BY <2>1, <3>1 DEF IInv, CallerTie
    <3>4. ~call_pipe[caller[y]]
      BY <3>2, <3>3, <1>t DEF IInv, CallerTie
    <3> QED BY <3>1, <3>2, <3>3, <3>4, <1>4
  <2>2. ASSUME NEW u \in Threads, call_claim'[u] # 0
        PROVE  /\ caller'[call_claim'[u]] = u
               /\ ~call_pipe'[u]
               /\ Home[u] \notin gone' \ {dying'}
    <3>1. call_claim'[u] = call_claim[u] /\ call_claim[u] \notin Doomed /\ call_claim[u] \in Ring
      BY <2>2, <1>4, <1>t
    <3>2. caller[call_claim[u]] = u /\ Home[u] \notin gone \ {dying}
      BY <3>1, <2>2 DEF IInv, CallerTie
    <3> QED BY <3>1, <3>2, <1>1, <1>3
  <2> QED BY <2>1, <2>2 DEF CallerTie
<1>10. NoLostWakeup'
  <2> SUFFICES ASSUME NEW x \in Ring, caller'[x] # 0
               PROVE  state'[x] # "Replied" /\ ~PeerGone(x)'
    BY DEF NoLostWakeup
  <2>1. x \notin Doomed /\ caller[x] # 0 /\ state'[x] = state[x]
    BY <1>3
  <2>2. state[x] = "Taken"
    BY <2>1, <1>2 DEF IInv, CallerTie, LifeInv
  <2>3. request_refs[x] # 0
    BY <2>1, <2>2 DEF IInv, NoLostWakeup, PeerGone
  <2> QED BY <2>1, <2>2, <2>3, <1>1 DEF PeerGone
<1> QED BY <1>6, <1>7, <1>8, <1>9, <1>10

LEMMA InvDropClaim ==
  ASSUME IInv, NEW p \in Procs, NEW h \in Handles, NEW x \in Ring, NEW full \in BOOLEAN,
         table[p][h] = Claim(x), OnlyUnbinds(p, h), drop_claim(x, full),
         UNCHANGED <<gone, dying>>
  PROVE  RefInv' /\ LifeInv' /\ RoomInv' /\ CallerTie' /\ NoLostWakeup' /\ StagedQueue'
<1>1. /\ EndpointHoldersSame
      /\ \A y \in Ring \ {x} : ExchangeHoldersSame(y)
      /\ Holders(Claim(x))' = {}
      /\ Holders(Obligation(x))' = Holders(Obligation(x))
      /\ caller[x] = 0
      /\ reply_refs[x] = 1
  BY ClaimGone
<1>2. Dec(reply_refs[x]) = 0
  BY <1>1 DEF Dec
<1>3. UNCHANGED <<inlet_refs, outlet_refs, staged, caller, call_pipe, call_claim, gone, dying>>
  BY DEF drop_claim, parked
<1>4. CASE full
  <2>1. unref_exchange(x, 0, request_refs[x], state[x], held[x])
    BY <1>2, <1>4 DEF drop_claim
  <2> QED BY <2>1, <1>3, ClaimConsumed
<1>5. CASE ~full
  <2>1. reply_refs' = [reply_refs EXCEPT ![x] = 0] /\ UNCHANGED <<live, request_refs, state>>
    BY <1>2, <1>5 DEF drop_claim
  <2>2. reply_refs'[x] = 0 /\ \A y \in Ring \ {x} : reply_refs'[y] = reply_refs[y]
    BY <2>1 DEF IInv, TypeOK
  <2>3. RefInv'
    BY <2>1, <2>2, <1>1, <1>3 DEF IInv, RefInv, EndpointHoldersSame, ExchangeHoldersSame
  <2>4. LifeInv'
    BY <2>1, <2>2, <1>3 DEF IInv, LifeInv, pipe_idle
  <2>5. RoomInv' /\ CallerTie' /\ NoLostWakeup' /\ StagedQueue'
    BY <2>1, <1>3 DEF IInv, RoomInv, CallerTie, NoLostWakeup, StagedQueue, PeerGone
  <2> QED BY <2>3, <2>4, <2>5
<1> QED BY <1>4, <1>5

LEMMA InvDropObligation ==
  ASSUME IInv, NEW p \in Procs, NEW h \in Handles, NEW x \in Ring, NEW full \in BOOLEAN,
         table[p][h] = Obligation(x), OnlyUnbinds(p, h), drop_obligation(x, full),
         UNCHANGED <<gone, dying>>
  PROVE  RefInv' /\ LifeInv' /\ RoomInv' /\ CallerTie' /\ NoLostWakeup' /\ StagedQueue'
<1>1. /\ EndpointHoldersSame
      /\ \A y \in Ring \ {x} : ExchangeHoldersSame(y)
      /\ Holders(Obligation(x))' = {}
      /\ Holders(Claim(x))' = Holders(Claim(x))
      /\ request_refs[x] = 1
      /\ state[x] = "Taken"
  BY ObligationGone
<1>2. Dec(request_refs[x]) = 0
  BY <1>1 DEF Dec
<1>3. UNCHANGED <<inlet_refs, outlet_refs, staged, call_pipe, gone, dying>>
  BY DEF drop_obligation
<1>4. CASE caller[x] # 0
  <2>1. /\ unref_exchange(x, Dec(reply_refs[x]), 0, "Settled", held[x])
        /\ caller' = [caller EXCEPT ![x] = 0]
        /\ call_claim' = [call_claim EXCEPT ![caller[x]] = 0]
    BY <1>1, <1>2, <1>4 DEF drop_obligation, wake_call_reply
  <2> QED BY <2>1, <1>3, <1>4, ObligationWakes
<1>5. CASE caller[x] = 0
  <2>0. UNCHANGED <<caller, call_claim>>
    BY <1>5 DEF drop_obligation
  <2>1. CASE full
    <3>1. unref_exchange(x, reply_refs[x], 0, "Taken", held[x])
      BY <1>1, <1>2, <1>5, <2>1 DEF drop_obligation
    <3> QED BY <3>1, <2>0, <1>3, <1>5, ObligationConsumed
  <2>2. CASE ~full
    <3>1. request_refs' = [request_refs EXCEPT ![x] = 0] /\ UNCHANGED <<live, reply_refs, state>>
      BY <1>2, <1>5, <2>2 DEF drop_obligation
    <3>2. request_refs'[x] = 0 /\ \A y \in Ring \ {x} : request_refs'[y] = request_refs[y]
      BY <3>1 DEF IInv, TypeOK
    <3>3. RefInv'
      BY <3>1, <3>2, <2>0, <1>1, <1>3 DEF IInv, RefInv, EndpointHoldersSame, ExchangeHoldersSame
    <3>4. LifeInv'
      BY <3>1, <3>2, <1>3 DEF IInv, LifeInv, pipe_idle
    <3>5. RoomInv' /\ CallerTie' /\ StagedQueue'
      BY <3>1, <2>0, <1>3 DEF IInv, RoomInv, CallerTie, StagedQueue
    <3>6. NoLostWakeup'
      BY <3>1, <3>2, <2>0, <1>3, <1>5 DEF IInv, NoLostWakeup, PeerGone
    <3> QED BY <3>3, <3>4, <3>5, <3>6
  <2> QED BY <2>1, <2>2
<1> QED BY <1>4, <1>5

LEMMA InvDrop ==
  ASSUME IInv, NEW p \in Procs, NEW h \in Handles, NEW full \in BOOLEAN,
         drop_reference(p, h, full)
  PROVE  RefInv' /\ LifeInv' /\ RoomInv' /\ CallerTie' /\ NoLostWakeup' /\ StagedQueue'
<1>1. OnlyUnbinds(p, h) /\ UNCHANGED <<gone, dying>>
  BY UnbindOnly DEF drop_reference, IInv
<1>2. CASE table[p][h] = Inlet /\ drop_inlet(full)
  BY <1>1, <1>2, InvDropInlet
<1>3. CASE table[p][h] = Outlet /\ drop_outlet(full)
  BY <1>1, <1>3, InvDropOutlet
<1>4. CASE table[p][h] = Outlet /\ drop_last_outlet(full)
  BY <1>1, <1>4, InvDropLastOutlet
<1>5. ASSUME NEW x \in Ring, table[p][h] = Claim(x), drop_claim(x, full)
      PROVE  RefInv' /\ LifeInv' /\ RoomInv' /\ CallerTie' /\ NoLostWakeup' /\ StagedQueue'
  BY <1>1, <1>5, InvDropClaim
<1>6. ASSUME NEW x \in Ring, table[p][h] = Obligation(x), drop_obligation(x, full)
      PROVE  RefInv' /\ LifeInv' /\ RoomInv' /\ CallerTie' /\ NoLostWakeup' /\ StagedQueue'
  BY <1>1, <1>6, InvDropObligation
<1>7. ASSUME NEW k \in Caps, table[p][h] = Cap(k), drop_cap(p, k)
      PROVE  RefInv' /\ LifeInv' /\ RoomInv' /\ CallerTie' /\ NoLostWakeup' /\ StagedQueue'
  <2>1. \A e \in Named : Holders(e)' = Holders(e)
    <3> TAKE e \in Named
    <3>1. table[p][h] # e
      BY <1>7, NamedMembers
    <3>2. <<p, h>> \notin Holders(e)
      BY <3>1, NotHolder
    <3>3. Holders(e)' = Holders(e) \ {<<p, h>>}
      BY <1>1, UnbindHolders
    <3> QED BY <3>2, <3>3
  <2>2. UNCHANGED <<live, inlet_refs, outlet_refs, staged, state, reply_refs, request_refs,
                    caller, call_pipe, call_claim, gone, dying>>
    BY <1>1, <1>7 DEF drop_cap, columns, exchanges
  <2>3. RefInv'
    BY <2>1, <2>2, NamedMembers DEF IInv, RefInv
  <2> QED BY <2>2, <2>3 DEF IInv, LifeInv, RoomInv, CallerTie, NoLostWakeup, StagedQueue,
                            PeerGone, pipe_idle
<1> QED BY <1>2, <1>3, <1>4, <1>5, <1>6, <1>7 DEF drop_reference

-----------------------------------------------------------------------------
(* The end of a process.                                                   *)

LEMMA InvEndProcess ==
  ASSUME IInv, NEW p \in Procs, end_process(p)
  PROVE  RefInv' /\ LifeInv' /\ RoomInv' /\ CallerTie' /\ NoLostWakeup' /\ StagedQueue'
<1>1. /\ gone' = gone \cup {p} /\ dying' = p /\ dying = NoProc /\ NoProc \notin gone
      /\ \A t \in Threads : call_pipe'[t] => Home[t] # p /\ call_pipe[t]
      /\ UNCHANGED <<table, live, inlet_refs, outlet_refs, staged, state, reply_refs,
                     request_refs, caller, call_claim>>
  BY ConstantsOK DEF end_process, tables, columns, exchanges, IInv, TypeOK
<1>2. \A e : Holders(e)' = Holders(e)
  BY <1>1 DEF Holders
<1>3. RefInv' /\ LifeInv'
  BY <1>1, <1>2 DEF IInv, RefInv, LifeInv, pipe_idle
<1>4. RoomInv' /\ CallerTie'
  BY <1>1 DEF IInv, RoomInv, CallerTie
<1>5. NoLostWakeup' /\ StagedQueue'
  BY <1>1 DEF IInv, NoLostWakeup, StagedQueue, PeerGone
<1> QED BY <1>3, <1>4, <1>5

LEMMA InvReleasePending ==
  ASSUME IInv, release_pending_calls
  PROVE  RefInv' /\ LifeInv' /\ RoomInv' /\ CallerTie' /\ NoLostWakeup' /\ StagedQueue'
<1>1. PICK t \in Lowest(Orphans) :
        LET x == call_claim[t] IN
        /\ caller' = [caller EXCEPT ![x] = 0]
        /\ call_claim' = [call_claim EXCEPT ![t] = 0]
        /\ unref_exchange(x, Dec(reply_refs[x]), request_refs[x], state[x], held[x])
  BY DEF release_pending_calls
<1>2. t \in Threads /\ t # 0 /\ call_claim[t] \in Ring /\ call_claim[t] # 0
  BY LowestIn DEF Orphans, IInv, TypeOK, Threads
<1>3. PICK x \in Ring : x = call_claim[t]
  BY <1>2
<1>4. /\ caller' = [caller EXCEPT ![x] = 0]
      /\ call_claim' = [call_claim EXCEPT ![caller[x]] = 0]
      /\ unref_exchange(x, Dec(reply_refs[x]), request_refs[x], state[x], held[x])
      /\ caller[x] # 0
  BY <1>1, <1>2, <1>3 DEF IInv, CallerTie
<1>5. UNCHANGED <<table, inlet_refs, outlet_refs, staged, call_pipe, gone, dying>>
  BY DEF release_pending_calls, tables
<1>6. \A e : Holders(e)' = Holders(e)
  BY <1>5 DEF Holders
<1>7. /\ EndpointHoldersSame
      /\ \A y \in Ring : ExchangeHoldersSame(y)
  BY <1>6 DEF EndpointHoldersSame, ExchangeHoldersSame
<1>8. /\ caller'[x] = 0
      /\ \A y \in Ring \ {x} : caller'[y] = caller[y]
  BY <1>4 DEF IInv, TypeOK
<1>9. /\ request_refs[x] \in 0..1
      /\ Dec(reply_refs[x]) = 0 /\ 0 \in 0..1
      /\ state[x] \in ExchangeStates
      /\ state[x] # "Settled"
      /\ request_refs[x] # 0 => state[x] = "Taken"
      /\ request_refs[x] = 0 <=> Holders(Obligation(x)) = {}
      /\ \A a, b \in Holders(Obligation(x)) : a = b
      /\ Holders(Claim(x)) = {}
  BY <1>4 DEF IInv, TypeOK, LifeInv, RefInv, Dec
<1>10. unref_exchange(x, 0, request_refs[x], state[x], held[x])
  BY <1>4, <1>9
<1>11. /\ \A a, b \in Holders(Obligation(x))' : a = b
       /\ request_refs[x] = 0 <=> Holders(Obligation(x))' = {}
       /\ Holders(Claim(x))' = {}
  BY <1>7, <1>9 DEF ExchangeHoldersSame
<1>12. RefInv' /\ LifeInv' /\ NoLostWakeup' /\ StagedQueue'
  BY <1>5, <1>7, <1>8, <1>9, <1>10, <1>11, UnrefKeeps
<1>13. RoomInv' /\ CallerTie'
  BY <1>4, <1>5, UnrefOthers, WokenTie DEF IInv
<1> QED BY <1>12, <1>13

LEMMA InvReap ==
  ASSUME IInv, reap_unreferenced
  PROVE  RefInv' /\ LifeInv' /\ RoomInv' /\ CallerTie' /\ NoLostWakeup' /\ StagedQueue'
<1> DEFINE reaped == {x \in Ring : exchange_can_settle(x)}
<1>1. /\ dying' = NoProc
      /\ \A t \in Threads : call_claim[t] # 0 => Home[t] # dying
      /\ UNCHANGED <<table, inlet_refs, outlet_refs, staged, reply_refs, request_refs,
                     caller, call_pipe, call_claim, gone>>
  BY DEF reap_unreferenced, tables, parked, Orphans
<1>2. \A x \in Ring : x \in reaped => /\ reply_refs[x] = 0
                                      /\ request_refs[x] = 0
                                      /\ state[x] = "Staged" => outlet_refs = 0
  BY DEF exchange_can_settle, can_settle
<1>3. /\ \A x \in Ring : x \in reaped => state'[x] = "Free"
      /\ \A x \in Ring : x \notin reaped => state'[x] = state[x]
      /\ live' = (live /\ ~(/\ inlet_refs = 0
                            /\ outlet_refs = 0
                            /\ \A x \in Ring \ reaped : state[x] = "Free"))
  BY DEF reap_unreferenced
<1> HIDE DEF reaped
<1>4. \A e : Holders(e)' = Holders(e)
  BY <1>1 DEF Holders
<1>5. RefInv'
  BY <1>1, <1>4 DEF IInv, RefInv
<1>6. LifeInv'
  <2>1. \A x \in Ring : /\ request_refs'[x] # 0 => state'[x] = "Taken"
                        /\ reply_refs'[x] # 0 => state'[x] # "Free"
                        /\ state'[x] # "Settled"
    BY <1>1, <1>2, <1>3 DEF IInv, LifeInv
  <2>2. ~live' => inlet_refs = 0 /\ outlet_refs = 0 /\ \A x \in Ring \ reaped : state[x] = "Free"
    <3>1. CASE live
      BY <3>1, <1>3
    <3>2. CASE ~live
      BY <3>2 DEF IInv, LifeInv, pipe_idle
    <3> QED BY <3>1, <3>2
  <2>3. ~live' => \A x \in Ring : state'[x] = "Free"
    BY <2>2, <1>3
  <2> QED BY <2>1, <2>2, <2>3, <1>1 DEF LifeInv, pipe_idle
<1>7. \A x \in Ring : caller[x] # 0 => state'[x] = state[x]
  BY <1>2, <1>3 DEF IInv, RefInv
<1>8. RoomInv' /\ CallerTie'
  BY <1>1, <1>7 DEF IInv, RoomInv, CallerTie
<1>9. NoLostWakeup'
  BY <1>1, <1>7 DEF IInv, NoLostWakeup, PeerGone
<1>10. StagedQueue'
  <2>1. outlet_refs \in Nat
    BY DEF IInv, TypeOK
  <2>2. \A x \in Ring : (state'[x] = "Staged" /\ outlet_refs > 0)
                          <=> (state[x] = "Staged" /\ outlet_refs > 0)
    BY <2>1, <1>2, <1>3
  <2> QED BY <2>2, <1>1 DEF IInv, StagedQueue
<1> QED BY <1>5, <1>6, <1>8, <1>9, <1>10

-----------------------------------------------------------------------------
(* The invariant and what it implies.                                      *)

LEMMA InvInit == Init => IInv
<1> SUFFICES ASSUME Init PROVE IInv
  OBVIOUS
<1>1. TypeOK
  BY TypeInit
<1>2. \A e \in Named : Holders(e) = {}
  BY NamedMembers DEF Init, Holders
<1>3. Cardinality({}) = 0
  BY FS_EmptySet
<1>4. RefInv
  BY <1>2, <1>3, NamedMembers DEF Init, RefInv
<1>5. LifeInv /\ RoomInv
  BY DEF Init, LifeInv, RoomInv, pipe_idle
<1>6. CallerTie /\ NoLostWakeup
  BY DEF Init, CallerTie, NoLostWakeup
<1>7. StagedQueue
  BY DEF Init, StagedQueue
<1> QED BY <1>1, <1>4, <1>5, <1>6, <1>7 DEF IInv

LEMMA InvStep == IInv /\ [Next]_vars => IInv'
<1> SUFFICES ASSUME IInv, [Next]_vars PROVE IInv'
  OBVIOUS
<1> DEFINE Rest == RefInv' /\ LifeInv' /\ RoomInv' /\ CallerTie' /\ NoLostWakeup' /\ StagedQueue'
<1>0. TypeOK'
  BY TypeStep DEF IInv
<1> SUFFICES Rest
  BY <1>0 DEF IInv
<1>1. ASSUME NEW t \in Threads, Syscall(t) PROVE Rest
  <2>1. CASE Send(t)
    BY <2>1, InvPost, InvCall, InvBlock, SendArgsType DEF Send
  <2>2. CASE Take(t)
    BY <2>2, InvTake DEF Take
  <2>3. CASE Resolve(t)
    BY <2>3, InvResolve, InvParkResolve DEF Resolve
  <2>4. CASE Reply(t)
    BY <2>4, InvReply, InvReplyToCaller, SendArgsType DEF Reply
  <2>5. CASE HandleOp(t)
    BY <2>5, InvCreate, InvSibling, InvMove, InvDrop, HomeType DEF HandleOp, release_handle
  <2> QED BY <1>1, <2>1, <2>2, <2>3, <2>4, <2>5 DEF Syscall
<1>2. CASE close_all
  <2>1. PICK h \in Lowest(Bound) : drop_reference(dying, h, FALSE)
    BY <1>2 DEF close_all
  <2>2. h \in Handles /\ dying \in Procs
    BY <1>2, LowestIn DEF close_all, Bound, IInv, TypeOK
  <2> QED BY <2>1, <2>2, InvDrop
<1>3. ASSUME NEW p \in Procs, end_process(p) PROVE Rest
  BY <1>3, InvEndProcess
<1>4. CASE resume_call_room
  BY <1>4, InvResume
<1>5. CASE release_pending_calls
  BY <1>5, InvReleasePending
<1>6. CASE reap_unreferenced
  BY <1>6, InvReap
<1>7. CASE UNCHANGED vars
  <2>1. \A e : Holders(e)' = Holders(e)
    BY <1>7 DEF vars, Holders
  <2>2. RefInv'
    BY <2>1, <1>7 DEF vars, IInv, RefInv
  <2>3. LifeInv' /\ RoomInv'
    BY <1>7 DEF vars, IInv, LifeInv, RoomInv, pipe_idle
  <2>4. CallerTie' /\ NoLostWakeup' /\ StagedQueue'
    BY <1>7 DEF vars, IInv, CallerTie, NoLostWakeup, StagedQueue, PeerGone
  <2> QED BY <2>2, <2>3, <2>4
<1> HIDE DEF Rest
<1> QED BY <1>1, <1>2, <1>3, <1>4, <1>5, <1>6, <1>7 DEF Next, Kernel

LEMMA Invariant == Spec => []IInv
BY InvInit, InvStep, PTL DEF Spec

LEMMA CountsExact == IInv => RefsExact
<1> SUFFICES ASSUME IInv PROVE RefsExact
  OBVIOUS
<1>1. ASSUME NEW e, \A a, b \in Holders(e) : a = b
      PROVE  Cardinality(Holders(e)) = IF Holders(e) = {} THEN 0 ELSE 1
  <2>1. CASE Holders(e) = {}
    BY <2>1, FS_EmptySet
  <2>2. ASSUME NEW a \in Holders(e) PROVE Cardinality(Holders(e)) = 1
    <3>1. Holders(e) = {a}
      BY <1>1, <2>2
    <3> QED BY <3>1, FS_Singleton
  <2> QED BY <2>1, <2>2
<1>2. ASSUME NEW x \in Ring
      PROVE  /\ request_refs[x] = Cardinality(Holders(Obligation(x)))
             /\ reply_refs[x] = Cardinality(Holders(Claim(x)))
                                + IF caller[x] = 0 THEN 0 ELSE 1
  <2>1. /\ \A a, b \in Holders(Claim(x)) : a = b
        /\ \A a, b \in Holders(Obligation(x)) : a = b
        /\ reply_refs[x] = 0 <=> caller[x] = 0 /\ Holders(Claim(x)) = {}
        /\ caller[x] # 0 => Holders(Claim(x)) = {}
        /\ request_refs[x] = 0 <=> Holders(Obligation(x)) = {}
        /\ reply_refs[x] \in 0..1 /\ request_refs[x] \in 0..1
    BY DEF IInv, RefInv, TypeOK
  <2>2. /\ Cardinality(Holders(Claim(x))) = IF Holders(Claim(x)) = {} THEN 0 ELSE 1
        /\ Cardinality(Holders(Obligation(x))) = IF Holders(Obligation(x)) = {} THEN 0 ELSE 1
    BY <2>1, <1>1
  <2> QED BY <2>1, <2>2
<1> QED BY <1>2 DEF IInv, RefInv, RefsExact

\* The reference columns of a connection and of its exchanges are exact after
\* every syscall and every step of a teardown, so drop_reference never frees an
\* object in use and never leaves one counted that nothing names.
THEOREM RefsAreExact == Spec => []RefsExact
BY Invariant, CountsExact, PTL

\* A thread parked on a claim and its exchange name each other, across replies,
\* the loss of the last outlet and the death of either side.
THEOREM CallersTied == Spec => []CallerTie
<1>1. IInv => CallerTie
  BY DEF IInv
<1> QED BY <1>1, Invariant, PTL

\* No answer and no peer-closed transition passes a parked caller by.
THEOREM NoWakeupLost == Spec => []NoLostWakeup
<1>1. IInv => NoLostWakeup
  BY DEF IInv
<1> QED BY <1>1, Invariant, PTL

\* The staged queue and the Staged exchanges agree while an outlet remains.
THEOREM QueueIsStaged == Spec => []StagedQueue
<1>1. IInv => StagedQueue
  BY DEF IInv
<1> QED BY <1>1, Invariant, PTL

\* The fatal_kernel arms of pipe_resolve, pipe_ready and pipe_reply_status are
\* unreachable: no handle names a freed pipe, a free exchange, or a request that
\* was not taken.
THEOREM NothingDangles == Spec => []NoDangling
<1>1. IInv => NoDangling
  <2> SUFFICES ASSUME IInv PROVE NoDangling
    OBVIOUS
  <2>1. ASSUME NEW p \in Procs, NEW h \in Handles
        PROVE  /\ table[p][h] \in {Inlet, Outlet} => live
               /\ \A x \in Ring : table[p][h] = Claim(x) => state[x] # "Free"
               /\ \A x \in Ring : table[p][h] = Obligation(x) => state[x] = "Taken"
    <3>1. table[p][h] \in {Inlet, Outlet} => live
      BY HolderCounted
    <3>2. ASSUME NEW x \in Ring, table[p][h] = Claim(x) PROVE state[x] # "Free"
      <4>1. Holders(Claim(x)) # {}
        BY <3>2, NotHolder
      <4> QED BY <4>1 DEF IInv, RefInv, LifeInv
    <3>3. ASSUME NEW x \in Ring, table[p][h] = Obligation(x) PROVE state[x] = "Taken"
      <4>1. Holders(Obligation(x)) # {}
        BY <3>3, NotHolder
      <4> QED BY <4>1 DEF IInv, RefInv, LifeInv
    <3> QED BY <3>1, <3>2, <3>3
  <2>2. ~live => pipe_idle /\ staged = <<>>
    <3> SUFFICES ASSUME ~live PROVE pipe_idle /\ staged = <<>>
      OBVIOUS
    <3>1. pipe_idle /\ staged \in Seq(Ring)
      BY DEF IInv, LifeInv, TypeOK
    <3>2. \A i \in 1..Len(staged) : FALSE
      <4> TAKE i \in 1..Len(staged)
      <4>1. staged[i] \in Ring
        BY <3>1
      <4>2. state[staged[i]] = "Staged" /\ state[staged[i]] = "Free"
        BY <4>1, <3>1 DEF IInv, StagedQueue, pipe_idle
      <4> QED BY <4>2
    <3> QED BY <3>1, <3>2
  <2> QED BY <2>1, <2>2 DEF NoDangling
<1> QED BY <1>1, Invariant, PTL

-----------------------------------------------------------------------------
(* Nothing is left behind.                                                 *)

\* Nothing in the ring, and no pipe, outlives what names it; a teardown breaks
\* it and its last step restores it.
NothingPinned ==
  /\ \A x \in Ring : ~exchange_can_settle(x)
  /\ live => inlet_refs > 0 \/ outlet_refs > 0 \/ \E x \in Ring : state[x] # "Free"

RingFull == \A x \in Ring : state[x] # "Free"

LeftInv ==
  /\ dying # NoProc => dying \in gone
  /\ dying = NoProc => NothingPinned
  /\ gone = {} /\ RoomWaiters # {} /\ ~serving => RingFull

\* A nonempty set of slots has a lowest one.
LEMMA LowestExists ==
  ASSUME NEW S \in SUBSET Nat, S # {}
  PROVE  Lowest(S) # {}
<1> DEFINE Less == {ss \in Nat \X Nat : ss[1] < ss[2]}
<1>1. IsWellFoundedOn(Less, Nat)
  BY NatLessThanWellFounded DEF OpToRel
<1>2. PICK n \in S : \A m \in S : <<m, n>> \notin Less
  BY <1>1, WFMin
<1>3. ASSUME NEW m \in S PROVE n <= m
  <2>1. m \in Nat /\ n \in Nat /\ <<m, n>> \in Nat \X Nat
    OBVIOUS
  <2>2. ~(m < n)
    BY <1>2, <2>1
  <2> QED BY <2>1, <2>2
<1> QED BY <1>3 DEF Lowest

LEMMA HeldClaim ==
  ASSUME IInv, NEW p \in Procs, NEW h \in Handles, NEW x \in Ring, table[p][h] = Claim(x)
  PROVE  state[x] # "Free" /\ reply_refs[x] = 1 /\ caller[x] = 0
<1>1. Holders(Claim(x)) # {}
  BY NotHolder
<1> QED BY <1>1 DEF IInv, RefInv, LifeInv, TypeOK

LEMMA HeldObligation ==
  ASSUME IInv, NEW p \in Procs, NEW h \in Handles, NEW x \in Ring, table[p][h] = Obligation(x)
  PROVE  state[x] = "Taken" /\ request_refs[x] = 1
<1>1. Holders(Obligation(x)) # {}
  BY NotHolder
<1> QED BY <1>1 DEF IInv, RefInv, LifeInv, TypeOK

LEMMA RingFullWhenNoneAllocated ==
  ASSUME alloc_exchange = {}
  PROVE  RingFull
<1> DEFINE Free == {x \in Ring : state[x] = "Free"}
<1> SUFFICES ASSUME NEW x \in Free PROVE FALSE
  BY DEF RingFull
<1>1. Free \subseteq Nat /\ Lowest(Free) = {}
  BY ConstantsOK DEF alloc_exchange, Ring
<1> HIDE DEF Free
<1> QED BY <1>1, LowestExists

\* A step that frees no exchange, parks nobody for room and keeps the columns
\* that settling depends on.
LEMMA LeftAsItWas ==
  ASSUME IInv, LeftInv, ~serving, ~serving',
         UNCHANGED <<call_pipe, gone, dying>>,
         \A x \in Ring : state'[x] = "Free" => state[x] = "Free",
         dying = NoProc => NothingPinned'
  PROVE  LeftInv'
BY DEF LeftInv, RingFull, RoomWaiters

\* settle_exchange: x is left in use, or it is free and the callers parked for
\* room are served.
LEMMA UnrefLeaves ==
  ASSUME IInv, LeftInv, ~serving, NEW x \in Ring, NEW rep, NEW req,
         NEW st \in ExchangeStates, NEW ks, st # "Free",
         unref_exchange(x, rep, req, st, ks),
         UNCHANGED <<inlet_refs, outlet_refs, call_pipe, gone, dying>>
  PROVE  LeftInv'
<1> DEFINE settles == can_settle(rep, req, st)
<1>t. /\ state \in [Ring -> ExchangeStates]
      /\ reply_refs \in [Ring -> 0..1]
      /\ request_refs \in [Ring -> 0..1]
      /\ inlet_refs \in Nat /\ outlet_refs \in Nat
  BY DEF IInv, TypeOK
<1>1. /\ reply_refs'[x] = rep /\ request_refs'[x] = req
      /\ state'[x] = IF settles THEN "Free" ELSE st
      /\ \A y \in Ring : y # x => /\ reply_refs'[y] = reply_refs[y]
                                  /\ request_refs'[y] = request_refs[y]
                                  /\ state'[y] = state[y]
      /\ live' = (live /\ ~(/\ settles /\ inlet_refs = 0 /\ outlet_refs = 0
                            /\ \A y \in Ring \ {x} : state[y] = "Free"))
  BY <1>t DEF unref_exchange
<1>2. ASSUME dying = NoProc PROVE NothingPinned'
  <2>1. \A y \in Ring : ~exchange_can_settle(y)
    BY <1>2 DEF LeftInv, NothingPinned
  <2>2. ASSUME NEW y \in Ring PROVE ~exchange_can_settle(y)'
    <3>1. CASE y = x
      BY <1>1, <3>1 DEF exchange_can_settle, can_settle
    <3>2. CASE y # x
      BY <1>1, <2>1, <3>2 DEF exchange_can_settle, can_settle
    <3> QED BY <3>1, <3>2
  <2>3. live' => inlet_refs > 0 \/ outlet_refs > 0 \/ \E y \in Ring : state'[y] # "Free"
    <3> SUFFICES ASSUME live', inlet_refs = 0, outlet_refs = 0
                 PROVE  \E y \in Ring : state'[y] # "Free"
      BY <1>t
    <3>1. CASE settles
      BY <1>1, <3>1
    <3>2. CASE ~settles
      BY <1>1, <3>2
    <3> QED BY <3>1, <3>2
  <2> QED BY <2>2, <2>3 DEF NothingPinned
<1>3. ASSUME gone = {}, RoomWaiters # {}, ~serving' PROVE RingFull'
  <2>1. RingFull
    BY <1>3 DEF LeftInv
  <2>2. outlet_refs > 0 /\ live
    BY <1>3, <1>t DEF RoomWaiters, IInv, RoomInv, LifeInv
  <2>3. outlet_refs # 0
    BY <1>t, <2>2
  <2>4. ~settles
    BY <1>3, <2>2, <2>3 DEF unref_exchange, notify_room
  <2> QED BY <1>1, <2>1, <2>4 DEF RingFull
<1>4. UNCHANGED RoomWaiters
  BY DEF RoomWaiters
<1> QED BY <1>2, <1>3, <1>4 DEF LeftInv

\* Staging takes a free exchange and pins it by its claim.
LEMMA StageLeaves ==
  ASSUME IInv, LeftInv, NEW x \in Ring, NEW ks, stage(x, ks),
         UNCHANGED <<live, inlet_refs, outlet_refs, gone, dying>>
  PROVE  /\ dying = NoProc => NothingPinned'
         /\ state'[x] = "Staged" /\ \A y \in Ring : y # x => state'[y] = state[y]
<1>1. /\ reply_refs'[x] = 1 /\ state'[x] = "Staged"
      /\ \A y \in Ring : y # x => /\ reply_refs'[y] = reply_refs[y]
                                  /\ request_refs'[y] = request_refs[y]
                                  /\ state'[y] = state[y]
  BY DEF stage, IInv, TypeOK
<1>2. ASSUME dying = NoProc PROVE NothingPinned'
  <2>1. \A y \in Ring : ~exchange_can_settle(y)
    BY <1>2 DEF LeftInv, NothingPinned
  <2>2. ASSUME NEW y \in Ring PROVE ~exchange_can_settle(y)'
    <3>1. CASE y = x
      BY <1>1, <3>1 DEF exchange_can_settle, can_settle
    <3>2. CASE y # x
      BY <1>1, <2>1, <3>2 DEF exchange_can_settle, can_settle
    <3> QED BY <3>1, <3>2
  <2>3. \E y \in Ring : state'[y] # "Free"
    BY <1>1
  <2> QED BY <2>2, <2>3 DEF NothingPinned
<1> QED BY <1>1, <1>2

LEMMA LeftSend ==
  ASSUME IInv, LeftInv, NEW t \in Threads, Send(t)
  PROVE  LeftInv'
<1>0. PICK h \in Handles, ks \in SendArgs(Home[t]) :
        pipe_post(t, h, ks) \/ pipe_call(t, h, ks) \/ block_on_call_room(t, h, ks)
  BY DEF Send
<1>1. ~serving /\ UNCHANGED <<live, inlet_refs, outlet_refs, serving, gone, dying>>
  BY <1>0 DEF pipe_post, pipe_call, block_on_call_room, Running, columns, kernel
<1>2. CASE pipe_post(t, h, ks) \/ pipe_call(t, h, ks)
  <2>1. UNCHANGED call_pipe
    BY <1>2 DEF pipe_post, pipe_call
  <2>2. PICK x \in Ring : stage(x, ks)
    BY <1>2, AllocType DEF pipe_post, pipe_call
  <2>3. /\ dying = NoProc => NothingPinned'
        /\ state'[x] = "Staged" /\ \A y \in Ring : y # x => state'[y] = state[y]
    BY <1>1, <2>2, StageLeaves
  <2> QED BY <1>1, <2>1, <2>3, LeftAsItWas
<1>3. CASE block_on_call_room(t, h, ks)
  <2>1. alloc_exchange = {} /\ UNCHANGED <<state, reply_refs, request_refs>>
    BY <1>3 DEF block_on_call_room, exchanges
  <2>2. RingFull
    BY <2>1, RingFullWhenNoneAllocated
  <2>3. RingFull'
    BY <2>1, <2>2 DEF RingFull
  <2>4. NothingPinned => NothingPinned'
    BY <1>1, <2>1 DEF NothingPinned, exchange_can_settle, can_settle
  <2> QED BY <1>1, <2>3, <2>4 DEF LeftInv
<1> QED BY <1>0, <1>2, <1>3

LEMMA LeftResume ==
  ASSUME IInv, LeftInv, resume_call_room
  PROVE  LeftInv'
<1>0. PICK t \in call_room_waiter, x \in alloc_exchange :
        /\ stage(x, call_args[t])
        /\ call_pipe' = [call_pipe EXCEPT ![t] = FALSE]
        /\ serving' = (RoomWaiters # {t} /\ room_after(x))
  BY DEF resume_call_room
<1>1. x \in Ring /\ t \in RoomWaiters /\ UNCHANGED <<live, inlet_refs, outlet_refs, gone, dying>>
  BY AllocType, LowestIn DEF resume_call_room, columns, call_room_waiter
<1>2. /\ dying = NoProc => NothingPinned'
      /\ state'[x] = "Staged" /\ \A y \in Ring : y # x => state'[y] = state[y]
  BY <1>0, <1>1, StageLeaves
<1>3. RoomWaiters' = RoomWaiters \ {t}
  BY <1>0, <1>1 DEF RoomWaiters, IInv, TypeOK
<1>4. ASSUME RoomWaiters' # {}, ~serving' PROVE RingFull'
  <2>1. ~room_after(x)
    BY <1>0, <1>1, <1>3, <1>4
  <2> QED BY <1>2, <2>1 DEF room_after, RingFull
<1> QED BY <1>1, <1>2, <1>4 DEF LeftInv

LEMMA LeftTake ==
  ASSUME IInv, LeftInv, NEW t \in Threads, NEW h \in Handles, pipe_take(t, h)
  PROVE  LeftInv'
<1> DEFINE x == Head(staged)
<1>1. /\ ~serving /\ UNCHANGED <<live, inlet_refs, outlet_refs, reply_refs, call_pipe,
                                   serving, gone, dying>>
      /\ staged # <<>>
      /\ request_refs' = [request_refs EXCEPT ![x] = 1]
      /\ state' = [state EXCEPT ![x] = "Taken"]
  BY DEF pipe_take, Running, columns, parked, kernel
<1>2. x \in Ring
  BY <1>1 DEF IInv, TypeOK
<1>3. /\ request_refs'[x] = 1 /\ state'[x] = "Taken"
      /\ \A y \in Ring : y # x => request_refs'[y] = request_refs[y] /\ state'[y] = state[y]
  BY <1>1, <1>2 DEF IInv, TypeOK
<1> HIDE DEF x
<1>4. ASSUME dying = NoProc PROVE NothingPinned'
  <2>1. \A y \in Ring : ~exchange_can_settle(y)
    BY <1>4 DEF LeftInv, NothingPinned
  <2>2. ASSUME NEW y \in Ring PROVE ~exchange_can_settle(y)'
    <3>1. CASE y = x
      BY <1>3, <3>1 DEF exchange_can_settle, can_settle
    <3>2. CASE y # x
      BY <1>1, <1>3, <2>1, <3>2 DEF exchange_can_settle, can_settle
    <3> QED BY <3>1, <3>2
  <2> QED BY <1>2, <1>3, <2>2 DEF NothingPinned
<1> QED BY <1>1, <1>2, <1>3, <1>4, LeftAsItWas

\* Resolve and Reply.
LEMMA LeftAnswer ==
  ASSUME IInv, LeftInv, NEW t \in Threads, Resolve(t) \/ Reply(t)
  PROVE  LeftInv'
<1>1. ASSUME NEW h \in Handles, NEW x \in Ring,
             pipe_resolve(t, h, x) \/ resolve_peer_closed(t, h, x)
      PROVE  LeftInv'
  <2>1. /\ ~serving /\ table[Home[t]][h] = Claim(x)
        /\ unref_exchange(x, 0, request_refs[x], state[x], held[x])
        /\ UNCHANGED <<inlet_refs, outlet_refs, call_pipe, gone, dying>>
    BY <1>1 DEF pipe_resolve, resolve_peer_closed, Running, parked
  <2>2. state[x] # "Free" /\ state[x] \in ExchangeStates
    BY <2>1, HomeType, HeldClaim DEF IInv, TypeOK
  <2> QED BY <2>1, <2>2, UnrefLeaves
<1>2. ASSUME NEW h \in Handles, NEW x \in Ring, park_resolve(t, h, x)
      PROVE  LeftInv'
  <2>1. ~serving /\ UNCHANGED <<live, inlet_refs, outlet_refs, state, reply_refs, request_refs,
                                call_pipe, serving, gone, dying>>
    BY <1>2 DEF park_resolve, Running, columns, exchanges, kernel
  <2>2. NothingPinned => NothingPinned'
    BY <2>1 DEF NothingPinned, exchange_can_settle, can_settle
  <2>3. dying = NoProc => NothingPinned'
    BY <2>2 DEF LeftInv
  <2> QED BY <2>1, <2>3, LeftAsItWas
<1>3. ASSUME NEW h \in Handles, NEW x \in Ring, NEW ks \in SendArgs(Home[t]),
             pipe_reply(t, h, x, ks) \/ reply_to_caller(t, h, x, ks)
      PROVE  LeftInv'
  <2>1. /\ ~serving /\ table[Home[t]][h] = Obligation(x)
        /\ UNCHANGED <<inlet_refs, outlet_refs, call_pipe, gone, dying>>
    BY <1>3 DEF pipe_reply, reply_to_caller, Running
  <2>2. {"Taken", "Replied", "Settled"} \subseteq ExchangeStates \ {"Free"}
    BY DEF ExchangeStates
  <2>3. CASE pipe_reply(t, h, x, ks)
    <3>1. unref_exchange(x, reply_refs[x], 0, "Replied", ks)
      BY <2>3 DEF pipe_reply
    <3> QED BY <2>1, <2>2, <3>1, UnrefLeaves
  <2>4. CASE reply_to_caller(t, h, x, ks)
    <3>1. unref_exchange(x, Dec(reply_refs[x]), 0, "Settled", {})
      BY <2>4 DEF reply_to_caller
    <3> QED BY <2>1, <2>2, <3>1, UnrefLeaves
  <2> QED BY <1>3, <2>3, <2>4
<1>4. ASSUME NEW h \in Handles, NEW x \in Ring, reply_peer_closed(t, h, x)
      PROVE  LeftInv'
  <2>1. /\ ~serving /\ table[Home[t]][h] = Obligation(x)
        /\ unref_exchange(x, reply_refs[x], 0, state[x], held[x])
        /\ UNCHANGED <<inlet_refs, outlet_refs, call_pipe, gone, dying>>
    BY <1>4 DEF reply_peer_closed, Running, parked
  <2>2. state[x] # "Free" /\ state[x] \in ExchangeStates
    BY <2>1, HomeType, HeldObligation DEF IInv, TypeOK
  <2> QED BY <2>1, <2>2, UnrefLeaves
<1> QED BY <1>1, <1>2, <1>3, <1>4 DEF Resolve, Reply

\* A step that only moves the counts of the two ends, neither to zero.
LEMMA EndsLeave ==
  ASSUME IInv, LeftInv, ~serving,
         UNCHANGED <<state, reply_refs, request_refs, call_pipe, serving, gone, dying>>,
         outlet_refs' = 0 => outlet_refs = 0,
         live' => inlet_refs' > 0 \/ outlet_refs' > 0 \/ \E x \in Ring : state[x] # "Free"
  PROVE  LeftInv'
<1>1. ASSUME dying = NoProc PROVE NothingPinned'
  <2>1. \A x \in Ring : ~exchange_can_settle(x)
    BY <1>1 DEF LeftInv, NothingPinned
  <2>2. ASSUME NEW x \in Ring PROVE ~exchange_can_settle(x)'
    BY <2>1 DEF exchange_can_settle, can_settle
  <2> QED BY <2>2 DEF NothingPinned
<1> QED BY <1>1, LeftAsItWas

LEMMA LeftHandle ==
  ASSUME IInv, LeftInv, NEW t \in Threads, NEW h \in Handles, NEW q \in Procs,
         pipe_create(t) \/ mint_sibling(t, h) \/ move_entry(t, q, h)
  PROVE  LeftInv'
<1>0. /\ ~serving /\ dying = NoProc
      /\ UNCHANGED <<state, reply_refs, request_refs, call_pipe, serving, gone, dying>>
  BY DEF pipe_create, mint_sibling, move_entry, Running, exchanges, parked, kernel
<1>t. inlet_refs \in Nat /\ outlet_refs \in Nat
  BY DEF IInv, TypeOK
<1>1. CASE pipe_create(t)
  <2>1. inlet_refs' = 1 /\ outlet_refs' = 1
    BY <1>1 DEF pipe_create
  <2> QED BY <1>0, <2>1, EndsLeave
<1>2. CASE mint_sibling(t, h)
  <2>1. /\ table[Home[t]][h] \in {Inlet, Outlet}
        /\ inlet_refs' = IF table[Home[t]][h] = Inlet THEN inlet_refs + 1 ELSE inlet_refs
        /\ outlet_refs' = IF table[Home[t]][h] = Outlet THEN outlet_refs + 1 ELSE outlet_refs
    BY <1>2 DEF mint_sibling
  <2>2. inlet_refs' > 0 \/ outlet_refs' > 0
    BY <1>t, <2>1
  <2>3. outlet_refs' = 0 => outlet_refs = 0
    BY <1>t, <2>1
  <2> QED BY <1>0, <2>2, <2>3, EndsLeave
<1>3. CASE move_entry(t, q, h)
  <2>1. UNCHANGED <<live, inlet_refs, outlet_refs>>
    BY <1>3 DEF move_entry, columns
  <2>2. live => inlet_refs > 0 \/ outlet_refs > 0 \/ \E x \in Ring : state[x] # "Free"
    BY <1>0 DEF LeftInv, NothingPinned
  <2> QED BY <1>0, <2>1, <2>2, EndsLeave
<1> QED BY <1>1, <1>2, <1>3

\* The last outlet goes: what it pinned is answered and freed, and with it the
\* callers parked for room.
LEMMA LeftLastOutlet ==
  ASSUME IInv, LeftInv, ~serving, dying = NoProc, drop_last_outlet(TRUE),
         UNCHANGED <<gone, dying>>
  PROVE  LeftInv'
<1>t. /\ state \in [Ring -> ExchangeStates]
      /\ reply_refs \in [Ring -> 0..1] /\ request_refs \in [Ring -> 0..1]
      /\ inlet_refs \in Nat
  BY DEF IInv, TypeOK
<1>1. /\ outlet_refs = 1 /\ outlet_refs' = 0 /\ inlet_refs' = inlet_refs
      /\ \A x \in Ring : state'[x] = IF x \in Doomed THEN "Free" ELSE state[x]
      /\ \A x \in Ring : x \notin Doomed => reply_refs'[x] = reply_refs[x]
      /\ request_refs' = request_refs /\ serving' = serving
      /\ \A u \in Threads : ~call_pipe'[u]
      /\ live' => ~(inlet_refs = 0 /\ \A x \in Ring \ Doomed : state[x] = "Free")
  BY DEF drop_last_outlet
<1>2. ASSUME NEW x \in Ring PROVE ~exchange_can_settle(x)'
  <2>1. CASE x \in Doomed
    BY <1>1, <2>1 DEF exchange_can_settle, can_settle
  <2>2. CASE x \notin Doomed
    <3>1. ~can_settle(reply_refs[x], request_refs[x], state[x])
      BY DEF LeftInv, NothingPinned, exchange_can_settle
    <3>2. state[x] = "Staged" => reply_refs[x] # 0 /\ request_refs[x] = 0
      BY <2>2, <1>t DEF Doomed, IInv, LifeInv
    <3> QED BY <1>1, <2>2, <3>1, <3>2 DEF exchange_can_settle, can_settle
  <2> QED BY <2>1, <2>2
<1>3. live' => inlet_refs' > 0 \/ outlet_refs' > 0 \/ \E x \in Ring : state'[x] # "Free"
  <2> SUFFICES ASSUME live', inlet_refs' = 0 PROVE \E x \in Ring : state'[x] # "Free"
    BY <1>1, <1>t
  <2>1. PICK x \in Ring \ Doomed : state[x] # "Free"
    BY <1>1
  <2> QED BY <1>1, <2>1
<1>4. NothingPinned'
  BY <1>2, <1>3 DEF NothingPinned
<1>5. RoomWaiters' = {}
  BY <1>1 DEF RoomWaiters
<1> QED BY <1>4, <1>5 DEF LeftInv

LEMMA LeftRelease ==
  ASSUME IInv, LeftInv, NEW t \in Threads, NEW h \in Handles, release_handle(t, h)
  PROVE  LeftInv'
<1> DEFINE p == Home[t]
<1>0. /\ ~serving /\ dying = NoProc /\ UNCHANGED <<gone, dying>> /\ p \in Procs
      /\ drop_reference(p, h, TRUE)
  BY HomeType DEF release_handle, Running, drop_reference
<1>t. /\ inlet_refs \in Nat /\ outlet_refs \in Nat
      /\ state \in [Ring -> ExchangeStates]
  BY DEF IInv, TypeOK
<1>n. live => inlet_refs > 0 \/ outlet_refs > 0 \/ \E x \in Ring : state[x] # "Free"
  BY <1>0 DEF LeftInv, NothingPinned
<1> HIDE DEF p
<1>1. CASE table[p][h] = Inlet /\ drop_inlet(TRUE)
  <2>1. /\ inlet_refs' = Dec(inlet_refs) /\ inlet_refs > 0
        /\ live' => ~(inlet_refs = 1 /\ outlet_refs = 0 /\ pipe_idle)
        /\ UNCHANGED <<outlet_refs, state, reply_refs, request_refs, call_pipe, serving>>
    BY <1>0, <1>1, HolderCounted DEF drop_inlet, exchanges, parked
  <2>2. inlet_refs = 1 \/ inlet_refs' > 0
    BY <1>t, <2>1 DEF Dec
  <2>3. live' => inlet_refs' > 0 \/ outlet_refs' > 0 \/ \E x \in Ring : state[x] # "Free"
    BY <1>t, <2>1, <2>2 DEF pipe_idle
  <2> QED BY <1>0, <2>1, <2>3, EndsLeave
<1>2. CASE table[p][h] = Outlet /\ drop_outlet(TRUE)
  <2>1. /\ outlet_refs' = Dec(outlet_refs) /\ outlet_refs > 0 /\ outlet_refs # 1
        /\ UNCHANGED <<inlet_refs, live, state, reply_refs, request_refs, call_pipe, serving>>
    BY <1>0, <1>2, HolderCounted DEF drop_outlet, exchanges, parked
  <2>2. outlet_refs' > 0 /\ outlet_refs' # 0
    BY <1>t, <2>1 DEF Dec
  <2> QED BY <1>0, <2>1, <2>2, EndsLeave
<1>3. CASE drop_last_outlet(TRUE)
  BY <1>0, <1>3, LeftLastOutlet
<1>4. ASSUME NEW x \in Ring, table[p][h] = Claim(x), drop_claim(x, TRUE) PROVE LeftInv'
  <2>1. /\ unref_exchange(x, Dec(reply_refs[x]), request_refs[x], state[x], held[x])
        /\ UNCHANGED <<inlet_refs, outlet_refs, call_pipe, gone, dying>>
    BY <1>0, <1>4 DEF drop_claim, parked
  <2>2. state[x] # "Free" /\ state[x] \in ExchangeStates
    BY <1>0, <1>4, <1>t, HeldClaim
  <2> QED BY <1>0, <2>1, <2>2, UnrefLeaves
<1>5. ASSUME NEW x \in Ring, table[p][h] = Obligation(x), drop_obligation(x, TRUE)
      PROVE  LeftInv'
  <2>1. UNCHANGED <<inlet_refs, outlet_refs, call_pipe, gone, dying>>
    BY <1>0, <1>5 DEF drop_obligation
  <2>2. state[x] = "Taken" /\ {"Taken", "Settled"} \subseteq ExchangeStates \ {"Free"}
    BY <1>0, <1>5, HeldObligation DEF ExchangeStates
  <2>3. CASE unref_exchange(x, Dec(reply_refs[x]), Dec(request_refs[x]), "Settled", held[x])
    BY <1>0, <2>1, <2>2, <2>3, UnrefLeaves
  <2>4. CASE unref_exchange(x, reply_refs[x], Dec(request_refs[x]), state[x], held[x])
    BY <1>0, <2>1, <2>2, <2>4, UnrefLeaves
  <2> QED BY <1>5, <2>3, <2>4 DEF drop_obligation
<1>6. ASSUME NEW k \in Caps, drop_cap(p, k) PROVE LeftInv'
  <2>1. UNCHANGED <<inlet_refs, outlet_refs, live, state, reply_refs, request_refs, call_pipe,
                    serving>>
    BY <1>6 DEF drop_cap, columns, exchanges
  <2> QED BY <1>0, <1>n, <2>1, EndsLeave
<1> QED BY <1>0, <1>1, <1>2, <1>3, <1>4, <1>5, <1>6 DEF drop_reference

\* A teardown pins and leaves what it likes until its last step.
LEMMA LeftTeardown ==
  ASSUME IInv, LeftInv,
         \/ \E p \in Procs : end_process(p)
         \/ release_pending_calls \/ close_all \/ reap_unreferenced
  PROVE  LeftInv'
<1>1. ASSUME NEW p \in Procs, end_process(p) PROVE LeftInv'
  BY <1>1, ConstantsOK DEF end_process, LeftInv
<1>2. CASE release_pending_calls \/ close_all
  <2>1. dying # NoProc /\ UNCHANGED <<gone, dying>>
    BY <1>2 DEF release_pending_calls, close_all, drop_reference
  <2> QED BY <2>1 DEF LeftInv
<1>3. CASE reap_unreferenced
  <2>1. gone # {} /\ gone' = gone /\ dying' = NoProc
    BY <1>3 DEF reap_unreferenced, LeftInv
  <2>2. NothingPinned'
    <3> DEFINE reaped == {x \in Ring : exchange_can_settle(x)}
    <3>1. /\ \A x \in Ring : state'[x] = IF x \in reaped THEN "Free" ELSE state[x]
          /\ UNCHANGED <<inlet_refs, outlet_refs, reply_refs, request_refs>>
          /\ live' => ~(/\ inlet_refs = 0 /\ outlet_refs = 0
                        /\ \A x \in Ring \ reaped : state[x] = "Free")
      BY <1>3 DEF reap_unreferenced
    <3>2. \A x \in Ring : ~exchange_can_settle(x)'
      BY <3>1 DEF exchange_can_settle, can_settle
    <3>3. inlet_refs \in Nat /\ outlet_refs \in Nat
      BY DEF IInv, TypeOK
    <3>4. live' => inlet_refs' > 0 \/ outlet_refs' > 0 \/ \E x \in Ring : state'[x] # "Free"
      <4> SUFFICES ASSUME live', inlet_refs = 0, outlet_refs = 0
                   PROVE  \E x \in Ring : state'[x] # "Free"
        BY <3>1, <3>3
      <4>1. PICK x \in Ring \ reaped : state[x] # "Free"
        BY <3>1
      <4> QED BY <3>1, <4>1
    <3> QED BY <3>2, <3>4 DEF NothingPinned
  <2> QED BY <2>1, <2>2 DEF LeftInv
<1> QED BY <1>1, <1>2, <1>3

LEMMA LeftStep == IInv /\ LeftInv /\ [Next]_vars => LeftInv'
<1> SUFFICES ASSUME IInv, LeftInv, [Next]_vars PROVE LeftInv'
  OBVIOUS
<1>1. ASSUME NEW t \in Threads, Syscall(t) PROVE LeftInv'
  <2>1. CASE HandleOp(t)
    <3>1. Home[t] \in Procs /\ 1 \in Handles
      BY HomeType, ConstantsOK DEF Handles
    <3>2. pipe_create(t) => LeftInv'
      BY <3>1, LeftHandle
    <3>3. ASSUME NEW h \in Handles, mint_sibling(t, h) PROVE LeftInv'
      BY <3>1, <3>3, LeftHandle
    <3>4. ASSUME NEW h \in Handles, NEW q \in Procs, move_entry(t, q, h) PROVE LeftInv'
      BY <3>4, LeftHandle
    <3> QED BY <2>1, <3>2, <3>3, <3>4, LeftRelease DEF HandleOp
  <2> QED BY <1>1, <2>1, LeftSend, LeftTake, LeftAnswer DEF Syscall, Take
<1>2. CASE UNCHANGED vars
  <2>1. UNCHANGED <<live, inlet_refs, outlet_refs, state, reply_refs, request_refs, call_pipe,
                    serving, gone, dying>>
    BY <1>2 DEF vars
  <2>2. NothingPinned' <=> NothingPinned
    BY <2>1 DEF NothingPinned, exchange_can_settle, can_settle
  <2> QED BY <2>1, <2>2 DEF LeftInv, RoomWaiters, RingFull
<1> QED BY <1>1, <1>2, LeftResume, LeftTeardown DEF Next, Kernel

LEMMA LeftInit == Init => LeftInv
BY DEF Init, LeftInv, NothingPinned, exchange_can_settle, can_settle, RoomWaiters

\* The invariants together say what NothingLeftBehind says.
LEMMA LeftImplies == IInv /\ LeftInv => NothingLeftBehind
<1> SUFFICES ASSUME IInv, LeftInv PROVE NoLeak /\ RoomWhileAlive
  BY DEF NothingLeftBehind
<1>1. NoLeak
  BY DEF NoLeak, LeftInv, NothingPinned, pipe_idle
<1>2. ASSUME gone = {}, RoomWaiters # {}, ~serving PROVE alloc_exchange = {} /\ outlet_refs > 0
  <2>1. RingFull
    BY <1>2 DEF LeftInv
  <2>2. alloc_exchange = {}
    BY <2>1 DEF RingFull, alloc_exchange, Lowest
  <2> QED BY <1>2, <2>2 DEF RoomWaiters, IInv, RoomInv
<1>3. RoomWhileAlive
  BY <1>2 DEF RoomWhileAlive, RoomWaitersFull
<1> QED BY <1>1, <1>3

\* Between two syscalls no exchange and no pipe is held by nothing, and as long
\* as every process lives no caller stays parked for room that is there:
\* settle_exchange, pipe_frees_now, pipe_drop_staged, reap_unreferenced and the
\* notify_room loop leave nothing behind, whatever the sizes of the tables.
THEOREM NothingIsLeft == Spec => []NothingLeftBehind
<1>1. Spec => []LeftInv
  BY Invariant, LeftInit, LeftStep, PTL DEF Spec
<1> QED BY <1>1, Invariant, LeftImplies, PTL

-----------------------------------------------------------------------------
(* The contract of a waiting thread.                                       *)

LEMMA PhaseAt ==
  /\ phase \in [Threads -> {"idle", "sent", "served", "gone"}]
  /\ \A u \in Threads :
       phase[u] = IF Home[u] \in gone THEN "gone"
                  ELSE IF call_pipe[u] THEN "sent"
                  ELSE IF call_claim[u] = 0 THEN "idle"
                  ELSE IF state[call_claim[u]] = "Staged" THEN "sent" ELSE "served"
BY DEF phase

LEMMA PhaseAfter ==
  /\ phase' = [u \in Threads |-> phase'[u]]
  /\ \A u \in Threads :
       phase'[u] = IF Home[u] \in gone' THEN "gone"
                   ELSE IF call_pipe'[u] THEN "sent"
                   ELSE IF call_claim'[u] = 0 THEN "idle"
                   ELSE IF state'[call_claim'[u]] = "Staged" THEN "sent" ELSE "served"
BY DEF phase

LEMMA ContractOther ==
  ASSUME \A u \in Threads : phase'[u] = phase[u], answered' = Quiet
  PROVE  Contract!CNext
<1>1. phase' = phase
  BY PhaseAt, PhaseAfter
<1> QED BY <1>1 DEF Contract!CNext, Contract!Other, Contract!Silence, Quiet

LEMMA ContractPark ==
  ASSUME NEW t \in Threads, phase[t] = "idle", phase'[t] \in {"sent", "served"},
         \A u \in Threads : u # t => phase'[u] = phase[u], answered' = Quiet
  PROVE  Contract!CNext
<1>1. phase' = [phase EXCEPT ![t] = phase'[t]]
  BY PhaseAt, PhaseAfter
<1> QED BY <1>1 DEF Contract!CNext, Contract!Park, Contract!Silence, Quiet

LEMMA ContractServe ==
  ASSUME NEW t \in Threads, phase[t] = "sent", phase'[t] = "served",
         \A u \in Threads : u # t => phase'[u] = phase[u], answered' = Quiet
  PROVE  Contract!CNext
<1>1. phase' = [phase EXCEPT ![t] = "served"]
  BY PhaseAt, PhaseAfter
<1> QED BY <1>1 DEF Contract!CNext, Contract!Serve, Contract!Silence, Quiet

LEMMA ContractAnswer ==
  ASSUME NEW t \in Threads, phase[t] = "served", phase'[t] = "idle",
         \A u \in Threads : u # t => phase'[u] = phase[u],
         NEW status \in {"Ok", "Refused", "PeerClosed"},
         answered' = [Quiet EXCEPT ![t] = status]
  PROVE  Contract!CNext
<1>1. phase' = [phase EXCEPT ![t] = "idle"]
  BY PhaseAt, PhaseAfter
<1>2. answered' = [u \in Threads |-> IF u \in {t} THEN status ELSE "None"]
  BY DEF Quiet
<1>3. answered' = Contract!Answer({t}, status)
  BY <1>2 DEF Contract!Answer
<1>4. Contract!Reply(t) \/ Contract!GiveUp(t)
  <2>1. CASE status \in {"Ok", "Refused"}
    BY <1>1, <1>3, <2>1 DEF Contract!Reply
  <2>2. CASE status = "PeerClosed"
    BY <1>1, <1>3, <2>2 DEF Contract!GiveUp
  <2> QED BY <2>1, <2>2
<1> QED BY <1>4 DEF Contract!CNext

LEMMA Tied ==
  ASSUME IInv, NEW u \in Threads, call_claim[u] # 0
  PROVE  /\ call_claim[u] \in Ring
         /\ caller[call_claim[u]] = u
         /\ u # 0
         /\ ~call_pipe[u]
         /\ Home[u] \notin gone \ {dying}
         /\ state[call_claim[u]] \in {"Staged", "Taken"}
<1>1. call_claim[u] \in Ring /\ u # 0
  BY ConstantsOK DEF IInv, TypeOK, Threads
<1> QED BY <1>1 DEF IInv, CallerTie

\* A step that leaves the parked threads alone and changes the state of no
\* exchange with a caller shows the contract nothing.
LEMMA ContractAside ==
  ASSUME IInv, UNCHANGED <<call_pipe, call_claim, gone>>, answered' = Quiet,
         \A x \in Ring : caller[x] # 0 => state'[x] = state[x]
  PROVE  Contract!CNext
<1>1. ASSUME NEW u \in Threads PROVE phase'[u] = phase[u]
  <2>1. call_claim[u] # 0 => state'[call_claim[u]] = state[call_claim[u]]
    BY Tied
  <2> QED BY <2>1, PhaseAt, PhaseAfter
<1> QED BY <1>1, ContractOther

\* A thread parks on x, for which no other thread waits.
LEMMA ContractParks ==
  ASSUME IInv, NEW t \in Threads, NEW x \in Ring, caller[x] = 0,
         Home[t] \notin gone, ~call_pipe[t], call_claim[t] = 0,
         call_claim' = [call_claim EXCEPT ![t] = x], UNCHANGED <<call_pipe, gone>>,
         \A y \in Ring : y # x => state'[y] = state[y], answered' = Quiet
  PROVE  Contract!CNext
<1>0. x # 0 /\ call_claim'[t] = x /\ \A u \in Threads : u # t => call_claim'[u] = call_claim[u]
  BY ConstantsOK DEF Ring, IInv, TypeOK
<1>1. phase[t] = "idle" /\ phase'[t] \in {"sent", "served"}
  BY <1>0, PhaseAt, PhaseAfter
<1>2. ASSUME NEW u \in Threads, u # t PROVE phase'[u] = phase[u]
  <2>1. call_claim[u] # 0 => state'[call_claim[u]] = state[call_claim[u]]
    BY Tied
  <2> QED BY <1>0, <1>2, <2>1, PhaseAt, PhaseAfter
<1> QED BY <1>1, <1>2, ContractPark

LEMMA ContractSend ==
  ASSUME IInv, NEW t \in Threads, Send(t)
  PROVE  Contract!CNext
<1>0. PICK h \in Handles, ks \in SendArgs(Home[t]) :
        pipe_post(t, h, ks) \/ pipe_call(t, h, ks) \/ block_on_call_room(t, h, ks)
  BY DEF Send
<1>1. /\ Home[t] \notin gone /\ ~call_pipe[t] /\ call_claim[t] = 0
      /\ answered' = Quiet /\ gone' = gone
  BY <1>0 DEF pipe_post, pipe_call, block_on_call_room, Running, kernel
<1>2. CASE pipe_post(t, h, ks)
  <2>1. PICK x \in alloc_exchange : stage(x, ks)
    BY <1>2 DEF pipe_post
  <2>2. caller[x] = 0 /\ \A y \in Ring : y # x => state'[y] = state[y]
    BY <2>1, FreeExchange, FreeUnnamed DEF stage, IInv, TypeOK
  <2>3. UNCHANGED <<call_pipe, call_claim>>
    BY <1>2 DEF pipe_post
  <2> QED BY <1>1, <2>2, <2>3, ContractAside
<1>3. CASE pipe_call(t, h, ks)
  <2>1. PICK x \in alloc_exchange : stage(x, ks) /\ call_claim' = [call_claim EXCEPT ![t] = x]
    BY <1>3 DEF pipe_call
  <2>2. x \in Ring /\ caller[x] = 0 /\ \A y \in Ring : y # x => state'[y] = state[y]
    BY <2>1, FreeExchange, FreeUnnamed DEF stage, IInv, TypeOK
  <2>3. UNCHANGED call_pipe
    BY <1>3 DEF pipe_call
  <2> QED BY <1>1, <2>1, <2>2, <2>3, ContractParks
<1>4. CASE block_on_call_room(t, h, ks)
  <2>1. /\ call_pipe'[t] /\ \A u \in Threads : u # t => call_pipe'[u] = call_pipe[u]
        /\ UNCHANGED <<call_claim, state>>
    BY <1>4 DEF block_on_call_room, exchanges, IInv, TypeOK
  <2>2. phase[t] = "idle" /\ phase'[t] = "sent"
    BY <1>1, <2>1, PhaseAt, PhaseAfter
  <2>3. \A u \in Threads : u # t => phase'[u] = phase[u]
    BY <1>1, <2>1, PhaseAt, PhaseAfter
  <2> QED BY <1>1, <2>2, <2>3, ContractPark
<1> QED BY <1>0, <1>2, <1>3, <1>4

\* A caller served a ring slot was and stays unserved to the contract.
LEMMA ContractResume ==
  ASSUME IInv, resume_call_room
  PROVE  Contract!CNext
<1>0. PICK t \in call_room_waiter, x \in alloc_exchange :
        /\ stage(x, call_args[t])
        /\ call_claim' = [call_claim EXCEPT ![t] = x]
        /\ call_pipe' = [call_pipe EXCEPT ![t] = FALSE]
  BY DEF resume_call_room
<1>1. /\ t \in Threads /\ call_pipe[t] /\ Home[t] \notin gone
      /\ x \in Ring /\ caller[x] = 0 /\ x # 0
      /\ answered' = Quiet /\ gone' = gone
  BY ConstantsOK, LowestIn, FreeExchange, FreeUnnamed
     DEF resume_call_room, call_room_waiter, RoomWaiters, IInv, RoomInv, Ring
<1>2. /\ call_claim'[t] = x /\ ~call_pipe'[t] /\ state'[x] = "Staged"
      /\ \A u \in Threads : u # t => call_claim'[u] = call_claim[u] /\ call_pipe'[u] = call_pipe[u]
      /\ \A y \in Ring : y # x => state'[y] = state[y]
  BY <1>0, <1>1 DEF stage, IInv, TypeOK
<1>3. phase[t] = "sent" /\ phase'[t] = "sent"
  BY <1>1, <1>2, PhaseAt, PhaseAfter
<1>4. ASSUME NEW u \in Threads, u # t PROVE phase'[u] = phase[u]
  <2>1. call_claim[u] # 0 => state'[call_claim[u]] = state[call_claim[u]]
    BY <1>1, <1>2, Tied
  <2> QED BY <1>1, <1>2, <1>4, <2>1, PhaseAt, PhaseAfter
<1>5. \A u \in Threads : phase'[u] = phase[u]
  BY <1>3, <1>4
<1> QED BY <1>1, <1>5, ContractOther

LEMMA ContractTake ==
  ASSUME IInv, NEW t \in Threads, NEW h \in Handles, pipe_take(t, h)
  PROVE  Contract!CNext
<1> DEFINE x == Head(staged)
<1>1. /\ staged # <<>> /\ dying = NoProc /\ answered' = Quiet
      /\ state' = [state EXCEPT ![x] = "Taken"]
      /\ UNCHANGED <<caller, call_pipe, call_claim, gone>>
  BY DEF pipe_take, Running, parked, kernel
<1>2. /\ x \in Ring /\ state[x] = "Staged" /\ state'[x] = "Taken"
      /\ \A y \in Ring : y # x => state'[y] = state[y]
  <2>1. staged \in Seq(Ring) /\ x = staged[1] /\ x \in Ring /\ 1 \in 1..Len(staged)
    BY <1>1 DEF IInv, TypeOK
  <2>2. state[x] = "Staged"
    BY <2>1 DEF IInv, StagedQueue
  <2> QED BY <1>1, <2>1, <2>2 DEF IInv, TypeOK
<1> HIDE DEF x
<1>3. CASE caller[x] = 0
  <2>1. \A y \in Ring : caller[y] # 0 => state'[y] = state[y]
    BY <1>2, <1>3
  <2> QED BY <1>1, <2>1, ContractAside
<1>4. CASE caller[x] # 0
  <2> DEFINE c == caller[x]
  <2>1. c \in Threads /\ call_claim[c] = x /\ x # 0
    BY <1>2, <1>4, ConstantsOK DEF IInv, TypeOK, CallerTie, Ring
  <2>2. ~call_pipe[c] /\ Home[c] \notin gone
    BY <1>1, <2>1, Tied, ConstantsOK DEF IInv, TypeOK
  <2>3. phase[c] = "sent" /\ phase'[c] = "served"
    BY <1>1, <1>2, <2>1, <2>2, PhaseAt, PhaseAfter
  <2>4. ASSUME NEW u \in Threads, u # c PROVE phase'[u] = phase[u]
    <3>1. call_claim[u] # 0 => call_claim[u] \in Ring /\ call_claim[u] # x
      BY <2>4, Tied
    <3> QED BY <1>1, <1>2, <3>1, PhaseAt, PhaseAfter
  <2> HIDE DEF c
  <2> QED BY <1>1, <2>1, <2>3, <2>4, ContractServe
<1> QED BY <1>3, <1>4

\* The caller of x is answered, whoever drops the obligation.
LEMMA ContractWakes ==
  ASSUME IInv, NEW x \in Ring, caller[x] # 0, state[x] = "Taken", Home[caller[x]] # dying,
         NEW status \in {"Ok", "Refused", "PeerClosed"}, wake_call_reply(x, status),
         \A y \in Ring : y # x => state'[y] = state[y],
         UNCHANGED <<call_pipe, gone>>
  PROVE  Contract!CNext
<1> DEFINE c == caller[x]
<1>1. c \in Threads /\ call_claim[c] = x /\ x # 0
  BY ConstantsOK DEF IInv, TypeOK, CallerTie, Ring
<1>2. ~call_pipe[c] /\ Home[c] \notin gone
  BY <1>1, Tied
<1>3. /\ call_claim'[c] = 0 /\ answered' = [Quiet EXCEPT ![c] = status]
      /\ \A u \in Threads : u # c => call_claim'[u] = call_claim[u]
  BY <1>1 DEF wake_call_reply, IInv, TypeOK
<1>4. phase[c] = "served" /\ phase'[c] = "idle"
  BY <1>1, <1>2, <1>3, PhaseAt, PhaseAfter
<1>5. ASSUME NEW u \in Threads, u # c PROVE phase'[u] = phase[u]
  <2>1. call_claim[u] # 0 => call_claim[u] \in Ring /\ call_claim[u] # x
    BY <1>5, Tied
  <2> QED BY <1>3, <1>5, <2>1, PhaseAt, PhaseAfter
<1> HIDE DEF c
<1> QED BY <1>1, <1>3, <1>4, <1>5, ContractAnswer

LEMMA ContractResolve ==
  ASSUME IInv, NEW t \in Threads, NEW h \in Handles, NEW x \in Ring,
         pipe_resolve(t, h, x) \/ resolve_peer_closed(t, h, x) \/ park_resolve(t, h, x)
  PROVE  Contract!CNext
<1>1. /\ table[Home[t]][h] = Claim(x) /\ answered' = Quiet /\ UNCHANGED <<call_pipe, gone>>
      /\ Home[t] \notin gone /\ ~call_pipe[t] /\ call_claim[t] = 0
  BY DEF pipe_resolve, resolve_peer_closed, park_resolve, Running, parked, kernel
<1>2. caller[x] = 0
  BY <1>1, HomeType, HeldClaim
<1>3. CASE pipe_resolve(t, h, x) \/ resolve_peer_closed(t, h, x)
  <2>1. /\ unref_exchange(x, 0, request_refs[x], state[x], held[x])
        /\ UNCHANGED call_claim
    BY <1>3 DEF pipe_resolve, resolve_peer_closed, parked
  <2>2. \A y \in Ring : caller[y] # 0 => state'[y] = state[y]
    BY <1>2, <2>1, UnrefOthers DEF IInv
  <2> QED BY <1>1, <2>1, <2>2, ContractAside
<1>4. CASE park_resolve(t, h, x)
  <2>1. call_claim' = [call_claim EXCEPT ![t] = x] /\ UNCHANGED state
    BY <1>4 DEF park_resolve, exchanges
  <2> QED BY <1>1, <1>2, <2>1, ContractParks
<1> QED BY <1>3, <1>4

LEMMA ContractReply ==
  ASSUME IInv, NEW t \in Threads, NEW h \in Handles, NEW x \in Ring, NEW ks,
         reply_peer_closed(t, h, x) \/ pipe_reply(t, h, x, ks) \/ reply_to_caller(t, h, x, ks)
  PROVE  Contract!CNext
<1>1. /\ table[Home[t]][h] = Obligation(x) /\ dying = NoProc /\ UNCHANGED <<call_pipe, gone>>
  BY DEF reply_peer_closed, pipe_reply, reply_to_caller, Running, parked
<1>2. state[x] = "Taken"
  BY <1>1, HomeType, HeldObligation
<1>3. CASE reply_peer_closed(t, h, x) \/ pipe_reply(t, h, x, ks)
  <2>1. caller[x] = 0 /\ answered' = Quiet /\ UNCHANGED call_claim
    BY <1>2, <1>3 DEF reply_peer_closed, pipe_reply, parked, IInv, RefInv
  <2>2. \A y \in Ring \ {x} : state'[y] = state[y]
    BY <1>3, UnrefOthers DEF reply_peer_closed, pipe_reply, IInv
  <2> QED BY <1>1, <2>1, <2>2, ContractAside
<1>4. CASE reply_to_caller(t, h, x, ks)
  <2>1. /\ caller[x] # 0
        /\ unref_exchange(x, Dec(reply_refs[x]), 0, "Settled", {})
        /\ wake_call_reply(x, "Ok") \/ wake_call_reply(x, "Refused")
    BY <1>4 DEF reply_to_caller
  <2>2. \A y \in Ring : y # x => state'[y] = state[y]
    BY <2>1, UnrefOthers DEF IInv
  <2>3. Home[caller[x]] # dying
    <3>1. caller[x] \in Threads
      BY <2>1 DEF IInv, TypeOK
    <3> QED BY <1>1, <3>1, HomeType, ConstantsOK
  <2> QED BY <1>1, <1>2, <2>1, <2>2, <2>3, ContractWakes
<1> QED BY <1>3, <1>4

LEMMA ContractHandle ==
  ASSUME IInv, NEW t \in Threads, NEW h, NEW q,
         pipe_create(t) \/ mint_sibling(t, h) \/ move_entry(t, q, h)
  PROVE  Contract!CNext
<1>1. answered' = Quiet /\ UNCHANGED <<call_pipe, call_claim, gone, state>>
  BY DEF pipe_create, mint_sibling, move_entry, exchanges, parked, kernel
<1> QED BY <1>1, ContractAside

\* The last outlet goes: the threads it wakes are those the contract calls
\* unserved.
LEMMA ContractLastOutlet ==
  ASSUME IInv, NEW full, Orphans = {}, drop_last_outlet(full), UNCHANGED <<gone, dying>>
  PROVE  Contract!CNext
<1> DEFINE woken == {t \in Threads : call_pipe[t] \/ call_claim[t] \in Doomed}
<1>t. \A y \in Ring : y # 0
  BY ConstantsOK DEF Ring
<1>1. /\ \A u \in Threads : ~call_pipe'[u]
      /\ \A u \in Threads : call_claim'[u] = IF u \in woken THEN 0 ELSE call_claim[u]
      /\ answered' = [u \in Threads |-> IF u \in woken THEN "PeerClosed" ELSE "None"]
      /\ \A x \in Ring : state'[x] = IF x \in Doomed THEN "Free" ELSE state[x]
      /\ Doomed \subseteq Ring
  BY DEF drop_last_outlet, Doomed
<1>2. ASSUME NEW u \in Threads PROVE u \in woken <=> phase[u] = "sent"
  <2>1. CASE call_pipe[u]
    BY <2>1, PhaseAt DEF IInv, RoomInv
  <2>2. CASE ~call_pipe[u] /\ call_claim[u] = 0
    BY <1>1, <1>t, <2>2, PhaseAt
  <2>3. CASE call_claim[u] # 0
    <3>1. /\ call_claim[u] \in Ring /\ caller[call_claim[u]] # 0 /\ ~call_pipe[u]
          /\ Home[u] \notin gone
      BY <2>3, Tied DEF Orphans
    <3>2. call_claim[u] \in Doomed <=> state[call_claim[u]] = "Staged"
      <4>1. state[call_claim[u]] = "Staged" => request_refs[call_claim[u]] = 0
        BY <3>1 DEF IInv, LifeInv
      <4> QED BY <3>1, <4>1 DEF Doomed
    <3> QED BY <2>3, <3>1, <3>2, PhaseAt
  <2> QED BY <2>1, <2>2, <2>3
<1> HIDE DEF woken
<1>3. ASSUME NEW u \in Threads PROVE phase'[u] = IF phase[u] = "sent" THEN "idle" ELSE phase[u]
  <2>1. CASE u \in woken
    <3>1. phase[u] = "sent" /\ Home[u] \notin gone
      BY <1>2, <2>1, PhaseAt
    <3> QED BY <1>1, <2>1, <3>1, PhaseAfter
  <2>2. CASE u \notin woken
    <3>1. call_claim[u] # 0 => /\ call_claim[u] \in Ring
                               /\ state'[call_claim[u]] = state[call_claim[u]]
      BY <1>1, <2>2, Tied DEF woken
    <3>2. ~call_pipe[u]
      BY <2>2 DEF woken
    <3> QED BY <1>1, <1>2, <2>2, <3>1, <3>2, PhaseAt, PhaseAfter
  <2> QED BY <2>1, <2>2
<1>4. phase' = [u \in Threads |-> IF phase[u] = "sent" THEN "idle" ELSE phase[u]]
  BY <1>3, PhaseAfter
<1>5. answered' = [u \in Threads |-> IF u \in {w \in Threads : phase[w] = "sent"}
                                     THEN "PeerClosed" ELSE "None"]
  BY <1>1, <1>2
<1> QED BY <1>4, <1>5
        DEF Contract!CNext, Contract!HangUp, Contract!Answer, Contract!Waiting

LEMMA ContractDrop ==
  ASSUME IInv, Orphans = {}, NEW p \in Procs, NEW h \in Handles, NEW full,
         drop_reference(p, h, full)
  PROVE  Contract!CNext
<1>0. UNCHANGED <<gone, dying>>
  BY DEF drop_reference
<1>1. CASE drop_inlet(full) \/ drop_outlet(full) \/ \E k \in Caps : drop_cap(p, k)
  <2>1. answered' = Quiet /\ UNCHANGED <<call_pipe, call_claim, state>>
    BY <1>1 DEF drop_inlet, drop_outlet, drop_cap, exchanges, parked
  <2> QED BY <1>0, <2>1, ContractAside
<1>2. CASE drop_last_outlet(full)
  BY <1>0, <1>2, ContractLastOutlet
<1>3. ASSUME NEW x \in Ring, table[p][h] = Claim(x), drop_claim(x, full) PROVE Contract!CNext
  <2>1. answered' = Quiet /\ UNCHANGED <<call_pipe, call_claim>>
    BY <1>3 DEF drop_claim, parked
  <2>2. caller[x] = 0
    BY <1>3, HeldClaim
  <2>3. \A y \in Ring \ {x} : state'[y] = state[y]
    BY <1>3, UnrefOthers DEF drop_claim, IInv
  <2> QED BY <1>0, <2>1, <2>2, <2>3, ContractAside
<1>4. ASSUME NEW x \in Ring, table[p][h] = Obligation(x), drop_obligation(x, full)
      PROVE  Contract!CNext
  <2>1. state[x] = "Taken" /\ request_refs[x] = 1 /\ UNCHANGED call_pipe
    BY <1>4, HeldObligation DEF drop_obligation
  <2>2. \A y \in Ring : y # x => state'[y] = state[y]
    BY <1>4, UnrefOthers DEF drop_obligation, IInv
  <2>3. CASE caller[x] = 0
    <3>1. answered' = Quiet /\ UNCHANGED call_claim
      BY <1>4, <2>3 DEF drop_obligation
    <3>2. \A y \in Ring : caller[y] # 0 => state'[y] = state[y]
      BY <2>2, <2>3
    <3> QED BY <1>0, <2>1, <3>1, <3>2, ContractAside
  <2>4. CASE caller[x] # 0
    <3>1. wake_call_reply(x, "PeerClosed")
      BY <1>4, <2>1, <2>4 DEF drop_obligation
    <3>2. caller[x] \in Threads /\ call_claim[caller[x]] = x /\ x # 0
      BY <2>4, ConstantsOK DEF IInv, TypeOK, CallerTie, Ring
    <3>3. Home[caller[x]] # dying
      BY <3>2 DEF Orphans
    <3> QED BY <1>0, <2>1, <2>2, <2>4, <3>1, <3>3, ContractWakes
  <2> QED BY <2>3, <2>4
<1> QED BY <1>1, <1>2, <1>3, <1>4 DEF drop_reference

LEMMA ContractEnd ==
  ASSUME IInv, NEW p \in Procs, end_process(p)
  PROVE  Contract!CNext
<1>1. /\ gone' = gone \cup {p} /\ answered' = Quiet /\ UNCHANGED <<call_claim, state>>
      /\ \A u \in Threads : Home[u] # p => (call_pipe'[u] <=> call_pipe[u])
  BY DEF end_process, exchanges
<1>2. ASSUME NEW u \in Threads PROVE phase'[u] = IF Home[u] = p THEN "gone" ELSE phase[u]
  BY <1>1, PhaseAt, PhaseAfter
<1>3. phase' = [u \in Threads |-> IF Home[u] = p THEN "gone" ELSE phase[u]]
  BY <1>2, PhaseAfter
<1> QED BY <1>1, <1>3 DEF Contract!CNext, Contract!End, Contract!Silence, Quiet

LEMMA ContractTeardown ==
  ASSUME IInv, LeftInv, release_pending_calls \/ reap_unreferenced
  PROVE  Contract!CNext
<1>1. CASE release_pending_calls
  <2>1. PICK t \in Threads :
          /\ Home[t] = dying /\ call_claim[t] # 0
          /\ call_claim' = [call_claim EXCEPT ![t] = 0]
          /\ unref_exchange(call_claim[t], Dec(reply_refs[call_claim[t]]),
                            request_refs[call_claim[t]], state[call_claim[t]], held[call_claim[t]])
    BY <1>1, LowestIn DEF release_pending_calls, Orphans
  <2>2. answered' = Quiet /\ UNCHANGED <<call_pipe, gone>> /\ dying \in gone
    BY <1>1 DEF release_pending_calls, LeftInv
  <2> DEFINE x == call_claim[t]
  <2>3. x \in Ring /\ caller[x] = t
    BY <2>1, Tied
  <2>4. \A y \in Ring \ {x} : state'[y] = state[y]
    BY <2>1, <2>3, UnrefOthers DEF IInv
  <2>5. \A u \in Threads : u # t => call_claim'[u] = call_claim[u]
    BY <2>1 DEF IInv, TypeOK
  <2>6. ASSUME NEW u \in Threads PROVE phase'[u] = phase[u]
    <3>1. CASE u = t
      BY <2>1, <2>2, <3>1, PhaseAt, PhaseAfter
    <3>2. CASE u # t
      <4>1. call_claim[u] # 0 => call_claim[u] \in Ring \ {x}
        BY <2>3, <3>2, Tied
      <4> QED BY <2>2, <2>4, <2>5, <3>2, <4>1, PhaseAt, PhaseAfter
    <3> QED BY <3>1, <3>2
  <2> QED BY <2>2, <2>6, ContractOther
<1>2. CASE reap_unreferenced
  <2>1. /\ answered' = Quiet /\ UNCHANGED <<call_pipe, call_claim, gone>>
        /\ \A x \in Ring : ~exchange_can_settle(x) => state'[x] = state[x]
    BY <1>2 DEF reap_unreferenced, parked
  <2>2. \A x \in Ring : caller[x] # 0 => ~exchange_can_settle(x)
    BY DEF exchange_can_settle, can_settle, IInv, RefInv
  <2> QED BY <2>1, <2>2, ContractAside
<1> QED BY <1>1, <1>2

LEMMA ContractStep == IInv /\ LeftInv /\ [Next]_vars => [Contract!CNext]_(Contract!cvars)
<1> SUFFICES ASSUME IInv, LeftInv, [Next]_vars
             PROVE  Contract!CNext \/ UNCHANGED Contract!cvars
  OBVIOUS
<1>1. ASSUME NEW t \in Threads, Syscall(t) PROVE Contract!CNext
  <2>1. CASE HandleOp(t)
    <3>1. ASSUME NEW h \in Handles, release_handle(t, h) PROVE Contract!CNext
      <4>1. Home[t] \in Procs /\ dying = NoProc /\ drop_reference(Home[t], h, TRUE)
        BY <3>1, HomeType DEF release_handle, Running
      <4>2. Orphans = {}
        BY <4>1, HomeType, ConstantsOK DEF Orphans
      <4> QED BY <4>1, <4>2, ContractDrop
    <3> QED BY <2>1, <3>1, ContractHandle DEF HandleOp
  <2>2. CASE Resolve(t)
    BY <2>2, ContractResolve DEF Resolve
  <2>3. CASE Reply(t)
    BY <2>3, ContractReply DEF Reply
  <2> QED BY <1>1, <2>1, <2>2, <2>3, ContractSend, ContractTake DEF Syscall, Take
<1>2. CASE close_all
  <2>1. PICK h \in Handles : drop_reference(dying, h, FALSE)
    BY <1>2, LowestIn DEF close_all, Bound
  <2>2. dying \in Procs /\ Orphans = {}
    BY <1>2 DEF close_all, IInv, TypeOK
  <2> QED BY <2>1, <2>2, ContractDrop
<1>3. CASE UNCHANGED vars
  <2>1. UNCHANGED <<phase, answered>>
    BY <1>3 DEF vars, phase
  <2> QED BY <2>1 DEF Contract!cvars
<1> QED BY <1>1, <1>2, <1>3, ContractResume, ContractEnd, ContractTeardown DEF Next, Kernel

LEMMA ContractInit == Init => Contract!CInit
<1> SUFFICES ASSUME Init PROVE Contract!CInit
  OBVIOUS
<1>1. phase = [t \in Threads |-> "idle"]
  BY DEF phase, Init
<1> QED BY <1>1 DEF Init, Contract!CInit, Contract!Silence, Quiet

\* The kernel implements the contract of CallContract: a thread parked in Call or
\* Resolve is answered once, Ok or Refused only by the reply to the request it
\* waits for, PeerClosed by the obligation given up, and the loss of the last
\* outlet reaches every thread not yet served in that same step, a caller still
\* parked for room included.
THEOREM ContractKept == Spec => KeepsContract
<1>1. Spec => []LeftInv
  BY Invariant, LeftInit, LeftStep, PTL DEF Spec
<1>2. Spec => Contract!CSpec
  BY <1>1, Invariant, ContractInit, ContractStep, PTL DEF Spec, Contract!CSpec
<1> QED BY <1>2 DEF KeepsContract

-----------------------------------------------------------------------------
(* A handle in transit is in one place.                                    *)

\* k is in one entry of one table or in one message, and not in both.
CapOnce(k) ==
  /\ \A p, q \in Procs, h, i \in Handles :
       table[p][h] = Cap(k) /\ table[q][i] = Cap(k) => p = q /\ h = i
  /\ \A x, y \in Ring : k \in held[x] /\ k \in held[y] => x = y
  /\ \A x \in Ring, p \in Procs, h \in Handles : k \in held[x] => table[p][h] # Cap(k)

\* Only an untaken request or an uncollected reply carries handles.
HeldInv == \A x \in Ring : held[x] # {} => state[x] \in {"Staged", "Replied"}

\* A send record waiting for room names handles its process still has.
ArgsInv == \A t \in Threads : \A k \in call_args[t] :
             call_pipe[t] /\ k \in CapsOf(table[Home[t]])

CapInv == (\A k \in Caps : CapOnce(k)) /\ HeldInv /\ ArgsInv

LEMMA CapInjective ==
  ASSUME NEW j, NEW k, Cap(j) = Cap(k) PROVE j = k
BY DEF Cap

\* The handles of a message are bound once each.
LEMMA MintStagedOnce ==
  ASSUME NEW row \in Row, NEW ks \in SUBSET Caps, NEW new \in mint_staged(row, ks)
  PROVE  /\ new \in Row
         /\ \A h \in Handles : \/ new[h] = row[h]
                               \/ row[h] = Unbound /\ \E k \in ks : new[h] = Cap(k)
         /\ \A k \in ks : (\A h \in Handles : row[h] # Cap(k)) =>
              \A h, i \in Handles : new[h] = Cap(k) /\ new[i] = Cap(k) => h = i
<1>0. PICK F \in SUBSET Vacant(row) : \E f \in [F -> ks] :
        /\ Cardinality(F) = Cardinality(ks)
        /\ \A k \in ks : \E h \in F : f[h] = k
        /\ new = [h \in Handles |-> IF h \in F THEN Cap(f[h]) ELSE row[h]]
  BY DEF mint_staged
<1>1. PICK f \in [F -> ks] :
        /\ Cardinality(F) = Cardinality(ks)
        /\ \A k \in ks : \E h \in F : f[h] = k
        /\ new = [h \in Handles |-> IF h \in F THEN Cap(f[h]) ELSE row[h]]
  BY <1>0
<1>2. IsFiniteSet(Handles) /\ F \subseteq Handles
  BY FS_Interval, ConstantsOK DEF Handles, Vacant
<1>3. IsFiniteSet(F)
  BY <1>2, FS_Subset
<1>4. f \in Surjection(F, ks)
  BY <1>1 DEF Surjection
<1>5. f \in Injection(F, ks)
  BY <1>1, <1>3, <1>4, FS_SurjSameCardinalityImpliesInj
<1>6. \A h, i \in F : f[h] = f[i] => h = i
  BY <1>5 DEF Injection, IsInjective
<1>7. ASSUME NEW k \in ks, \A h \in Handles : row[h] # Cap(k),
             NEW h \in Handles, NEW i \in Handles, new[h] = Cap(k), new[i] = Cap(k)
      PROVE  h = i
  <2>1. h \in F /\ i \in F
    BY <1>1, <1>7
  <2>2. Cap(f[h]) = Cap(k) /\ Cap(f[i]) = Cap(k)
    BY <1>1, <1>7, <2>1
  <2>3. f[h] = k /\ f[i] = k
    BY <2>2, CapInjective
  <2> QED BY <1>6, <2>1, <2>3
<1> QED BY <1>7, MintStaged

\* What a step owes the handles: those it does not move stay where they are or
\* go, those it moves (ks) end in one place.
LEMMA CapsStep ==
  ASSUME CapInv, NEW ks,
         \A k \in Caps : k \notin ks =>
            /\ \A p \in Procs, h \in Handles : table'[p][h] = Cap(k) => table[p][h] = Cap(k)
            /\ \A x \in Ring : k \in held'[x] => k \in held[x],
         \A k \in Caps : k \in ks => CapOnce(k)'
  PROVE  \A k \in Caps : CapOnce(k)'
<1> SUFFICES ASSUME NEW k \in Caps, k \notin ks PROVE CapOnce(k)'
  OBVIOUS
<1> QED BY DEF CapOnce, CapInv

\* A step that moves no handle.
LEMMA CapsStay ==
  ASSUME CapInv,
         \A k \in Caps, p \in Procs, h \in Handles : table'[p][h] = Cap(k) => table[p][h] = Cap(k),
         \A x \in Ring : held'[x] \subseteq held[x]
  PROVE  \A k \in Caps : CapOnce(k)'
<1> SUFFICES ASSUME NEW k \in Caps PROVE CapOnce(k)'
  OBVIOUS
<1> QED BY DEF CapOnce, CapInv

\* Handles ks of p go into the message of x, which carried none.
LEMMA CapsSent ==
  ASSUME CapInv, NEW ks, NEW p \in Procs, NEW x \in Ring, held[x] = {},
         \A k \in ks : \E h \in Handles : table[p][h] = Cap(k),
         \A k \in Caps, q \in Procs, h \in Handles :
            table'[q][h] = Cap(k) => table[q][h] = Cap(k) /\ (q # p \/ k \notin ks),
         held'[x] = ks, \A y \in Ring : y # x => held'[y] = held[y]
  PROVE  \A k \in Caps : CapOnce(k)'
<1>1. ASSUME NEW k \in Caps, k \in ks PROVE CapOnce(k)'
  <2>1. PICK h \in Handles : table[p][h] = Cap(k)
    BY <1>1
  <2>2. \A q \in Procs, i \in Handles : table'[q][i] # Cap(k)
    BY <1>1, <2>1 DEF CapInv, CapOnce
  <2>3. \A y \in Ring : k \in held'[y] => y = x
    BY <2>1 DEF CapInv, CapOnce
  <2> QED BY <2>2, <2>3 DEF CapOnce
<1>2. ASSUME NEW k \in Caps, k \notin ks
      PROVE  /\ \A q \in Procs, h \in Handles : table'[q][h] = Cap(k) => table[q][h] = Cap(k)
             /\ \A y \in Ring : k \in held'[y] => k \in held[y]
  BY <1>2
<1> QED BY <1>1, <1>2, CapsStep

\* Handles ks come to entries of q, and are nowhere else.
LEMMA CapsCome ==
  ASSUME CapInv, NEW ks, NEW q \in Procs,
         \A k \in Caps, p \in Procs, h \in Handles :
            table'[p][h] = Cap(k) => (k \in ks /\ p = q) \/ (k \notin ks /\ table[p][h] = Cap(k)),
         \A k \in ks, h, i \in Handles : table'[q][h] = Cap(k) /\ table'[q][i] = Cap(k) => h = i,
         \A y \in Ring : held'[y] \subseteq held[y],
         \A k \in ks, y \in Ring : k \notin held'[y]
  PROVE  \A k \in Caps : CapOnce(k)'
<1>1. ASSUME NEW k \in Caps, k \in ks PROVE CapOnce(k)'
  <2>1. \A p \in Procs, h \in Handles : table'[p][h] = Cap(k) => p = q
    BY <1>1
  <2> QED BY <1>1, <2>1 DEF CapOnce
<1>2. ASSUME NEW k \in Caps, k \notin ks
      PROVE  /\ \A p \in Procs, h \in Handles : table'[p][h] = Cap(k) => table[p][h] = Cap(k)
             /\ \A y \in Ring : k \in held'[y] => k \in held[y]
  BY <1>2
<1> QED BY <1>1, <1>2, CapsStep

\* No send record of p names a handle of ks any more, and none gains one.
Forgets(p, ks) ==
  \A t \in Threads : /\ call_args'[t] \subseteq call_args[t]
                     /\ Home[t] = p => call_args'[t] \cap ks = {}
                     /\ call_args'[t] # {} => call_pipe'[t] = call_pipe[t]

\* No handle leaves a table but those of ks that leave p.
OnlyLeave(p, ks) ==
  \A k \in Caps, q \in Procs, h \in Handles :
    table[q][h] = Cap(k) /\ (q # p \/ k \notin ks) => \E i \in Handles : table'[q][i] = Cap(k)

LEMMA ArgsKept ==
  ASSUME IInv, CapInv, NEW p, NEW ks, Forgets(p, ks), OnlyLeave(p, ks)
  PROVE  ArgsInv'
<1> SUFFICES ASSUME NEW t \in Threads, NEW k \in call_args'[t]
             PROVE  call_pipe'[t] /\ k \in CapsOf(table'[Home[t]])
  BY DEF ArgsInv, CapsOf
<1>1. call_pipe[t] /\ k \in CapsOf(table[Home[t]]) /\ call_pipe'[t]
  BY DEF CapInv, ArgsInv, Forgets
<1>2. PICK h \in Handles : table[Home[t]][h] = Cap(k)
  BY <1>1 DEF CapsOf
<1>3. \E i \in Handles : table'[Home[t]][i] = Cap(k)
  BY <1>1, <1>2, HomeType DEF CapsOf, Forgets, OnlyLeave
<1> QED BY <1>1, <1>3 DEF CapsOf

-----------------------------------------------------------------------------
(* What the steps on a row do to the caps in it.                           *)

LEMMA CapsHoldRow ==
  ASSUME NEW row \in Row, NEW ks \in SUBSET Caps, NEW k \in Caps, NEW h \in Handles
  PROVE  hold_staged(row, ks)[h] = Cap(k) <=> row[h] = Cap(k) /\ k \notin ks
<1>1. Cap(k) # Unbound
  BY EntriesDiffer
<1>2. \A j \in ks : Cap(j) = Cap(k) => j = k
  BY CapInjective
<1> QED BY <1>1, <1>2 DEF hold_staged, Row

LEMMA CapsMintRow ==
  ASSUME NEW row \in Row, NEW e \in Named, NEW new \in mint_handle(row, e),
         NEW k \in Caps, NEW h \in Handles
  PROVE  new[h] = Cap(k) <=> row[h] = Cap(k)
<1>1. Cap(k) # e /\ Cap(k) # Unbound /\ e \in Entry
  BY EntriesDiffer, NamedMembers
<1>2. PICK i \in Handles : row[i] = Unbound /\ new = [row EXCEPT ![i] = e]
  BY <1>1, MintHandle
<1> QED BY <1>1, <1>2 DEF Row

LEMMA CapsUnbindRow ==
  ASSUME NEW row \in Row, NEW i \in Handles, NEW k \in Caps, NEW h \in Handles
  PROVE  unbind_handle(row, i)[h] = Cap(k) <=> row[h] = Cap(k) /\ h # i
BY EntriesDiffer DEF unbind_handle, Row

LEMMA CapsMintStagedRow ==
  ASSUME NEW row \in Row, NEW ks \in SUBSET Caps, NEW new \in mint_staged(row, ks),
         NEW k \in Caps, NEW h \in Handles
  PROVE  /\ row[h] = Cap(k) => new[h] = Cap(k)
         /\ new[h] = Cap(k) => row[h] = Cap(k) \/ k \in ks
<1>1. \A j \in ks : Cap(j) = Cap(k) => j = k
  BY CapInjective
<1>2. Cap(k) # Unbound
  BY EntriesDiffer
<1> QED BY <1>1, <1>2, MintStagedOnce

-----------------------------------------------------------------------------
(* The steps.                                                              *)

\* A claim or an obligation goes: the exchange keeps its message or loses it.
LEMMA HeldUnref ==
  ASSUME IInv, CapInv, NEW x \in Ring, NEW rep, NEW req, NEW st, NEW ks,
         unref_exchange(x, rep, req, st, ks),
         ks # {} => st \in {"Staged", "Replied"}
  PROVE  /\ HeldInv'
         /\ held'[x] \in {ks, {}}
         /\ \A y \in Ring : y # x => held'[y] = held[y]
<1> DEFINE settles == can_settle(rep, req, st)
<1>1. /\ held'[x] = IF settles THEN {} ELSE ks
      /\ state'[x] = IF settles THEN "Free" ELSE st
      /\ \A y \in Ring : y # x => held'[y] = held[y] /\ state'[y] = state[y]
  BY DEF unref_exchange, IInv, TypeOK
<1> HIDE DEF settles
<1>2. HeldInv'
  BY <1>1 DEF HeldInv, CapInv
<1> QED BY <1>1, <1>2

\* The message of a request enters the ring.
LEMMA CapStage ==
  ASSUME IInv, CapInv, NEW p \in Procs, NEW x \in alloc_exchange, NEW ks \in SUBSET Caps,
         \A k \in ks : \E h \in Handles : table[p][h] = Cap(k),
         \A k \in Caps, q \in Procs, h \in Handles :
            table'[q][h] = Cap(k) <=> table[q][h] = Cap(k) /\ (q # p \/ k \notin ks),
         stage(x, ks), Forgets(p, ks)
  PROVE  CapInv'
<1>1. x \in Ring /\ state[x] = "Free"
  BY FreeExchange
<1>2. held[x] = {}
  BY <1>1 DEF CapInv, HeldInv
<1>3. /\ held'[x] = ks /\ state'[x] = "Staged"
      /\ \A y \in Ring : y # x => held'[y] = held[y] /\ state'[y] = state[y]
  BY <1>1 DEF stage, IInv, TypeOK
<1>4. \A k \in Caps : CapOnce(k)'
  BY <1>1, <1>2, <1>3, CapsSent
<1>5. HeldInv'
  BY <1>3 DEF HeldInv, CapInv
<1>6. OnlyLeave(p, ks)
  BY DEF OnlyLeave
<1>7. ArgsInv'
  BY <1>6, ArgsKept
<1> QED BY <1>4, <1>5, <1>7 DEF CapInv

LEMMA ForgetAt ==
  ASSUME NEW p, NEW ks, call_args' = Forget(p, ks), UNCHANGED call_pipe
  PROVE  Forgets(p, ks)
BY DEF Forget, Forgets

LEMMA CapSend ==
  ASSUME IInv, CapInv, NEW t \in Threads, Send(t)
  PROVE  CapInv'
<1> DEFINE p == Home[t]
<1>p. p \in Procs /\ table[p] \in Row
  BY HomeType, TableRow DEF IInv
<1>0. PICK h \in Handles, ks \in SendArgs(p) :
        pipe_post(t, h, ks) \/ pipe_call(t, h, ks) \/ block_on_call_room(t, h, ks)
  BY DEF Send
<1>1. ks \in SUBSET Caps /\ \A k \in ks : \E i \in Handles : table[p][i] = Cap(k)
  BY <1>0 DEF SendArgs, CapsOf
<1>2. CASE pipe_post(t, h, ks)
  <2>0. PICK x \in alloc_exchange : \E row \in mint_handle(table[p], Claim(x)) :
          table' = [table EXCEPT ![p] = hold_staged(row, ks)] /\ stage(x, ks)
    BY <1>2 DEF pipe_post
  <2>1. PICK row \in mint_handle(table[p], Claim(x)) :
          table' = [table EXCEPT ![p] = hold_staged(row, ks)] /\ stage(x, ks)
    BY <2>0
  <2>2. Claim(x) \in Named /\ row \in Row
    BY <1>p, <2>1, FreeExchange, NamedMembers, RowMint
  <2>3. ASSUME NEW k \in Caps, NEW q \in Procs, NEW i \in Handles
        PROVE  table'[q][i] = Cap(k) <=> table[q][i] = Cap(k) /\ (q # p \/ k \notin ks)
    <3>1. hold_staged(row, ks)[i] = Cap(k) <=> row[i] = Cap(k) /\ k \notin ks
      BY <1>1, <2>2, CapsHoldRow
    <3>2. row[i] = Cap(k) <=> table[p][i] = Cap(k)
      BY <1>p, <2>1, <2>2, CapsMintRow
    <3>3. table'[q] = IF q = p THEN hold_staged(row, ks) ELSE table[q]
      BY <1>p, <2>1 DEF IInv, TypeOK
    <3> QED BY <3>1, <3>2, <3>3
  <2>4. call_args' = Forget(p, ks) /\ call_pipe' = call_pipe
    BY <1>2 DEF pipe_post
  <2> HIDE DEF p
  <2> QED BY <1>p, <1>1, <2>1, <2>3, <2>4, ForgetAt, CapStage
<1>3. CASE pipe_call(t, h, ks)
  <2>1. PICK x \in alloc_exchange :
          table' = [table EXCEPT ![p] = hold_staged(table[p], ks)] /\ stage(x, ks)
    BY <1>3 DEF pipe_call
  <2>3. ASSUME NEW k \in Caps, NEW q \in Procs, NEW i \in Handles
        PROVE  table'[q][i] = Cap(k) <=> table[q][i] = Cap(k) /\ (q # p \/ k \notin ks)
    <3>1. hold_staged(table[p], ks)[i] = Cap(k) <=> table[p][i] = Cap(k) /\ k \notin ks
      BY <1>1, <1>p, CapsHoldRow
    <3>3. table'[q] = IF q = p THEN hold_staged(table[p], ks) ELSE table[q]
      BY <1>p, <2>1 DEF IInv, TypeOK
    <3> QED BY <3>1, <3>3
  <2>4. call_args' = Forget(p, ks) /\ call_pipe' = call_pipe
    BY <1>3 DEF pipe_call
  <2> HIDE DEF p
  <2> QED BY <1>p, <1>1, <2>1, <2>3, <2>4, ForgetAt, CapStage
<1>4. CASE block_on_call_room(t, h, ks)
  <2>1. /\ UNCHANGED <<table, held, state>>
        /\ call_pipe' = [call_pipe EXCEPT ![t] = TRUE]
        /\ call_args' = [call_args EXCEPT ![t] = ks]
    BY <1>4 DEF block_on_call_room, tables, exchanges
  <2>2. \A k \in Caps : CapOnce(k)'
    BY <2>1, CapsStay
  <2>3. HeldInv'
    BY <2>1 DEF HeldInv, CapInv
  <2>4. ASSUME NEW u \in Threads, NEW k \in call_args'[u]
        PROVE  call_pipe'[u] /\ k \in CapsOf(table[Home[u]])
    <3>1. CASE u = t
      BY <1>0, <2>1, <2>4, <3>1 DEF SendArgs, IInv, TypeOK
    <3>2. CASE u # t
      BY <2>1, <2>4, <3>2 DEF CapInv, ArgsInv, IInv, TypeOK
    <3> QED BY <3>1, <3>2
  <2>5. ArgsInv'
    BY <2>1, <2>4 DEF ArgsInv, CapsOf
  <2> QED BY <2>2, <2>3, <2>5 DEF CapInv
<1> QED BY <1>0, <1>2, <1>3, <1>4

LEMMA CapResume ==
  ASSUME IInv, CapInv, resume_call_room
  PROVE  CapInv'
<1>0. PICK t \in call_room_waiter, x \in alloc_exchange :
        /\ table' = [table EXCEPT ![Home[t]] = hold_staged(table[Home[t]], call_args[t])]
        /\ stage(x, call_args[t])
        /\ call_pipe' = [call_pipe EXCEPT ![t] = FALSE]
        /\ call_args' = [Forget(Home[t], call_args[t]) EXCEPT ![t] = {}]
  BY DEF resume_call_room
<1> DEFINE p == Home[t]
           ks == call_args[t]
<1>1. t \in Threads /\ p \in Procs /\ table[p] \in Row /\ ks \in SUBSET Caps
  BY AllocType, HomeType, TableRow DEF IInv, TypeOK
<1>2. \A k \in ks : \E h \in Handles : table[p][h] = Cap(k)
  BY <1>1 DEF CapInv, ArgsInv, CapsOf
<1>3. ASSUME NEW k \in Caps, NEW q \in Procs, NEW i \in Handles
      PROVE  table'[q][i] = Cap(k) <=> table[q][i] = Cap(k) /\ (q # p \/ k \notin ks)
  <2>1. hold_staged(table[p], ks)[i] = Cap(k) <=> table[p][i] = Cap(k) /\ k \notin ks
    BY <1>1, CapsHoldRow
  <2>2. table'[q] = IF q = p THEN hold_staged(table[p], ks) ELSE table[q]
    BY <1>0, <1>1 DEF IInv, TypeOK
  <2> QED BY <2>1, <2>2
<1>4. Forgets(p, ks)
  <2>1. ASSUME NEW u \in Threads, u # t
        PROVE  /\ call_args'[u] = Forget(p, ks)[u] /\ call_pipe'[u] = call_pipe[u]
    BY <1>0, <1>1, <2>1 DEF Forget, IInv, TypeOK
  <2>2. call_args'[t] = {}
    BY <1>0, <1>1 DEF Forget
  <2> QED BY <2>1, <2>2 DEF Forgets, Forget
<1>5. stage(x, ks)
  BY <1>0
<1> HIDE DEF p, ks
<1> QED BY <1>1, <1>2, <1>3, <1>4, <1>5, CapStage

\* The row new has the handles of ks, once each, next to those of row.
Gains(row, ks, new) ==
  /\ new \in Row
  /\ \A k \in Caps, h \in Handles : new[h] = Cap(k) => row[h] = Cap(k) \/ k \in ks
  /\ \A k \in ks : (\A h \in Handles : row[h] # Cap(k)) =>
       \A h, i \in Handles : new[h] = Cap(k) /\ new[i] = Cap(k) => h = i

LEMMA MintGains ==
  ASSUME NEW row \in Row, NEW ks \in SUBSET Caps, NEW new \in mint_staged(row, ks)
  PROVE  Gains(row, ks, new)
<1>1. \A k \in Caps, h \in Handles : new[h] = Cap(k) => row[h] = Cap(k) \/ k \in ks
  BY CapsMintStagedRow
<1> QED BY <1>1, MintStagedOnce DEF Gains

\* The message of x is bound in a table of p.
LEMMA CapsCollected ==
  ASSUME IInv, CapInv, NEW p \in Procs, NEW x \in Ring, NEW new,
         table' = [table EXCEPT ![p] = new], Gains(table[p], held[x], new),
         held'[x] = {}, \A y \in Ring : y # x => held'[y] \subseteq held[y]
  PROVE  \A k \in Caps : CapOnce(k)'
<1> DEFINE ks == held[x]
<1>0. ks \in SUBSET Caps
  BY DEF IInv, TypeOK
<1>t. \A q \in Procs : table'[q] = IF q = p THEN new ELSE table[q]
  BY DEF IInv, TypeOK
<1>1. \A k \in ks, q \in Procs, h \in Handles : table[q][h] # Cap(k)
  BY <1>0 DEF CapInv, CapOnce
<1>3. ASSUME NEW k \in Caps, NEW q \in Procs, NEW h \in Handles, table'[q][h] = Cap(k)
      PROVE  (k \in ks /\ q = p) \/ (k \notin ks /\ table[q][h] = Cap(k))
  BY <1>t, <1>1, <1>3 DEF Gains
<1>4. ASSUME NEW k \in ks, NEW h \in Handles, NEW i \in Handles,
             table'[p][h] = Cap(k), table'[p][i] = Cap(k)
      PROVE  h = i
  BY <1>t, <1>1, <1>4 DEF Gains
<1>5. /\ \A y \in Ring : held'[y] \subseteq held[y]
      /\ \A k \in ks, y \in Ring : k \notin held'[y]
  BY <1>0 DEF CapInv, CapOnce
<1> HIDE DEF ks
<1>6. \A k \in Caps, q \in Procs, h \in Handles :
         table'[q][h] = Cap(k) => (k \in ks /\ q = p) \/ (k \notin ks /\ table[q][h] = Cap(k))
  BY <1>3
<1>7. \A k \in ks, h, i \in Handles : table'[p][h] = Cap(k) /\ table'[p][i] = Cap(k) => h = i
  BY <1>4
<1> QED BY <1>5, <1>6, <1>7, CapsCome

\* Nothing in a send record is lost when no handle leaves a table.
LEMMA ArgsSame ==
  ASSUME IInv, CapInv, UNCHANGED <<call_args, call_pipe>>,
         \A k \in Caps, q \in Procs, h \in Handles :
            table[q][h] = Cap(k) => \E i \in Handles : table'[q][i] = Cap(k)
  PROVE  ArgsInv'
<1>1. Forgets(NoProc, {})
  BY DEF Forgets
<1>2. OnlyLeave(NoProc, {})
  BY DEF OnlyLeave
<1> QED BY <1>1, <1>2, ArgsKept

LEMMA CapTake ==
  ASSUME IInv, CapInv, NEW t \in Threads, NEW h \in Handles, pipe_take(t, h)
  PROVE  CapInv'
<1> DEFINE p == Home[t]
           x == Head(staged)
<1>1. /\ staged # <<>>
      /\ \E mid \in mint_handle(table[p], Obligation(x)) :
           \E row \in mint_staged(mid, held[x]) : table' = [table EXCEPT ![p] = row]
      /\ held' = [held EXCEPT ![x] = {}]
      /\ state' = [state EXCEPT ![x] = "Taken"]
      /\ UNCHANGED <<call_pipe, call_args>>
  BY DEF pipe_take, parked
<1>2. x \in Ring /\ held[x] \in SUBSET Caps /\ p \in Procs /\ table[p] \in Row
  BY <1>1, HomeType, TableRow DEF IInv, TypeOK
<1>3. /\ held'[x] = {} /\ state'[x] = "Taken"
      /\ \A y \in Ring : y # x => held'[y] = held[y] /\ state'[y] = state[y]
  BY <1>1, <1>2 DEF IInv, TypeOK
<1>4. PICK mid \in mint_handle(table[p], Obligation(x)) :
        \E row \in mint_staged(mid, held[x]) : table' = [table EXCEPT ![p] = row]
  BY <1>1
<1>5. PICK row \in mint_staged(mid, held[x]) : table' = [table EXCEPT ![p] = row]
  BY <1>4
<1> HIDE DEF p, x
<1>6. /\ mid \in Row /\ row \in Row
      /\ \A k \in Caps, i \in Handles : mid[i] = Cap(k) <=> table[p][i] = Cap(k)
  <2>1. Obligation(x) \in Named
    BY <1>2, NamedMembers
  <2>2. mid \in Row
    BY <1>2, <2>1, RowMint
  <2> QED BY <1>2, <2>1, <2>2, CapsMintRow, MintStagedOnce
<1>7. \A k \in Caps : CapOnce(k)'
  <2>1. Gains(mid, held[x], row)
    BY <1>2, <1>6, MintGains
  <2>2. Gains(table[p], held[x], row)
    BY <1>2, <1>6, <2>1 DEF Gains
  <2>3. \A y \in Ring : y # x => held'[y] \subseteq held[y]
    BY <1>3
  <2> QED BY <1>2, <1>3, <1>5, <2>2, <2>3, CapsCollected
<1>8. HeldInv'
  BY <1>3 DEF HeldInv, CapInv
<1>9. ArgsInv'
  <2>1. ASSUME NEW k \in Caps, NEW q \in Procs, NEW i \in Handles, table[q][i] = Cap(k)
        PROVE  table'[q][i] = Cap(k)
    <3>1. q = p => row[i] = Cap(k)
      BY <1>2, <1>6, <2>1, CapsMintStagedRow
    <3> QED BY <1>2, <1>5, <2>1, <3>1 DEF IInv, TypeOK
  <2> QED BY <1>1, <2>1, ArgsSame
<1> QED BY <1>7, <1>8, <1>9 DEF CapInv

\* A step that unbinds one entry that is no cap, or none, and moves no handle.
LEMMA CapUnbind ==
  ASSUME IInv, CapInv, NEW p \in Procs, NEW h \in Handles, table[p][h] \in Named,
         table' = [table EXCEPT ![p] = unbind_handle(table[p], h)],
         \A y \in Ring : held'[y] \subseteq held[y], HeldInv',
         UNCHANGED <<call_pipe, call_args>>
  PROVE  CapInv'
<1>1. ASSUME NEW k \in Caps, NEW q \in Procs, NEW i \in Handles
      PROVE  table'[q][i] = Cap(k) <=> table[q][i] = Cap(k)
  <2>1. table[p] \in Row /\ table[p][h] # Cap(k)
    BY TableRow, NamedMembers DEF IInv
  <2>2. unbind_handle(table[p], h)[i] = Cap(k) <=> table[p][i] = Cap(k)
    BY <2>1, CapsUnbindRow
  <2>3. table'[q] = IF q = p THEN unbind_handle(table[p], h) ELSE table[q]
    BY DEF IInv, TypeOK
  <2> QED BY <2>2, <2>3
<1>2. \A k \in Caps : CapOnce(k)'
  BY <1>1, CapsStay
<1>3. ArgsInv'
  BY <1>1, ArgsSame
<1> QED BY <1>2, <1>3 DEF CapInv

LEMMA CapResolve ==
  ASSUME IInv, CapInv, NEW t \in Threads, NEW h \in Handles, NEW x \in Ring,
         pipe_resolve(t, h, x) \/ resolve_peer_closed(t, h, x) \/ park_resolve(t, h, x)
  PROVE  CapInv'
<1> DEFINE p == Home[t]
<1>1. /\ table[p][h] = Claim(x) /\ UNCHANGED <<call_pipe, call_args>>
      /\ p \in Procs /\ table[p] \in Row /\ Claim(x) \in Named
  BY HomeType, TableRow, NamedMembers
     DEF pipe_resolve, resolve_peer_closed, park_resolve, parked, IInv
<1>2. ASSUME unref_exchange(x, 0, request_refs[x], state[x], held[x])
      PROVE  /\ HeldInv'
             /\ \A y \in Ring : held'[y] \subseteq held[y]
             /\ \A y \in Ring : y # x => held'[y] = held[y]
  <2>1. held[x] # {} => state[x] \in {"Staged", "Replied"}
    BY DEF CapInv, HeldInv
  <2>2. /\ HeldInv' /\ held'[x] \in {held[x], {}}
        /\ \A y \in Ring : y # x => held'[y] = held[y]
    BY <1>2, <2>1, HeldUnref
  <2> QED BY <2>2
<1>3. CASE park_resolve(t, h, x)
  <2>1. /\ table' = [table EXCEPT ![p] = unbind_handle(table[p], h)]
        /\ UNCHANGED <<held, state>>
    BY <1>3 DEF park_resolve, exchanges
  <2>2. HeldInv'
    BY <2>1 DEF HeldInv, CapInv
  <2> HIDE DEF p
  <2> QED BY <1>1, <2>1, <2>2, CapUnbind
<1>4. CASE table' = [table EXCEPT ![p] = unbind_handle(table[p], h)]
           /\ unref_exchange(x, 0, request_refs[x], state[x], held[x])
  <2> HIDE DEF p
  <2> QED BY <1>1, <1>2, <1>4, CapUnbind
<1>5. ASSUME NEW row \in mint_staged(table[p], held[x]),
             table' = [table EXCEPT ![p] = unbind_handle(row, h)],
             state[x] = "Replied",
             unref_exchange(x, 0, request_refs[x], state[x], held[x])
      PROVE  CapInv'
  <2>1. held[x] \in SUBSET Caps /\ request_refs[x] = 0
    BY <1>5 DEF IInv, TypeOK, LifeInv
  <2>2. held'[x] = {}
    <3>1. can_settle(0, request_refs[x], state[x])
      BY <1>5, <2>1 DEF can_settle
    <3> QED BY <1>5, <3>1 DEF unref_exchange, IInv, TypeOK
  <2> HIDE DEF p
  <2>3. /\ row \in Row /\ unbind_handle(row, h) \in Row /\ row[h] = Claim(x)
    <3>1. row \in Row /\ row[h] = table[p][h]
      BY <1>1, <1>5, <2>1, MintStagedOnce, NamedMembers
    <3> QED BY <1>1, <3>1, UnbindHandle
  <2>4. \A k \in Caps, i \in Handles : unbind_handle(row, h)[i] = Cap(k) <=> row[i] = Cap(k)
    <3>1. \A k \in Caps : row[h] # Cap(k)
      BY <1>1, <2>3, NamedMembers
    <3> QED BY <2>3, <3>1, CapsUnbindRow
  <2>5. \A k \in Caps : CapOnce(k)'
    <3>1. Gains(table[p], held[x], row)
      BY <1>1, <1>5, <2>1, MintGains
    <3>2. Gains(table[p], held[x], unbind_handle(row, h))
      BY <2>1, <2>3, <2>4, <3>1 DEF Gains
    <3>3. \A y \in Ring : y # x => held'[y] \subseteq held[y]
      BY <1>2, <1>5
    <3> QED BY <1>1, <1>5, <2>2, <3>2, <3>3, CapsCollected
  <2>6. ArgsInv'
    <3>1. ASSUME NEW k \in Caps, NEW q \in Procs, NEW i \in Handles, table[q][i] = Cap(k)
          PROVE  table'[q][i] = Cap(k)
      <4>1. q = p => unbind_handle(row, h)[i] = Cap(k)
        BY <1>1, <1>5, <2>1, <2>4, <3>1, CapsMintStagedRow
      <4> QED BY <1>1, <1>5, <3>1, <4>1 DEF IInv, TypeOK
    <3> QED BY <1>1, <3>1, ArgsSame
  <2> QED BY <1>2, <1>5, <2>5, <2>6 DEF CapInv
<1> QED BY <1>3, <1>4, <1>5 DEF pipe_resolve, resolve_peer_closed

LEMMA CapReply ==
  ASSUME IInv, CapInv, NEW t \in Threads, NEW h \in Handles, NEW x \in Ring,
         NEW ks \in SendArgs(Home[t]),
         reply_peer_closed(t, h, x) \/ pipe_reply(t, h, x, ks)
  PROVE  CapInv'
<1> DEFINE p == Home[t]
<1>1. /\ table[p][h] = Obligation(x) /\ UNCHANGED call_pipe
      /\ p \in Procs /\ table[p] \in Row /\ Obligation(x) \in Named
  BY HomeType, TableRow, NamedMembers DEF reply_peer_closed, pipe_reply, parked, IInv
<1>2. state[x] = "Taken"
  BY <1>1, HeldObligation
<1>3. held[x] = {}
  BY <1>2 DEF CapInv, HeldInv
<1>4. CASE reply_peer_closed(t, h, x)
  <2>1. /\ table' = [table EXCEPT ![p] = unbind_handle(table[p], h)]
        /\ unref_exchange(x, reply_refs[x], 0, state[x], held[x])
        /\ UNCHANGED call_args
    BY <1>4 DEF reply_peer_closed, parked
  <2>2. /\ HeldInv' /\ held'[x] = {}
        /\ \A y \in Ring : y # x => held'[y] = held[y]
    BY <1>3, <2>1, HeldUnref
  <2> HIDE DEF p
  <2> QED BY <1>1, <2>1, <2>2, CapUnbind
<1>5. CASE pipe_reply(t, h, x, ks)
  <2>1. /\ table' = [table EXCEPT ![p] = unbind_handle(hold_staged(table[p], ks), h)]
        /\ unref_exchange(x, reply_refs[x], 0, "Replied", ks)
        /\ call_args' = Forget(p, ks) /\ reply_refs[x] # 0
    BY <1>5 DEF pipe_reply
  <2>2. ks \in SUBSET Caps /\ \A k \in ks : \E i \in Handles : table[p][i] = Cap(k)
    BY DEF SendArgs, CapsOf
  <2>3. /\ HeldInv' /\ \A y \in Ring : y # x => held'[y] = held[y]
    BY <2>1, HeldUnref
  <2>4. held'[x] = ks
    <3>1. ~can_settle(reply_refs[x], 0, "Replied")
      BY <2>1 DEF can_settle
    <3> QED BY <2>1, <3>1 DEF unref_exchange, IInv, TypeOK
  <2> HIDE DEF p
  <2>5. ASSUME NEW k \in Caps, NEW q \in Procs, NEW i \in Handles
        PROVE  table'[q][i] = Cap(k) <=> table[q][i] = Cap(k) /\ (q # p \/ k \notin ks)
    <3>1. hold_staged(table[p], ks) \in Row
      BY <1>1, <2>2, HoldStaged
    <3>2. hold_staged(table[p], ks)[i] = Cap(k) <=> table[p][i] = Cap(k) /\ k \notin ks
      BY <1>1, <2>2, CapsHoldRow
    <3>3. unbind_handle(hold_staged(table[p], ks), h)[i] = Cap(k)
            <=> hold_staged(table[p], ks)[i] = Cap(k) /\ i # h
      BY <3>1, CapsUnbindRow
    <3>4. table[p][h] # Cap(k)
      BY <1>1, NamedMembers
    <3>5. table'[q] = IF q = p THEN unbind_handle(hold_staged(table[p], ks), h) ELSE table[q]
      BY <1>1, <2>1 DEF IInv, TypeOK
    <3> QED BY <3>2, <3>3, <3>4, <3>5
  <2>6. \A k \in Caps : CapOnce(k)'
    <3>1. \A k \in Caps, q \in Procs, i \in Handles :
             table'[q][i] = Cap(k) => table[q][i] = Cap(k) /\ (q # p \/ k \notin ks)
      BY <2>5
    <3>2. \A y \in Ring : y # x => held'[y] = held[y]
      BY <2>3
    <3> QED BY <1>1, <1>3, <2>2, <2>4, <3>1, <3>2, CapsSent
  <2>7. ArgsInv'
    <3>1. Forgets(p, ks)
      BY <1>1, <2>1, ForgetAt
    <3>2. OnlyLeave(p, ks)
      BY <2>5 DEF OnlyLeave
    <3> QED BY <3>1, <3>2, ArgsKept
  <2> QED BY <2>3, <2>6, <2>7 DEF CapInv
<1> QED BY <1>4, <1>5

LEMMA CapReplyToCaller ==
  ASSUME IInv, CapInv, NEW t \in Threads, NEW h \in Handles, NEW x \in Ring,
         NEW ks \in SendArgs(Home[t]), reply_to_caller(t, h, x, ks)
  PROVE  CapInv'
<1> DEFINE p == Home[t]
           q == Home[caller[x]]
           sent == [table EXCEPT ![p] = hold_staged(table[p], ks)]
<1>1. /\ table[p][h] = Obligation(x) /\ state[x] = "Taken" /\ caller[x] # 0
      /\ unref_exchange(x, Dec(reply_refs[x]), 0, "Settled", {})
      /\ call_args' = Forget(p, ks) /\ UNCHANGED call_pipe
      /\ \/ \E row \in mint_staged(sent[q], ks) :
              table' = [[sent EXCEPT ![q] = row] EXCEPT
                          ![p] = unbind_handle([sent EXCEPT ![q] = row][p], h)]
         \/ table' = [sent EXCEPT ![p] = unbind_handle(sent[p], h)]
  BY DEF reply_to_caller
<1>2. /\ p \in Procs /\ q \in Procs /\ Obligation(x) \in Named /\ table \in [Procs -> Row]
      /\ ks \in SUBSET Caps /\ \A k \in ks : \E i \in Handles : table[p][i] = Cap(k)
  BY <1>1, HomeType, NamedMembers DEF IInv, TypeOK, Row, SendArgs, CapsOf
<1>3. sent \in [Procs -> Row]
  <2>1. hold_staged(table[p], ks) \in Row
    BY <1>2, HoldStaged
  <2> QED BY <1>2, <2>1
<1>4. ASSUME NEW k \in Caps, NEW r \in Procs, NEW i \in Handles
      PROVE  sent[r][i] = Cap(k) <=> table[r][i] = Cap(k) /\ (r # p \/ k \notin ks)
  <2>1. hold_staged(table[p], ks)[i] = Cap(k) <=> table[p][i] = Cap(k) /\ k \notin ks
    BY <1>2, CapsHoldRow
  <2> QED BY <1>2, <2>1
<1>5. sent[p][h] = Obligation(x)
  <2>1. hold_staged(table[p], ks)[h] = Obligation(x)
    BY <1>1, <1>2, RowHold
  <2> QED BY <1>2, <2>1
<1> HIDE DEF sent, p, q
<1>6. \A k \in ks, r \in Procs, i \in Handles : sent[r][i] # Cap(k)
  BY <1>2, <1>4 DEF CapInv, CapOnce
<1>7. \A k \in ks, y \in Ring : k \notin held[y]
  BY <1>2 DEF CapInv, CapOnce
<1>8. /\ HeldInv' /\ held'[x] = {}
      /\ \A y \in Ring : y # x => held'[y] = held[y]
  BY <1>1, HeldUnref
<1>9. /\ \A y \in Ring : held'[y] \subseteq held[y]
      /\ \A k \in ks, y \in Ring : k \notin held'[y]
  BY <1>7, <1>8
<1>10. Forgets(p, ks)
  BY <1>1, ForgetAt
<1>11. \A k \in Caps : Obligation(x) # Cap(k)
  BY <1>2, NamedMembers
<1>12. ASSUME table' = [sent EXCEPT ![p] = unbind_handle(sent[p], h)] PROVE CapInv'
  <2>1. ASSUME NEW k \in Caps, NEW r \in Procs, NEW i \in Handles
        PROVE  table'[r][i] = Cap(k) <=> sent[r][i] = Cap(k)
    <3>1. unbind_handle(sent[p], h)[i] = Cap(k) <=> sent[p][i] = Cap(k) /\ i # h
      BY <1>2, <1>3, CapsUnbindRow
    <3> QED BY <1>2, <1>3, <1>5, <1>11, <1>12, <3>1
  <2>2. \A k \in Caps : CapOnce(k)'
    BY <1>4, <1>9, <2>1, CapsStay
  <2>3. OnlyLeave(p, ks)
    BY <1>4, <2>1 DEF OnlyLeave
  <2> QED BY <1>8, <1>10, <2>2, <2>3, ArgsKept DEF CapInv
<1>13. ASSUME NEW row \in mint_staged(sent[q], ks),
              table' = [[sent EXCEPT ![q] = row] EXCEPT
                          ![p] = unbind_handle([sent EXCEPT ![q] = row][p], h)]
       PROVE  CapInv'
  <2> DEFINE minted == [sent EXCEPT ![q] = row]
  <2>0. Gains(sent[q], ks, row) /\ sent[q] \in Row
    BY <1>2, <1>3, MintGains
  <2>1. /\ minted \in [Procs -> Row]
        /\ \A r \in Procs : minted[r] = IF r = q THEN row ELSE sent[r]
        /\ table' = [minted EXCEPT ![p] = unbind_handle(minted[p], h)]
    BY <1>2, <1>3, <1>13, <2>0 DEF Gains
  <2> HIDE DEF minted
  <2>2. minted[p][h] = Obligation(x)
    <3>1. q = p => row[h] = Obligation(x)
      BY <1>2, <1>5, <2>0, RowMintStaged
    <3> QED BY <1>2, <1>5, <2>1, <3>1
  <2>3. ASSUME NEW k \in Caps, NEW r \in Procs, NEW i \in Handles
        PROVE  table'[r][i] = Cap(k) <=> minted[r][i] = Cap(k)
    <3>1. unbind_handle(minted[p], h)[i] = Cap(k) <=> minted[p][i] = Cap(k) /\ i # h
      BY <1>2, <2>1, CapsUnbindRow
    <3> QED BY <1>2, <1>11, <2>1, <2>2, <3>1
  <2>4. ASSUME NEW k \in Caps, NEW r \in Procs, NEW i \in Handles, table'[r][i] = Cap(k)
        PROVE  (k \in ks /\ r = q) \/ (k \notin ks /\ table[r][i] = Cap(k))
    <3>1. minted[r][i] = Cap(k)
      BY <2>3, <2>4
    <3>2. CASE sent[r][i] = Cap(k)
      BY <1>4, <1>6, <3>2
    <3>3. CASE sent[r][i] # Cap(k)
      BY <2>0, <2>1, <3>1, <3>3 DEF Gains
    <3> QED BY <3>2, <3>3
  <2>5. ASSUME NEW k \in ks, NEW i \in Handles, NEW j \in Handles,
               table'[q][i] = Cap(k), table'[q][j] = Cap(k)
        PROVE  i = j
    <3>1. row[i] = Cap(k) /\ row[j] = Cap(k)
      BY <1>2, <2>1, <2>3, <2>5
    <3>2. \A l \in Handles : sent[q][l] # Cap(k)
      BY <1>2, <1>6
    <3> QED BY <2>0, <3>1, <3>2 DEF Gains
  <2>6. \A k \in Caps : CapOnce(k)'
    <3>1. \A k \in Caps, r \in Procs, i \in Handles :
            table'[r][i] = Cap(k) => (k \in ks /\ r = q) \/ (k \notin ks /\ table[r][i] = Cap(k))
      BY <2>4
    <3>2. \A k \in ks, i, j \in Handles : table'[q][i] = Cap(k) /\ table'[q][j] = Cap(k) => i = j
      BY <2>5
    <3> QED BY <1>2, <1>9, <3>1, <3>2, CapsCome
  <2>7. OnlyLeave(p, ks)
    <3>1. ASSUME NEW k \in Caps, NEW r \in Procs, NEW i \in Handles, sent[r][i] = Cap(k)
          PROVE  minted[r][i] = Cap(k)
      <4>1. r = q => row[i] = Cap(k)
        BY <1>2, <2>0, <3>1, CapsMintStagedRow
      <4> QED BY <2>1, <3>1, <4>1
    <3> QED BY <1>4, <2>3, <3>1 DEF OnlyLeave
  <2> QED BY <1>8, <1>10, <2>6, <2>7, ArgsKept DEF CapInv
<1> QED BY <1>1, <1>12, <1>13

LEMMA CapEnds ==
  ASSUME IInv, CapInv, NEW t \in Threads, NEW h \in Handles,
         pipe_create(t) \/ mint_sibling(t, h)
  PROVE  CapInv'
<1> DEFINE p == Home[t]
<1>p. p \in Procs /\ table[p] \in Row
  BY HomeType, TableRow DEF IInv
<1>0. UNCHANGED <<held, state, call_pipe, call_args>>
  BY DEF pipe_create, mint_sibling, exchanges, parked
<1>1. PICK row \in Row : /\ table' = [table EXCEPT ![p] = row]
                         /\ \A k \in Caps, i \in Handles : row[i] = Cap(k) <=> table[p][i] = Cap(k)
  <2>1. CASE pipe_create(t)
    <3>1. PICK in \in mint_handle(table[p], Inlet) :
            \E row \in mint_handle(in, Outlet) : table' = [table EXCEPT ![p] = row]
      BY <2>1 DEF pipe_create
    <3>2. PICK row \in mint_handle(in, Outlet) : table' = [table EXCEPT ![p] = row]
      BY <3>1
    <3>3. Inlet \in Named /\ Outlet \in Named
      BY NamedMembers
    <3>4. in \in Row /\ row \in Row
      BY <1>p, <3>3, RowMint
    <3>5. \A k \in Caps, i \in Handles : in[i] = Cap(k) <=> table[p][i] = Cap(k)
      BY <1>p, <3>3, <3>4, CapsMintRow
    <3>6. \A k \in Caps, i \in Handles : row[i] = Cap(k) <=> in[i] = Cap(k)
      BY <3>3, <3>4, CapsMintRow
    <3> QED BY <3>2, <3>4, <3>5, <3>6
  <2>2. CASE mint_sibling(t, h)
    <3>1. table[p][h] \in Named
      BY <2>2, NamedMembers DEF mint_sibling
    <3>2. PICK row \in mint_handle(table[p], table[p][h]) : table' = [table EXCEPT ![p] = row]
      BY <2>2 DEF mint_sibling
    <3>3. row \in Row
      BY <1>p, <3>1, RowMint
    <3>4. \A k \in Caps, i \in Handles : row[i] = Cap(k) <=> table[p][i] = Cap(k)
      BY <1>p, <3>1, <3>3, CapsMintRow
    <3> QED BY <3>2, <3>3, <3>4
  <2> QED BY <2>1, <2>2
<1>2. \A k \in Caps, q \in Procs, i \in Handles : table'[q][i] = Cap(k) <=> table[q][i] = Cap(k)
  BY <1>p, <1>1 DEF IInv, TypeOK
<1> HIDE DEF p
<1>3. \A k \in Caps : CapOnce(k)'
  BY <1>0, <1>2, CapsStay
<1>4. HeldInv'
  BY <1>0 DEF HeldInv, CapInv
<1>5. ArgsInv'
  BY <1>0, <1>2, ArgsSame
<1> QED BY <1>3, <1>4, <1>5 DEF CapInv

LEMMA CapMove ==
  ASSUME IInv, CapInv, NEW t \in Threads, NEW q \in Procs, NEW h \in Handles, move_entry(t, q, h)
  PROVE  CapInv'
<1> DEFINE p == Home[t]
           e == table[p][h]
           ks == {k \in Caps : e = Cap(k)}
<1>p. /\ p \in Procs /\ p # q /\ table \in [Procs -> Row] /\ e \in Entry /\ e # Unbound
  BY HomeType DEF move_entry, IInv, TypeOK, Row
<1>0. PICK row \in mint_handle(table[q], e) :
        table' = [table EXCEPT ![q] = row, ![p] = unbind_handle(table[p], h)]
  BY DEF move_entry
<1>1. UNCHANGED <<held, state, call_pipe>> /\ call_args' = Forget(p, ks)
  BY DEF move_entry, exchanges
<1>2. PICK i \in Handles : table[q][i] = Unbound /\ row = [table[q] EXCEPT ![i] = e]
  BY <1>p, <1>0, MintHandle
<1>3. ASSUME NEW k \in Caps, NEW r \in Procs, NEW j \in Handles
      PROVE  table'[r][j] = Cap(k) <=> \/ r = q /\ j = i /\ k \in ks
                                       \/ table[r][j] = Cap(k) /\ ~(r = p /\ j = h)
  <2>1. unbind_handle(table[p], h)[j] = Cap(k) <=> table[p][j] = Cap(k) /\ j # h
    BY <1>p, CapsUnbindRow
  <2>2. Cap(k) # Unbound
    BY EntriesDiffer
  <2>3. row[j] = Cap(k) <=> (j = i /\ k \in ks) \/ table[q][j] = Cap(k)
    BY <1>p, <1>2, <2>2 DEF Row
  <2>4. table'[r] = IF r = p THEN unbind_handle(table[p], h) ELSE IF r = q THEN row ELSE table[r]
    BY <1>p, <1>0
  <2> QED BY <1>p, <2>1, <2>3, <2>4
<1>4. \A k \in ks : table[p][h] = Cap(k) /\ k \in Caps
  OBVIOUS
<1>5. \A k \in Caps : k \notin ks => table[p][h] # Cap(k)
  OBVIOUS
<1> HIDE DEF p, e, ks
<1>6. ASSUME NEW k \in Caps, NEW r \in Procs, NEW j \in Handles, table'[r][j] = Cap(k)
      PROVE  (k \in ks /\ r = q) \/ (k \notin ks /\ table[r][j] = Cap(k))
  <2>1. CASE k \in ks
    <3>1. table[r][j] = Cap(k) => r = p /\ j = h
      BY <1>p, <1>4, <2>1 DEF CapInv, CapOnce
    <3> QED BY <1>3, <1>6, <2>1, <3>1
  <2>2. CASE k \notin ks
    BY <1>3, <1>6, <2>2
  <2> QED BY <2>1, <2>2
<1>7. ASSUME NEW k \in ks, NEW j \in Handles, table'[q][j] = Cap(k) PROVE j = i
  <2>1. table[q][j] # Cap(k)
    BY <1>p, <1>4 DEF CapInv, CapOnce
  <2> QED BY <1>3, <1>4, <1>7, <2>1
<1>8. \A k \in Caps : CapOnce(k)'
  <2>1. \A k \in Caps, r \in Procs, j \in Handles :
          table'[r][j] = Cap(k) => (k \in ks /\ r = q) \/ (k \notin ks /\ table[r][j] = Cap(k))
    BY <1>6
  <2>2. \A k \in ks, j, l \in Handles : table'[q][j] = Cap(k) /\ table'[q][l] = Cap(k) => j = l
    BY <1>7
  <2>3. /\ \A y \in Ring : held'[y] \subseteq held[y]
        /\ \A k \in ks, y \in Ring : k \notin held'[y]
    BY <1>p, <1>1, <1>4 DEF CapInv, CapOnce
  <2> QED BY <2>1, <2>2, <2>3, CapsCome
<1>9. HeldInv'
  BY <1>1 DEF HeldInv, CapInv
<1>10. ArgsInv'
  <2>1. Forgets(p, ks)
    BY <1>1, ForgetAt
  <2>2. ASSUME NEW k \in Caps, NEW r \in Procs, NEW j \in Handles,
               table[r][j] = Cap(k), r # p \/ k \notin ks
        PROVE  table'[r][j] = Cap(k)
    BY <1>3, <1>5, <2>2
  <2>3. OnlyLeave(p, ks)
    BY <2>2 DEF OnlyLeave
  <2> QED BY <2>1, <2>3, ArgsKept
<1> QED BY <1>8, <1>9, <1>10 DEF CapInv

LEMMA CapDrop ==
  ASSUME IInv, CapInv, NEW p \in Procs, NEW h \in Handles, NEW full, drop_reference(p, h, full)
  PROVE  CapInv'
<1>0. table' = [table EXCEPT ![p] = unbind_handle(table[p], h)]
  BY DEF drop_reference
<1>1. CASE table[p][h] \in {Inlet, Outlet} /\ (drop_inlet(full) \/ drop_outlet(full))
  <2>1. table[p][h] \in Named /\ UNCHANGED <<held, state, call_pipe, call_args>>
    BY <1>1, NamedMembers DEF drop_inlet, drop_outlet, exchanges, parked
  <2>2. HeldInv'
    BY <2>1 DEF HeldInv, CapInv
  <2> QED BY <1>0, <2>1, <2>2, CapUnbind
<1>2. CASE table[p][h] = Outlet /\ drop_last_outlet(full)
  <2>1. /\ \A x \in Ring : held'[x] = IF x \in Doomed THEN {} ELSE held[x]
        /\ \A x \in Ring : state'[x] = IF x \in Doomed THEN "Free" ELSE state[x]
        /\ \A t \in Threads : call_args'[t] = {}
    BY <1>2 DEF drop_last_outlet
  <2>2. HeldInv'
    BY <2>1 DEF HeldInv, CapInv
  <2>3. ArgsInv'
    BY <2>1 DEF ArgsInv
  <2>4. ASSUME NEW k \in Caps, NEW q \in Procs, NEW i \in Handles, table'[q][i] = Cap(k)
        PROVE  table[q][i] = Cap(k)
    <3>1. unbind_handle(table[p], h)[i] = Cap(k) => table[p][i] = Cap(k)
      BY TableRow, CapsUnbindRow DEF IInv
    <3> QED BY <1>0, <2>4, <3>1 DEF IInv, TypeOK
  <2>5. \A x \in Ring : held'[x] \subseteq held[x]
    BY <2>1
  <2>6. \A k \in Caps : CapOnce(k)'
    BY <2>4, <2>5, CapsStay
  <2> QED BY <2>2, <2>3, <2>6 DEF CapInv
<1>3. ASSUME NEW x \in Ring, table[p][h] = Claim(x), drop_claim(x, full) PROVE CapInv'
  <2>1. UNCHANGED <<call_pipe, call_args>> /\ table[p][h] \in Named
    BY <1>3, NamedMembers DEF drop_claim, parked
  <2>2. held[x] # {} => state[x] \in {"Staged", "Replied"}
    BY DEF CapInv, HeldInv
  <2>3. CASE unref_exchange(x, Dec(reply_refs[x]), request_refs[x], state[x], held[x])
    <3>1. /\ HeldInv' /\ held'[x] \in {held[x], {}}
          /\ \A y \in Ring : y # x => held'[y] = held[y]
      BY <2>2, <2>3, HeldUnref
    <3>2. \A y \in Ring : held'[y] \subseteq held[y]
      BY <3>1
    <3> QED BY <1>0, <2>1, <3>1, <3>2, CapUnbind
  <2>4. CASE UNCHANGED <<state, held>>
    <3>1. HeldInv'
      BY <2>4 DEF HeldInv, CapInv
    <3> QED BY <1>0, <2>1, <2>4, <3>1, CapUnbind
  <2> QED BY <1>3, <2>3, <2>4 DEF drop_claim
<1>4. ASSUME NEW x \in Ring, table[p][h] = Obligation(x), drop_obligation(x, full) PROVE CapInv'
  <2>1. UNCHANGED <<call_pipe, call_args>> /\ table[p][h] \in Named
    BY <1>4, NamedMembers DEF drop_obligation
  <2>2. held[x] = {}
    BY <1>4, HeldObligation DEF CapInv, HeldInv
  <2>3. ASSUME NEW rep, NEW req, NEW st, unref_exchange(x, rep, req, st, held[x]) PROVE CapInv'
    <3>1. /\ HeldInv' /\ held'[x] = {}
          /\ \A y \in Ring : y # x => held'[y] = held[y]
      BY <2>2, <2>3, HeldUnref
    <3>2. \A y \in Ring : held'[y] \subseteq held[y]
      BY <3>1
    <3> QED BY <1>0, <2>1, <3>1, <3>2, CapUnbind
  <2>4. CASE UNCHANGED <<state, held>>
    <3>1. HeldInv'
      BY <2>4 DEF HeldInv, CapInv
    <3> QED BY <1>0, <2>1, <2>4, <3>1, CapUnbind
  <2> QED BY <1>4, <2>3, <2>4 DEF drop_obligation
<1>5. ASSUME NEW k \in Caps, table[p][h] = Cap(k), drop_cap(p, k) PROVE CapInv'
  <2>1. UNCHANGED <<held, state, call_pipe>> /\ call_args' = Forget(p, {k})
    BY <1>5 DEF drop_cap, exchanges
  <2>2. ASSUME NEW j \in Caps, NEW q \in Procs, NEW i \in Handles
        PROVE  table'[q][i] = Cap(j) <=> table[q][i] = Cap(j) /\ ~(q = p /\ i = h)
    <3>1. unbind_handle(table[p], h)[i] = Cap(j) <=> table[p][i] = Cap(j) /\ i # h
      BY TableRow, CapsUnbindRow DEF IInv
    <3> QED BY <1>0, <3>1 DEF IInv, TypeOK
  <2>3. \A j \in Caps : CapOnce(j)'
    BY <2>1, <2>2, CapsStay
  <2>4. HeldInv'
    BY <2>1 DEF HeldInv, CapInv
  <2>5. Forgets(p, {k})
    BY <2>1, ForgetAt
  <2>6. OnlyLeave(p, {k})
    <3>1. ASSUME NEW j \in Caps, NEW q \in Procs, NEW i \in Handles,
                 table[q][i] = Cap(j), q # p \/ j \notin {k}
          PROVE  table'[q][i] = Cap(j)
      <4>1. q = p /\ i = h => j = k
        BY <1>5, <3>1, CapInjective
      <4> QED BY <2>2, <3>1, <4>1
    <3> QED BY <3>1 DEF OnlyLeave
  <2> QED BY <2>3, <2>4, <2>5, <2>6, ArgsKept DEF CapInv
<1> QED BY <1>1, <1>2, <1>3, <1>4, <1>5 DEF drop_reference

LEMMA CapTeardown ==
  ASSUME IInv, CapInv,
         (\E p \in Procs : end_process(p)) \/ release_pending_calls \/ reap_unreferenced
  PROVE  CapInv'
<1>0. ASSUME UNCHANGED table, \A y \in Ring : held'[y] \subseteq held[y], HeldInv', ArgsInv'
      PROVE  CapInv'
  <2>1. \A k \in Caps : CapOnce(k)'
    BY <1>0, CapsStay
  <2> QED BY <1>0, <2>1 DEF CapInv
<1>1. ASSUME NEW p \in Procs, end_process(p) PROVE CapInv'
  <2>1. /\ UNCHANGED <<table, held, state>>
        /\ \A t \in Threads : /\ call_pipe'[t] <=> (Home[t] # p /\ call_pipe[t])
                              /\ call_args'[t] = IF Home[t] = p THEN {} ELSE call_args[t]
    BY <1>1 DEF end_process, tables, exchanges
  <2>2. HeldInv'
    BY <2>1 DEF HeldInv, CapInv
  <2>3. ASSUME NEW t \in Threads, NEW k \in call_args'[t]
        PROVE  call_pipe'[t] /\ k \in CapsOf(table[Home[t]])
    <3>1. Home[t] # p /\ k \in call_args[t]
      BY <2>1, <2>3
    <3> QED BY <2>1, <3>1 DEF CapInv, ArgsInv
  <2>4. ArgsInv'
    BY <2>1, <2>3 DEF ArgsInv, CapsOf
  <2> QED BY <1>0, <2>1, <2>2, <2>4
<1>2. CASE release_pending_calls
  <2>1. PICK t \in Lowest(Orphans) :
          unref_exchange(call_claim[t], Dec(reply_refs[call_claim[t]]),
                         request_refs[call_claim[t]], state[call_claim[t]], held[call_claim[t]])
    BY <1>2 DEF release_pending_calls
  <2> DEFINE x == call_claim[t]
  <2>2. x \in Ring
    BY LowestIn DEF Orphans, IInv, TypeOK
  <2>3. held[x] # {} => state[x] \in {"Staged", "Replied"}
    BY <2>2 DEF CapInv, HeldInv
  <2>4. unref_exchange(x, Dec(reply_refs[x]), request_refs[x], state[x], held[x])
    BY <2>1
  <2> HIDE DEF x
  <2>5. /\ HeldInv' /\ held'[x] \in {held[x], {}}
        /\ \A y \in Ring : y # x => held'[y] = held[y]
    BY <2>2, <2>3, <2>4, HeldUnref
  <2>6. UNCHANGED <<table, call_pipe, call_args>>
    BY <1>2 DEF release_pending_calls, tables
  <2>7. ArgsInv'
    BY <2>6, ArgsSame
  <2> QED BY <1>0, <2>5, <2>6, <2>7
<1>3. CASE reap_unreferenced
  <2>1. /\ UNCHANGED <<table, call_pipe, call_args>>
        /\ \A x \in Ring : state'[x] = IF exchange_can_settle(x) THEN "Free" ELSE state[x]
        /\ \A x \in Ring : held'[x] = IF exchange_can_settle(x) THEN {} ELSE held[x]
    BY <1>3 DEF reap_unreferenced, tables, parked
  <2>2. HeldInv'
    BY <2>1 DEF HeldInv, CapInv
  <2>3. ArgsInv'
    BY <2>1, ArgsSame
  <2> QED BY <1>0, <2>1, <2>2, <2>3
<1> QED BY <1>1, <1>2, <1>3

LEMMA CapStep == IInv /\ CapInv /\ [Next]_vars => CapInv'
<1> SUFFICES ASSUME IInv, CapInv, [Next]_vars PROVE CapInv'
  OBVIOUS
<1>1. ASSUME NEW t \in Threads, Syscall(t) PROVE CapInv'
  <2>1. CASE HandleOp(t)
    <3>1. 1 \in Handles
      BY ConstantsOK DEF Handles
    <3>2. pipe_create(t) => CapInv'
      BY <3>1, CapEnds
    <3>3. ASSUME NEW h \in Handles, release_handle(t, h) PROVE CapInv'
      BY <3>3, HomeType, CapDrop DEF release_handle
    <3> QED BY <2>1, <3>2, <3>3, CapEnds, CapMove DEF HandleOp
  <2>2. CASE Resolve(t)
    BY <2>2, CapResolve DEF Resolve
  <2>3. CASE Reply(t)
    <3>1. PICK h \in Handles, x \in Ring :
            \/ reply_peer_closed(t, h, x)
            \/ \E ks \in SendArgs(Home[t]) : pipe_reply(t, h, x, ks) \/ reply_to_caller(t, h, x, ks)
      BY <2>3 DEF Reply
    <3>2. {} \in SendArgs(Home[t])
      BY FS_EmptySet, ConstantsOK DEF SendArgs
    <3>3. CASE reply_peer_closed(t, h, x)
      BY <3>2, <3>3, CapReply
    <3> QED BY <3>1, <3>3, CapReply, CapReplyToCaller
  <2> QED BY <1>1, <2>1, <2>2, <2>3, CapSend, CapTake DEF Syscall, Take
<1>2. CASE close_all
  <2>1. PICK h \in Handles : drop_reference(dying, h, FALSE)
    BY <1>2, LowestIn DEF close_all, Bound
  <2>2. dying \in Procs
    BY <1>2 DEF close_all, IInv, TypeOK
  <2> QED BY <2>1, <2>2, CapDrop
<1>3. CASE UNCHANGED vars
  BY <1>3 DEF vars, CapInv, CapOnce, HeldInv, ArgsInv, CapsOf
<1> QED BY <1>1, <1>2, <1>3, CapResume, CapTeardown DEF Next, Kernel

LEMMA CapInit == Init => CapInv
<1> SUFFICES ASSUME Init PROVE CapInv
  OBVIOUS
<1>1. /\ \A x \in Ring : held[x] = {}
      /\ \A t \in Threads : call_args[t] = {}
  BY DEF Init
<1>2. ASSUME NEW k \in Caps PROVE CapOnce(k)
  <2>1. PICK p \in Procs, h \in Handles :
          \A q \in Procs, i \in Handles : table[q][i] = Cap(k) <=> q = p /\ i = h
    BY DEF Init
  <2> QED BY <1>1, <2>1 DEF CapOnce
<1> QED BY <1>1, <1>2 DEF CapInv, HeldInv, ArgsInv

\* A set of at most one member has at most one.
LEMMA AtMostOne ==
  ASSUME NEW S, \A a, b \in S : a = b
  PROVE  (S = {} \/ \E a : S = {a}) /\ Cardinality(S) \in 0..1 /\ (S = {} => Cardinality(S) = 0)
<1>1. CASE S = {}
  BY <1>1, FS_EmptySet
<1>2. CASE S # {}
  <2>1. PICK a \in S : S = {a}
    BY <1>2
  <2> QED BY <2>1, FS_Singleton
<1> QED BY <1>1, <1>2

LEMMA CapImplies == IInv /\ CapInv => CapsInOnePlace
<1> SUFFICES ASSUME IInv, CapInv, NEW k \in Caps
             PROVE  /\ Cardinality(Holders(Cap(k))) + Cardinality({x \in Ring : k \in held[x]}) <= 1
                    /\ \A x \in Ring : k \in held[x] => state[x] \in {"Staged", "Replied"}
                    /\ \A t \in Threads : k \in call_args[t] =>
                          call_pipe[t] /\ k \in CapsOf(table[Home[t]])
  BY DEF CapsInOnePlace
<1> DEFINE In == {x \in Ring : k \in held[x]}
<1>0. CapOnce(k)
  BY DEF CapInv
<1>1. \A a, b \in Holders(Cap(k)) : a = b
  <2> SUFFICES ASSUME NEW a \in Holders(Cap(k)), NEW b \in Holders(Cap(k)) PROVE a = b
    OBVIOUS
  <2>1. /\ a \in Procs \X Handles /\ b \in Procs \X Handles
        /\ table[a[1]][a[2]] = Cap(k) /\ table[b[1]][b[2]] = Cap(k)
    BY DEF Holders
  <2>2. a[1] = b[1] /\ a[2] = b[2]
    BY <1>0, <2>1 DEF CapOnce
  <2> QED BY <2>1, <2>2
<1>2. \A x, y \in In : x = y
  BY <1>0 DEF CapOnce
<1>3. In = {} \/ Holders(Cap(k)) = {}
  BY <1>0 DEF CapOnce, Holders
<1> HIDE DEF In
<1>4. Cardinality(In) \in 0..1 /\ (In = {} => Cardinality(In) = 0)
  BY <1>2, AtMostOne
<1>5. /\ Cardinality(Holders(Cap(k))) \in 0..1
      /\ Holders(Cap(k)) = {} => Cardinality(Holders(Cap(k))) = 0
  BY <1>1, AtMostOne
<1>6. Cardinality(Holders(Cap(k))) + Cardinality(In) <= 1
  BY <1>3, <1>4, <1>5
<1> QED BY <1>6 DEF In, CapInv, HeldInv, ArgsInv

\* A handle sent in a request or a reply is in one entry of one table or in one
\* message at every moment, however many messages cross, callers wait for room
\* and processes die: hold_staged, mint_staged and take_staged never copy one.
THEOREM CapsStayInOnePlace == Spec => []CapsInOnePlace
<1>1. Spec => []CapInv
  BY Invariant, CapInit, CapStep, PTL DEF Spec
<1> QED BY <1>1, Invariant, CapImplies, PTL
=============================================================================
