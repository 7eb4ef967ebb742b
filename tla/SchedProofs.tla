----------------------------- MODULE SchedProofs -----------------------------
(***************************************************************************)
(* The level-triggered guarantee of module Sched, for every number of      *)
(* threads, Timers, Events, lines and Waiters.                             *)
(***************************************************************************)
EXTENDS Sched, FiniteSetTheorems, FunctionTheorems, TLAPS

(* The two facts a wake and a park need of the lists they work on.          *)
LEMMA HeadTail ==
    ASSUME NEW S, NEW s \in Seq(S), s # <<>>
    PROVE  Head(s) \in S /\ Tail(s) \in Seq(S)
  OBVIOUS

LEMMA WithoutType ==
    ASSUME NEW S, NEW s \in Seq(S), NEW x
    PROVE  Without(s, x) \in Seq(S)
  <1> DEFINE k == CHOOSE j \in DOMAIN s : s[j] = x
  <1>1. CASE x \in Members(s)
    <2>1. \E j \in DOMAIN s : s[j] = x
      BY <1>1 DEF Members
    <2>2. k \in DOMAIN s
      BY <2>1
    <2>3. k \in 1..Len(s) /\ Len(s) \in Nat
      BY <2>2
    <2> HIDE DEF k
    <2>4. SubSeq(s, 1, k - 1) \in Seq(S) /\ SubSeq(s, k + 1, Len(s)) \in Seq(S)
      BY <2>3
    <2>5. SubSeq(s, 1, k - 1) \o SubSeq(s, k + 1, Len(s)) \in Seq(S)
      BY <2>4
    <2> QED BY <1>1, <2>5 DEF Without, k
  <1>2. CASE x \notin Members(s)
    BY <1>2 DEF Without
  <1> QED BY <1>1, <1>2

LEMMA MembersType ==
    ASSUME NEW S, NEW s \in Seq(S)
    PROVE  Members(s) \subseteq S
  BY DEF Members

LEMMA UpdateType ==
    ASSUME NEW A, NEW B, NEW f \in [A -> B], NEW i, NEW e, i \in A => e \in B
    PROVE  [f EXCEPT ![i] = e] \in [A -> B]
  OBVIOUS

(* What handing over a record leaves.                                       *)
LEMMA DeliverType ==
    ASSUME TypeOK, NEW x \in Waitables, NEW t \in Threads,
           deliver_attachment(x, t)
    PROVE  /\ level' \in [Waitables -> BOOLEAN] /\ told' \subseteq Lines
           /\ wrote' \subseteq Threads \X Answer
           /\ att' \in [Waitables -> Attachment \cup {NoOne}]
           /\ attached' \in [Waiters -> Seq(Waitables)]
  <1>1. level' \in [Waitables -> BOOLEAN] /\ told' \subseteq Lines
    BY DEF deliver_attachment, TypeOK, waitable_consume
  <1>2. wrote' \subseteq Threads \X Answer
    BY DEF deliver_attachment, Answer
  <1>3. att' \in [Waitables -> Attachment \cup {NoOne}]
    BY DEF deliver_attachment, TypeOK
  <1>4. attached' \in [Waiters -> Seq(Waitables)]
    <2>1. \A w \in Waiters : Without(attached[w], x) \in Seq(Waitables)
      BY WithoutType DEF TypeOK
    <2>2. \/ attached' = attached
          \/ attached' = [attached EXCEPT ![att[x].waiter]
                             = Without(attached[att[x].waiter], x)]
      BY DEF deliver_attachment
    <2>3. attached \in [Waiters -> Seq(Waitables)]
      BY DEF TypeOK
    <2>4. [attached EXCEPT ![att[x].waiter] = Without(attached[att[x].waiter], x)]
            \in [Waiters -> Seq(Waitables)]
      <3> DEFINE i == att[x].waiter  e == Without(attached[i], x)
      <3>1. i \in Waiters => e \in Seq(Waitables)
        BY <2>1
      <3> HIDE DEF i, e
      <3>2. [attached EXCEPT ![i] = e] \in [Waiters -> Seq(Waitables)]
        BY <2>3, <3>1, UpdateType
      <3> QED BY <3>2 DEF i, e
    <2> QED BY <2>2, <2>3, <2>4
  <1> QED BY <1>1, <1>2, <1>3, <1>4

(* What a notification leaves.                                              *)
LEMMA NotifyType ==
    ASSUME TypeOK, NEW x \in Waitables, notify_ready(x)
    PROVE  /\ level' \in [Waitables -> BOOLEAN] /\ told' \subseteq Lines
           /\ wrote' \subseteq Threads \X Answer
           /\ att' \in [Waitables -> Attachment \cup {NoOne}]
           /\ attached' \in [Waiters -> Seq(Waitables)]
           /\ blocked' \in [Waiters -> Seq(Threads)]
           /\ state' \in [Threads -> ThreadState]
           /\ ready' \in Seq(Threads)
  <1>1. CASE att[x] # NoOne /\ wake_one_waiter(att[x].waiter, x)
    <2> DEFINE w == att[x].waiter  t == Head(blocked[w])
    <2>1. att[x] \in Attachment /\ w \in Waiters
      BY <1>1 DEF TypeOK, Attachment
    <2>2. blocked[w] \in Seq(Threads) /\ blocked[w] # <<>>
      BY <1>1, <2>1 DEF TypeOK, wake_one_waiter
    <2>3. t \in Threads /\ Tail(blocked[w]) \in Seq(Threads)
      BY <2>2, HeadTail
    <2>4. deliver_attachment(x, t)
      BY <1>1 DEF wake_one_waiter
    <2>5. blocked' \in [Waiters -> Seq(Threads)]
      BY <1>1, <2>3 DEF wake_one_waiter, TypeOK
    <2>6. state' \in [Threads -> ThreadState]
      BY <1>1, <2>3 DEF wake_one_waiter, TypeOK, ThreadState
    <2>7. ready' \in Seq(Threads)
      BY <1>1, <2>3 DEF wake_one_waiter, TypeOK, ready_push
    <2> QED BY <2>1, <2>3, <2>4, <2>5, <2>6, <2>7, DeliverType
  <1>2. CASE /\ level' = [level EXCEPT ![x] = TRUE]
             /\ told' = told \ {x}
             /\ Quiet
             /\ UNCHANGED <<state, ready, blocked, att, attached>>
    BY <1>2 DEF TypeOK, Quiet
  <1> QED BY <1>1, <1>2 DEF notify_ready

(* The calls that leave the wait machinery alone.                           *)
LEMMA ThreadCallsType ==
    ASSUME TypeOK,
           \/ ThreadCreate \/ Yield \/ LongOp \/ BadCall \/ LongDone
           \/ \E t \in Threads : Start(t) \/ Join(t)
           \/ \E c \in Codes : Exit(c)
    PROVE  TypeOK'
  <1>1. CASE ThreadCreate
    BY <1>1 DEF ThreadCreate, Syscall, Quiet, TypeOK, ThreadState, waitVars, svcVars
  <1>2. CASE Yield
    BY <1>2 DEF Yield, Syscall, Quiet, TypeOK, waitVars, svcVars
  <1>3. CASE LongOp \/ BadCall \/ LongDone
    BY <1>3 DEF LongOp, BadCall, LongDone, Quiet, TypeOK, threadVars, waitVars,
                svcVars, Ended
  <1>4. ASSUME NEW t \in Threads, Start(t)
        PROVE  TypeOK'
    <2>1. ready' \in Seq(Threads) /\ state' \in [Threads -> ThreadState]
      BY <1>4 DEF Start, ready_push, TypeOK, ThreadState
    <2> QED BY <1>4, <2>1 DEF Start, Syscall, Quiet, TypeOK, waitVars, svcVars
  <1>5. ASSUME NEW t \in Threads, Join(t)
        PROVE  TypeOK'
    <2>1. UNCHANGED <<code, ready, cur, slice, waitVars, due, back>> /\ pc' = "pick"
      BY <1>5 DEF Join, Syscall, svcVars
    <2>2. CASE /\ wrote' = {<<cur, code[t]>>}
               /\ UNCHANGED <<state, joiners, resched>>
      <3>1. wrote' \subseteq Threads \X Answer
        BY <2>2 DEF TypeOK, Answer
      <3> QED BY <2>1, <2>2, <3>1 DEF TypeOK, waitVars
    <2>3. CASE joiners' = [joiners EXCEPT ![t] = <<cur>> \o @] /\ Park
      <3>1. joiners' \in [Threads -> Seq(Threads)]
        BY <2>3 DEF TypeOK
      <3> QED BY <2>1, <2>3, <3>1 DEF TypeOK, waitVars, Park, Quiet, ThreadState
    <2> QED BY <1>5, <2>2, <2>3 DEF Join
  <1>6. ASSUME NEW c \in Codes, Exit(c)
        PROVE  TypeOK'
    <2> DEFINE after == [joiners EXCEPT ![cur] = <<>>]
               results == Members(joiners[cur]) \X {c}
    <2>1. ExitAs(c, after, results)
      BY <1>6 DEF Exit
    <2>2. joiners[cur] \in Seq(Threads) /\ after \in [Threads -> Seq(Threads)]
      BY DEF TypeOK
    <2>3. results \subseteq Threads \X Answer
      BY <2>2, MembersType DEF Answer
    <2>4. ready' \in Seq(Threads) /\ state' \in [Threads -> ThreadState]
          /\ code' \in [Threads -> Codes \cup {NoOne}]
          /\ pc' \in {"exited", "pick"}
      BY <2>1, <2>2 DEF ExitAs, TypeOK, ThreadState
    <2> QED BY <2>1, <2>2, <2>3, <2>4 DEF ExitAs, TypeOK, waitVars, svcVars, Ended
  <1> QED BY <1>1, <1>2, <1>3, <1>4, <1>5, <1>6

(* The calls on Events, Interrupts and Timers.                              *)
LEMMA WaitableCallsType ==
    ASSUME TypeOK,
           \/ \E e \in Events : Receive(e) \/ \E bits \in BOOLEAN : Signal(e, bits)
           \/ \E i \in Lines : Bind(i) \/ Ack(i)
           \/ \E x \in Timers : Arm(x) \/ Disarm(x)
    PROVE  TypeOK'
  <1>1. ASSUME NEW e \in Events, Receive(e)
        PROVE  TypeOK'
    BY <1>1 DEF Receive, Syscall, Quiet, TypeOK, threadVars, svcVars
  <1>2. ASSUME NEW e \in Events, NEW bits \in BOOLEAN, Signal(e, bits)
        PROVE  TypeOK'
    <2>1. CASE notify_ready(e)
      <3>1. e \in Waitables
        BY DEF Waitables
      <3> QED BY <1>2, <2>1, <3>1, NotifyType DEF Signal, Syscall, TypeOK,
                 otherThreadVars, svcVars
    <2>2. CASE Quiet /\ UNCHANGED notifyVars
      BY <1>2, <2>2 DEF Signal, Syscall, Quiet, TypeOK, otherThreadVars, svcVars,
                        notifyVars
    <2> QED BY <1>2, <2>1, <2>2 DEF Signal
  <1>3. ASSUME NEW i \in Lines, Bind(i) \/ Ack(i)
        PROVE  TypeOK'
    BY <1>3 DEF Bind, Ack, Syscall, Quiet, TypeOK, threadVars, svcVars
  <1>4. ASSUME NEW x \in Timers, NEW kind \in {"off", "once", "every"},
               Schedule(x, kind)
        PROVE  TypeOK'
    BY <1>4 DEF Schedule, Syscall, Quiet, TypeOK, threadVars, svcVars
  <1> QED BY <1>1, <1>2, <1>3, <1>4 DEF Arm, Disarm

(* The calls on a Waiter.                                                   *)
LEMMA WaiterCallsType ==
    ASSUME TypeOK, NEW w \in Waiters,
           \/ Wait(w) \/ ReleaseWaiter(w)
           \/ \E x \in Waitables :
                Remove(w, x) \/ \E once \in BOOLEAN : Add(w, x, once)
    PROVE  TypeOK'
  <1>1. attached[w] \in Seq(Waitables) /\ blocked[w] \in Seq(Threads)
    BY DEF TypeOK
  <1>2. CASE Wait(w)
    <2>1. UNCHANGED <<code, joiners, ready, cur, slice, armed, bound, alive, due, back>>
          /\ pc' = "pick"
      BY <1>2 DEF Wait, Syscall, svcVars
    <2>2. ASSUME NEW k \in DOMAIN attached[w], deliver_attachment(attached[w][k], cur),
                 UNCHANGED <<state, resched, blocked>>
          PROVE  TypeOK'
      <3> DEFINE x == attached[w][k]
      <3>1. x \in Waitables
        BY <1>1
      <3>2. /\ level' \in [Waitables -> BOOLEAN] /\ told' \subseteq Lines
            /\ wrote' \subseteq Threads \X Answer
            /\ att' \in [Waitables -> Attachment \cup {NoOne}]
            /\ attached' \in [Waiters -> Seq(Waitables)]
        BY <2>2, <3>1, DeliverType DEF TypeOK
      <3> QED BY <2>1, <2>2, <3>2 DEF TypeOK
    <2>3. CASE /\ blocked' = [blocked EXCEPT ![w] = <<cur>> \o @]
               /\ Park
               /\ UNCHANGED <<level, told, att, attached>>
      <3>1. blocked' \in [Waiters -> Seq(Threads)]
        BY <2>3 DEF TypeOK
      <3> QED BY <2>1, <2>3, <3>1 DEF TypeOK, Park, Quiet, ThreadState
    <2> QED BY <1>2, <2>2, <2>3 DEF Wait
  <1>3. CASE ReleaseWaiter(w)
    <2>1. Members(blocked[w]) \subseteq Threads
      BY <1>1, MembersType
    <2>2. ready' \in Seq(Threads) /\ blocked' \in [Waiters -> Seq(Threads)]
          /\ attached' \in [Waiters -> Seq(Waitables)]
      BY <1>1, <1>3 DEF ReleaseWaiter, TypeOK
    <2>3. state' \in [Threads -> ThreadState]
          /\ att' \in [Waitables -> Attachment \cup {NoOne}]
      BY <1>3 DEF ReleaseWaiter, TypeOK, ThreadState
    <2>4. wrote' \subseteq Threads \X Answer
      BY <1>3, <2>1 DEF ReleaseWaiter, Answer
    <2> QED BY <1>3, <2>2, <2>3, <2>4 DEF ReleaseWaiter, Syscall, TypeOK,
                                          otherThreadVars, svcVars
  <1>4. ASSUME NEW x \in Waitables, Remove(w, x)
        PROVE  TypeOK'
    <2>1. Without(attached[w], x) \in Seq(Waitables)
      BY <1>1, WithoutType
    <2> QED BY <1>4, <2>1 DEF Remove, Syscall, Quiet, TypeOK, threadVars, svcVars
  <1>5. ASSUME NEW x \in Waitables, NEW once \in BOOLEAN, Add(w, x, once)
        PROVE  TypeOK'
    <2> DEFINE t == Head(blocked[w])
               wakes == level[x] /\ blocked[w] # <<>>
    <2>1. UNCHANGED <<code, joiners, cur, resched, slice, armed, bound, alive,
                      due, back>> /\ pc' = "pick"
      BY <1>5 DEF Add, Syscall, otherThreadVars, svcVars
    <2>2. att' \in [Waitables -> Attachment \cup {NoOne}]
          /\ attached' \in [Waiters -> Seq(Waitables)]
      <3>1. [waiter |-> w, oneshot |-> once] \in Attachment
        BY DEF Attachment
      <3>2. <<x>> \o attached[w] \in Seq(Waitables)
        BY <1>1
      <3>3. \/ UNCHANGED <<att, attached>>
            \/ /\ att' = [att EXCEPT ![x] = [waiter |-> w, oneshot |-> once]]
               /\ attached' = [attached EXCEPT ![w] = <<x>> \o attached[w]]
        BY <1>5 DEF Add
      <3> QED BY <3>1, <3>2, <3>3 DEF TypeOK
    <2>3. CASE wakes
      <3>1. t \in Threads /\ Tail(blocked[w]) \in Seq(Threads)
        BY <1>1, <2>3, HeadTail
      <3>2. /\ blocked' = [blocked EXCEPT ![w] = Tail(@)]
            /\ wrote' = {<<t, x>>}
            /\ level' = [level EXCEPT ![x] = waitable_consume(x)]
            /\ told' = told \cup ({x} \cap Lines)
            /\ state' = [state EXCEPT ![t] = "Runnable"]
            /\ ready' = ready_push(ready, t)
        BY <1>5, <2>3 DEF Add
      <3>3. ready' \in Seq(Threads) /\ blocked' \in [Waiters -> Seq(Threads)]
            /\ state' \in [Threads -> ThreadState]
        BY <3>1, <3>2 DEF TypeOK, ready_push, ThreadState
      <3>4. level' \in [Waitables -> BOOLEAN] /\ told' \subseteq Lines
            /\ wrote' \subseteq Threads \X Answer
        BY <3>1, <3>2 DEF TypeOK, waitable_consume, Answer
      <3> QED BY <2>1, <2>2, <3>3, <3>4 DEF TypeOK
    <2>4. CASE ~wakes
      BY <1>5, <2>1, <2>2, <2>4 DEF Add, Quiet, TypeOK
    <2> QED BY <2>3, <2>4
  <1> QED BY <1>2, <1>3, <1>4, <1>5

(* Interrupts and the switch point.                                         *)
LEMMA KernelType ==
    ASSUME TypeOK,
           \/ Stay \/ Switch \/ Nothing \/ IdleExit \/ Served
           \/ \E x \in Timers : FireTimer(x)
           \/ Timer \/ Device
    PROVE  TypeOK'
  <1>1. CASE Stay
    BY <1>1 DEF Stay, Quiet, TypeOK, threadVars, waitVars, svcVars
  <1>2. CASE Switch
    <2> DEFINE q == IF state[cur] = "Running" THEN ready_push(ready, cur) ELSE ready
               st == IF state[cur] = "Running"
                       THEN [state EXCEPT ![cur] = "Runnable"] ELSE state
    <2>1. q \in Seq(Threads) /\ st \in [Threads -> ThreadState]
      BY DEF TypeOK, ready_push, ThreadState
    <2>2. q # <<>> /\ ready' = Tail(q) /\ state' = [st EXCEPT ![Head(q)] = "Running"]
          /\ cur' = Head(q)
      BY <1>2 DEF Switch, run_thread
    <2> HIDE DEF q, st
    <2>3. Head(q) \in Threads /\ Tail(q) \in Seq(Threads)
      BY <2>1, <2>2, HeadTail
    <2>4. ready' \in Seq(Threads) /\ state' \in [Threads -> ThreadState]
          /\ cur' \in Threads
      BY <2>1, <2>2, <2>3 DEF ThreadState
    <2>5. wrote' = {} /\ resched' = FALSE /\ slice' = SliceTicks
      BY <1>2 DEF Switch, run_thread, Quiet
    <2>6. slice' \in 1..SliceTicks /\ resched' \in BOOLEAN
          /\ wrote' \subseteq Threads \X Answer
      <3>1. SliceTicks \in 1..SliceTicks
        BY SchedAssumption
      <3>2. wrote' \subseteq Threads \X Answer
        BY <2>5
      <3> QED BY <2>5, <3>1, <3>2, Zenon
    <2>7. UNCHANGED <<code, joiners, level, armed, bound, att, attached, blocked,
                      alive, told, due, back>> /\ pc' = "user"
      BY <1>2 DEF Switch, run_thread, waitVars, svcVars
    <2> QED BY <2>4, <2>6, <2>7 DEF TypeOK
  <1>3. CASE Nothing
    BY <1>3 DEF Nothing, Quiet, TypeOK, waitVars, svcVars, Ended
  <1>4. CASE IdleExit
    <2>1. ready # <<>> /\ ready' = Tail(ready) /\ cur' = Head(ready)
          /\ state' = [state EXCEPT ![Head(ready)] = "Running"]
      BY <1>4 DEF IdleExit, run_thread
    <2>2. Head(ready) \in Threads /\ Tail(ready) \in Seq(Threads)
      BY <2>1, HeadTail DEF TypeOK
    <2>3. ready' \in Seq(Threads) /\ state' \in [Threads -> ThreadState]
          /\ cur' \in Threads
      BY <2>1, <2>2 DEF ThreadState, TypeOK
    <2> QED BY <1>4, <2>3, SchedAssumption DEF IdleExit, run_thread, Quiet, TypeOK,
                                                waitVars, svcVars
  <1>5. CASE Served
    BY <1>5 DEF Served, Resume, Quiet, TypeOK, threadVars, waitVars, svcVars
  <1>6. ASSUME NEW x \in Timers, FireTimer(x)
        PROVE  TypeOK'
    <2>1. x \in Waitables /\ notify_ready(x)
      BY <1>6 DEF FireTimer, Waitables
    <2>2. armed' \in [Timers -> {"off", "once", "every"}] /\ due' \subseteq Timers
      BY <1>6 DEF FireTimer, TypeOK
    <2> QED BY <1>6, <2>1, <2>2, NotifyType DEF FireTimer, TypeOK, otherThreadVars
  <1>7. ASSUME NEW tick \in BOOLEAN, NEW came \in SUBSET Due,
               TimerInterrupt(tick, came)
        PROVE  TypeOK'
    <2>1. slice' \in 1..SliceTicks /\ resched' \in BOOLEAN
      BY <1>7, SchedAssumption DEF TimerInterrupt, on_timer_tick, TypeOK
    <2>2. due' \subseteq Timers /\ back' \in {"user", "long", "idle"}
      BY <1>7 DEF TimerInterrupt, Due, Interruptible
    <2> QED BY <1>7, <2>1, <2>2 DEF TimerInterrupt, Quiet, TypeOK, waitVars
  <1>8. ASSUME NEW i \in Lines, ExternalIrq(i)
        PROVE  TypeOK'
    <2>1. i \in Waitables /\ notify_ready(i)
      BY <1>8 DEF ExternalIrq, Waitables
    <2>2. pc' \in {"pick", "long", "idle"}
      BY <1>8 DEF ExternalIrq, Interruptible, Resume
    <2> QED BY <1>8, <2>1, <2>2, NotifyType DEF ExternalIrq, TypeOK, otherThreadVars,
                                                svcVars
  <1> QED BY <1>1, <1>2, <1>3, <1>4, <1>5, <1>6, <1>7, <1>8 DEF Timer, Device

LEMMA TypeStep ==
    ASSUME TypeOK, [Next]_vars
    PROVE  TypeOK'
  <1>1. CASE UNCHANGED vars
    BY <1>1 DEF TypeOK, vars, threadVars, waitVars
  <1>2. CASE Kernel
    BY <1>2, KernelType, ThreadCallsType DEF Kernel
  <1>3. CASE User
    BY <1>3, ThreadCallsType, WaitableCallsType, WaiterCallsType DEF User, TimerCall
  <1>4. CASE Timer \/ Device
    BY <1>4, KernelType
  <1>5. CASE Halted
    BY <1>1, <1>5 DEF Halted
  <1> QED BY <1>1, <1>2, <1>3, <1>4, <1>5 DEF Next

LEMMA InitType == Init => TypeOK
  <1> SUFFICES ASSUME Init PROVE TypeOK
    OBVIOUS
  <1>1. ready \in Seq(Threads) /\ joiners \in [Threads -> Seq(Threads)]
        /\ attached \in [Waiters -> Seq(Waitables)]
        /\ blocked \in [Waiters -> Seq(Threads)]
    BY DEF Init
  <1>2. cur \in Threads /\ slice \in 1..SliceTicks
    BY SchedAssumption DEF Init, Threads
  <1>3. state \in [Threads -> ThreadState]
    BY DEF Init, ThreadState
  <1> QED BY <1>1, <1>2, <1>3 DEF Init, TypeOK

(* TypeOK for every instance of the machine.                                *)
THEOREM TypeCorrect == Spec => []TypeOK
  BY InitType, TypeStep, PTL DEF Spec

-----------------------------------------------------------------------------
(***************************************************************************)
(* NoLostWakeup is inductive on its own, given the types: every step that  *)
(* raises a level or makes an attachment looks at the blocked list first,  *)
(* and every step that parks a thread looks at the levels first.           *)
(***************************************************************************)

(* What a step that raises no level, attaches nothing and parks nobody does *)
(* to the guarantee: nothing.                                               *)
LEMMA WeakerKeepsWakeup ==
    ASSUME TypeOK, NoLostWakeup,
           \A x \in Waitables : level'[x] => level[x],
           \A x \in Waitables : att'[x] # NoOne => att'[x] = att[x],
           \A w \in Waiters : blocked[w] = <<>> => blocked'[w] = <<>>,
           \A x \in Waitables : x \in told => x \in told' \/ ~level'[x]
    PROVE  NoLostWakeup'
  <1> SUFFICES ASSUME NEW x \in Waitables, (att[x] # NoOne /\ level[x])'
               PROVE  (blocked[att[x].waiter] = <<>> \/ x \in told)'
    BY DEF NoLostWakeup
  <1>1. att'[x] = att[x] /\ att[x] # NoOne /\ level[x]
    OBVIOUS
  <1>2. att[x].waiter \in Waiters
    BY <1>1 DEF TypeOK, Attachment
  <1> QED BY <1>1, <1>2 DEF NoLostWakeup

(* A wake takes one thread off the blocked list of w and reports x: those   *)
(* left behind on w had something else to be told of, or nothing.           *)
LEMMA NotifyKeepsWakeup ==
    ASSUME TypeOK, NoLostWakeup, NEW x \in Waitables, notify_ready(x)
    PROVE  NoLostWakeup'
  <1>1. CASE att[x] # NoOne /\ wake_one_waiter(att[x].waiter, x)
    <2>1. level' = [level EXCEPT ![x] = waitable_consume(x)]
          /\ told' = told \cup ({x} \cap Lines)
          /\ blocked' = [blocked EXCEPT ![att[x].waiter] = Tail(@)]
          /\ blocked[att[x].waiter] # <<>>
      BY <1>1 DEF wake_one_waiter, deliver_attachment
    <2>2. att' = att \/ att' = [att EXCEPT ![x] = NoOne]
      BY <1>1 DEF wake_one_waiter, deliver_attachment
    <2> SUFFICES ASSUME NEW y \in Waitables, (att[y] # NoOne /\ level[y])'
                 PROVE  (blocked[att[y].waiter] = <<>> \/ y \in told)'
      BY DEF NoLostWakeup
    <2>3. CASE y = x
      BY <2>1, <2>3 DEF waitable_consume, TypeOK
    <2>4. CASE y # x
      <3>1. att'[y] = att[y] /\ att[y] # NoOne /\ level[y]
        BY <2>1, <2>2, <2>4 DEF TypeOK
      <3>2. blocked[att[y].waiter] = <<>> \/ y \in told
        BY <3>1 DEF NoLostWakeup
      <3>3. CASE blocked[att[y].waiter] = <<>>
        <4>1. att[y].waiter \in Waiters /\ att[y].waiter # att[x].waiter
          BY <2>1, <3>1, <3>3 DEF TypeOK, Attachment
        <4> QED BY <2>1, <3>1, <3>3, <4>1 DEF TypeOK
      <3> QED BY <2>1, <3>2, <3>3
    <2> QED BY <2>3, <2>4
  <1>2. CASE /\ att[x] # NoOne => blocked[att[x].waiter] = <<>>
             /\ level' = [level EXCEPT ![x] = TRUE]
             /\ told' = told \ {x}
             /\ UNCHANGED <<blocked, att>>
    <2> SUFFICES ASSUME NEW y \in Waitables, (att[y] # NoOne /\ level[y])'
                 PROVE  (blocked[att[y].waiter] = <<>> \/ y \in told)'
      BY DEF NoLostWakeup
    <2>1. CASE y = x
      BY <1>2, <2>1
    <2>2. CASE y # x
      BY <1>2, <2>2 DEF NoLostWakeup, TypeOK
    <2> QED BY <2>1, <2>2
  <1> QED BY <1>1, <1>2 DEF notify_ready

(* The calls and the kernel steps that do not touch the wait machinery at   *)
(* all, and those that only lower a level or undo an attachment.            *)
LEMMA OtherStepsKeepWakeup ==
    ASSUME TypeOK, NoLostWakeup,
           \/ Stay \/ Switch \/ Nothing \/ IdleExit \/ Served \/ LongDone
           \/ ThreadCreate \/ Yield \/ LongOp \/ BadCall
           \/ \E t \in Threads : Start(t) \/ Join(t)
           \/ \E c \in Codes : Exit(c)
           \/ Timer \/ Halted
    PROVE  NoLostWakeup'
  <1>1. UNCHANGED <<level, att, blocked, told>>
    BY DEF Stay, Switch, Nothing, IdleExit, Served, LongDone, ThreadCreate, Yield,
           LongOp, BadCall, Start, Join, Exit, ExitAs, Timer, TimerInterrupt, Halted,
           vars, waitVars
  <1> QED BY <1>1 DEF NoLostWakeup

LEMMA LoweringKeepsWakeup ==
    ASSUME TypeOK, NoLostWakeup,
           \/ \E e \in Events : Receive(e)
           \/ \E i \in Lines : Bind(i) \/ Ack(i)
           \/ \E x \in Timers : Arm(x) \/ Disarm(x)
           \/ \E w \in Waiters, x \in Waitables : Remove(w, x)
           \/ \E w \in Waiters : ReleaseWaiter(w)
    PROVE  NoLostWakeup'
  <1>1. ASSUME NEW e \in Events, Receive(e) PROVE NoLostWakeup'
    BY <1>1, WeakerKeepsWakeup DEF Receive, TypeOK
  <1>2. ASSUME NEW i \in Lines, Bind(i) PROVE NoLostWakeup'
    BY <1>2 DEF Bind, NoLostWakeup
  <1>3. ASSUME NEW i \in Lines, Ack(i) PROVE NoLostWakeup'
    <2>1. \A x \in Waitables : level'[x] => level[x] /\ x # i
      BY <1>3 DEF Ack, TypeOK
    <2> QED BY <1>3, <2>1, WeakerKeepsWakeup DEF Ack
  <1>4. ASSUME NEW x \in Timers, NEW kind \in {"off", "once", "every"},
               Schedule(x, kind)
        PROVE  NoLostWakeup'
    BY <1>4, WeakerKeepsWakeup DEF Schedule, TypeOK
  <1>5. ASSUME NEW w \in Waiters, NEW x \in Waitables, Remove(w, x)
        PROVE  NoLostWakeup'
    BY <1>5, WeakerKeepsWakeup DEF Remove, TypeOK
  <1>6. ASSUME NEW w \in Waiters, ReleaseWaiter(w) PROVE NoLostWakeup'
    BY <1>6, WeakerKeepsWakeup DEF ReleaseWaiter, TypeOK
  <1> QED BY <1>1, <1>2, <1>3, <1>4, <1>5, <1>6 DEF Arm, Disarm

(* A Wait parks only when no attached waitable of the Waiter is ready; a    *)
(* Wait that is answered leaves the blocked lists alone.                    *)
LEMMA WaitKeepsWakeup ==
    ASSUME TypeOK, NoLostWakeup, NEW w \in Waiters, Wait(w)
    PROVE  NoLostWakeup'
  <1>1. CASE /\ \A x \in Waitables : att[x] # NoOne /\ level[x] => att[x].waiter # w
             /\ blocked' = [blocked EXCEPT ![w] = <<cur>> \o @]
             /\ UNCHANGED <<level, told, att>>
    BY <1>1 DEF NoLostWakeup, TypeOK, Attachment
  <1>2. ASSUME NEW k \in DOMAIN attached[w], level[attached[w][k]],
               deliver_attachment(attached[w][k], cur), UNCHANGED blocked
        PROVE  NoLostWakeup'
    <2> DEFINE x == attached[w][k]
    <2>1. x \in Waitables
      BY DEF TypeOK
    <2>2. level' = [level EXCEPT ![x] = waitable_consume(x)]
          /\ told' = told \cup ({x} \cap Lines)
          /\ (att' = att \/ att' = [att EXCEPT ![x] = NoOne])
      BY <1>2 DEF deliver_attachment
    <2> HIDE DEF x
    <2>3. \A y \in Waitables : level'[y] => level[y]
      BY <1>2, <2>1, <2>2 DEF TypeOK, x
    <2> QED BY <1>2, <2>1, <2>2, <2>3, WeakerKeepsWakeup DEF TypeOK
  <1> QED BY <1>1, <1>2 DEF Wait

(* Attaching what is already ready wakes a parked thread, or finds none.    *)
LEMMA AddKeepsWakeup ==
    ASSUME TypeOK, NoLostWakeup, NEW w \in Waiters, NEW x \in Waitables,
           NEW once \in BOOLEAN, Add(w, x, once)
    PROVE  NoLostWakeup'
  <1> SUFFICES ASSUME NEW y \in Waitables, (att[y] # NoOne /\ level[y])'
               PROVE  (blocked[att[y].waiter] = <<>> \/ y \in told)'
    BY DEF NoLostWakeup
  <1>1. att' = att \/ att' = [att EXCEPT ![x] = [waiter |-> w, oneshot |-> once]]
    BY DEF Add
  <1>2. CASE level[x] /\ blocked[w] # <<>>
    <2>1. blocked' = [blocked EXCEPT ![w] = Tail(@)]
          /\ level' = [level EXCEPT ![x] = waitable_consume(x)]
          /\ told' = told \cup ({x} \cap Lines)
      BY <1>2 DEF Add
    <2>2. CASE y = x
      BY <2>1, <2>2 DEF TypeOK, waitable_consume
    <2>3. CASE y # x
      <3>1. att'[y] = att[y] /\ att[y] # NoOne /\ level[y]
        BY <1>1, <2>1, <2>3 DEF TypeOK
      <3>2. blocked[att[y].waiter] = <<>> \/ y \in told
        BY <3>1 DEF NoLostWakeup
      <3>3. CASE blocked[att[y].waiter] = <<>>
        <4>1. att[y].waiter \in Waiters /\ att[y].waiter # w
          BY <1>2, <3>1, <3>3 DEF TypeOK, Attachment
        <4> QED BY <2>1, <3>1, <3>3, <4>1 DEF TypeOK
      <3> QED BY <2>1, <3>2, <3>3
    <2> QED BY <2>2, <2>3
  <1>3. CASE ~(level[x] /\ blocked[w] # <<>>)
    <2>1. UNCHANGED <<blocked, level, told>>
          /\ att' = [att EXCEPT ![x] = [waiter |-> w, oneshot |-> once]]
      BY <1>3 DEF Add
    <2>2. CASE y = x
      BY <1>3, <2>1, <2>2 DEF TypeOK
    <2>3. CASE y # x
      BY <2>1, <2>3 DEF TypeOK, NoLostWakeup
    <2> QED BY <2>2, <2>3
  <1> QED BY <1>2, <1>3

(* The level-triggered guarantee, for any number of threads, Waiters and    *)
(* waitables: whatever the order of signal, attach, expiry, interrupt and   *)
(* wait, no thread is parked beside something ready it was not told of.     *)
THEOREM WakeupsAreNotLost == Spec => []NoLostWakeup
  <1>1. Init => NoLostWakeup
    BY DEF Init, NoLostWakeup
  <1>2. ASSUME TypeOK, NoLostWakeup, [Next]_vars PROVE NoLostWakeup'
    <2>1. CASE UNCHANGED vars
      BY <1>2, <2>1 DEF vars, waitVars, NoLostWakeup
    <2>2. ASSUME NEW x \in Timers, FireTimer(x) PROVE NoLostWakeup'
      BY <1>2, <2>2, NotifyKeepsWakeup DEF FireTimer, Waitables
    <2>3. ASSUME NEW i \in Lines, ExternalIrq(i) PROVE NoLostWakeup'
      BY <1>2, <2>3, NotifyKeepsWakeup DEF ExternalIrq, Waitables
    <2>4. ASSUME NEW e \in Events, NEW bits \in BOOLEAN, Signal(e, bits)
          PROVE  NoLostWakeup'
      <3>1. CASE notify_ready(e)
        BY <1>2, <3>1, NotifyKeepsWakeup DEF Waitables
      <3>2. CASE UNCHANGED notifyVars
        BY <1>2, <3>2 DEF notifyVars, NoLostWakeup
      <3> QED BY <2>4, <3>1, <3>2 DEF Signal
    <2>5. CASE Kernel
      BY <1>2, <2>2, <2>5, OtherStepsKeepWakeup DEF Kernel
    <2>6. CASE User
      BY <1>2, <2>4, <2>6, OtherStepsKeepWakeup, LoweringKeepsWakeup,
         WaitKeepsWakeup, AddKeepsWakeup DEF User, TimerCall
    <2>7. CASE Timer \/ Device \/ Halted
      BY <1>2, <2>3, <2>7, OtherStepsKeepWakeup DEF Device
    <2> QED BY <1>2, <2>1, <2>5, <2>6, <2>7 DEF Next
  <1> QED BY <1>1, <1>2, TypeCorrect, PTL DEF Spec

-----------------------------------------------------------------------------
(***************************************************************************)
(* The lists.  ListsAgree counts the places a thread is linked from; the   *)
(* invariant below says it without counting: no list holds a thread twice, *)
(* no two lists hold the same one, and a thread's state says which list it *)
(* is on.                                                                  *)
(***************************************************************************)
Distinct(s) == \A a, b \in 1..Len(s) : s[a] = s[b] => a = b

ReadyAreRunnable ==
    /\ Distinct(ready)
    /\ \A t \in Threads : t \in Members(ready) <=> state[t] = "Runnable"

JoinersOnce ==
    /\ \A u \in Threads : Distinct(joiners[u])
    /\ \A t, u, v \in Threads :
         t \in Members(joiners[u]) /\ t \in Members(joiners[v]) => u = v
BlockedOnce ==
    /\ \A w \in Waiters : Distinct(blocked[w])
    /\ \A t \in Threads : \A w, v \in Waiters :
         t \in Members(blocked[w]) /\ t \in Members(blocked[v]) => w = v

Joining(t) == \E u \in Threads : t \in Members(joiners[u])
Waiting(t) == \E w \in Waiters : t \in Members(blocked[w])
ParkedIsBlocked ==
    \A t \in Threads : /\ ~(Joining(t) /\ Waiting(t))
                       /\ Joining(t) \/ Waiting(t) <=> state[t] = "Blocked"

(* In user mode, and in a long operation that an interrupt is being served  *)
(* in, the current thread runs; while the machine idles nobody does.        *)
OneRuns ==
    /\ \A t \in Threads : state[t] = "Running" => t = cur
    /\ pc \in {"user", "long"} \/ (pc = "expire" /\ back = "long") => state[cur] = "Running"
    /\ pc = "idle" \/ (pc = "expire" /\ back = "idle") => state[cur] # "Running"

AttachedOnce ==
    \A w \in Waiters :
        /\ Distinct(attached[w])
        /\ \A x \in Waitables :
             x \in Members(attached[w]) <=> att[x] # NoOne /\ att[x].waiter = w
        /\ w \notin alive => attached[w] = <<>> /\ blocked[w] = <<>>

ThreadLists == ReadyAreRunnable /\ JoinersOnce /\ BlockedOnce /\ ParkedIsBlocked
ListInv == TypeOK /\ ThreadLists /\ OneRuns /\ AttachedOnce /\ NoStrandedJoin

(* What the operations on lists do to their members.                        *)
LEMMA MembersOf ==
    ASSUME NEW S, NEW s \in Seq(S)
    PROVE  /\ \A x : x \in Members(s) <=> \E a \in 1..Len(s) : s[a] = x
           /\ Len(s) \in Nat /\ Members(s) \subseteq S
  <1>1. DOMAIN s = 1..Len(s) /\ Len(s) \in Nat
    OBVIOUS
  <1> QED BY <1>1 DEF Members

LEMMA EmptyList ==
    /\ Members(<<>>) = {} /\ Distinct(<<>>)
    /\ \A S : \A s \in Seq(S) : Members(s) = {} <=> s = <<>>
  <1>1. Members(<<>>) = {} /\ Distinct(<<>>)
    BY DEF Members, Distinct
  <1>2. ASSUME NEW S, NEW s \in Seq(S), s # <<>> PROVE Members(s) # {}
    <2>1. 1 \in 1..Len(s)
      BY <1>2
    <2> QED BY <2>1, MembersOf
  <1> QED BY <1>1, <1>2

LEMMA AppendMembers ==
    ASSUME NEW S, NEW s \in Seq(S), NEW x \in S
    PROVE  /\ Members(Append(s, x)) = Members(s) \cup {x}
           /\ Distinct(s) /\ x \notin Members(s) => Distinct(Append(s, x))
  <1> DEFINE r == Append(s, x)
  <1>1. r \in Seq(S) /\ Len(s) \in Nat /\ Len(r) = Len(s) + 1
    OBVIOUS
  <1>2. r[Len(s) + 1] = x /\ \A a \in 1..Len(s) : r[a] = s[a]
    OBVIOUS
  <1>3. \A a \in 1..Len(r) : a \in 1..Len(s) \/ a = Len(s) + 1
    BY <1>1
  <1>4. Len(s) + 1 \in 1..Len(r) /\ 1..Len(s) \subseteq 1..Len(r)
    BY <1>1
  <1> HIDE DEF r
  <1>5. \A y : y \in Members(r) <=> y \in Members(s) \/ y = x
    BY <1>1, <1>2, <1>3, <1>4, MembersOf
  <1>6. ASSUME Distinct(s), x \notin Members(s) PROVE Distinct(r)
    <2> SUFFICES ASSUME NEW a \in 1..Len(r), NEW b \in 1..Len(r), r[a] = r[b] PROVE a = b
      BY DEF Distinct
    <2>1. \A i \in 1..Len(s) : s[i] # x
      BY <1>6, MembersOf
    <2>2. CASE a \in 1..Len(s) /\ b \in 1..Len(s)
      BY <1>2, <1>6, <2>2 DEF Distinct
    <2> QED BY <1>2, <1>3, <2>1, <2>2
  <1> QED BY <1>5, <1>6 DEF r

LEMMA ConcatMembers ==
    ASSUME NEW S, NEW s \in Seq(S), NEW q \in Seq(S)
    PROVE  /\ Members(s \o q) = Members(s) \cup Members(q)
           /\ Distinct(s) /\ Distinct(q) /\ Members(s) \cap Members(q) = {} => Distinct(s \o q)
  <1> DEFINE r == s \o q
  <1>1. r \in Seq(S) /\ Len(s) \in Nat /\ Len(q) \in Nat /\ Len(r) = Len(s) + Len(q)
    OBVIOUS
  <1>2. /\ \A a \in 1..Len(s) : r[a] = s[a]
        /\ \A a \in 1..Len(r) : a \notin 1..Len(s) => r[a] = q[a - Len(s)]
    OBVIOUS
  <1> HIDE DEF r
  <1>3. /\ \A a \in 1..Len(r) : a \in 1..Len(s) \/ a - Len(s) \in 1..Len(q)
        /\ \A a \in 1..Len(q) : a + Len(s) \in 1..Len(r) /\ a + Len(s) \notin 1..Len(s)
                                /\ (a + Len(s)) - Len(s) = a
        /\ 1..Len(s) \subseteq 1..Len(r)
    BY <1>1
  <1>4. \A y : y \in Members(r) <=> y \in Members(s) \/ y \in Members(q)
    <2> TAKE y
    <2>1. ASSUME y \in Members(r) PROVE y \in Members(s) \/ y \in Members(q)
      <3>1. PICK a \in 1..Len(r) : r[a] = y
        BY <1>1, <2>1, MembersOf
      <3>2. CASE a \in 1..Len(s)
        BY <1>2, <3>1, <3>2, MembersOf
      <3>3. CASE a \notin 1..Len(s)
        BY <1>2, <1>3, <3>1, <3>3, MembersOf
      <3> QED BY <3>2, <3>3
    <2>2. ASSUME y \in Members(s) PROVE y \in Members(r)
      BY <1>1, <1>2, <1>3, <2>2, MembersOf
    <2>3. ASSUME y \in Members(q) PROVE y \in Members(r)
      <3>1. PICK a \in 1..Len(q) : q[a] = y
        BY <2>3, MembersOf
      <3>2. a + Len(s) \in 1..Len(r) /\ r[a + Len(s)] = y
        BY <1>2, <1>3, <3>1
      <3> QED BY <1>1, <3>2, MembersOf
    <2> QED BY <2>1, <2>2, <2>3
  <1>5. ASSUME Distinct(s), Distinct(q), Members(s) \cap Members(q) = {} PROVE Distinct(r)
    <2> SUFFICES ASSUME NEW a \in 1..Len(r), NEW b \in 1..Len(r), r[a] = r[b] PROVE a = b
      BY DEF Distinct
    <2>1. \A i \in 1..Len(s), j \in 1..Len(q) : s[i] # q[j]
      BY <1>5, MembersOf
    <2>2. CASE a \in 1..Len(s) /\ b \in 1..Len(s)
      BY <1>2, <1>5, <2>2 DEF Distinct
    <2>3. CASE a \notin 1..Len(s) /\ b \notin 1..Len(s)
      <3>1. a - Len(s) = b - Len(s)
        BY <1>2, <1>3, <1>5, <2>3 DEF Distinct
      <3> QED BY <1>1, <3>1
    <2> QED BY <1>2, <1>3, <2>1, <2>2, <2>3
  <1> QED BY <1>4, <1>5 DEF r

LEMMA ConsMembers ==
    ASSUME NEW S, NEW s \in Seq(S), NEW x \in S
    PROVE  /\ Members(<<x>> \o s) = Members(s) \cup {x}
           /\ Distinct(s) /\ x \notin Members(s) => Distinct(<<x>> \o s)
  <1> DEFINE o == <<x>>
  <1>1. o \in Seq(S) /\ Len(o) = 1 /\ o[1] = x
    OBVIOUS
  <1>2. Members(o) = {x} /\ Distinct(o)
    BY <1>1 DEF Members, Distinct
  <1> HIDE DEF o
  <1>3. /\ Members(o \o s) = {x} \cup Members(s)
        /\ Distinct(s) /\ {x} \cap Members(s) = {} => Distinct(o \o s)
    BY <1>1, <1>2, ConcatMembers
  <1> QED BY <1>3 DEF o

LEMMA TailMembers ==
    ASSUME NEW S, NEW s \in Seq(S), s # <<>>, Distinct(s)
    PROVE  /\ Head(s) \in Members(s) /\ Distinct(Tail(s))
           /\ Members(Tail(s)) = Members(s) \ {Head(s)}
  <1> DEFINE r == Tail(s)
  <1>1. r \in Seq(S) /\ Len(s) \in Nat /\ Len(s) >= 1 /\ Len(r) = Len(s) - 1
    OBVIOUS
  <1>2. Head(s) = s[1] /\ \A a \in 1..Len(r) : r[a] = s[a + 1]
    OBVIOUS
  <1> HIDE DEF r
  <1>3. /\ 1 \in 1..Len(s)
        /\ \A a \in 1..Len(r) : a + 1 \in 1..Len(s) /\ a + 1 # 1
        /\ \A a \in 1..Len(s) : a # 1 => a - 1 \in 1..Len(r) /\ (a - 1) + 1 = a
        /\ \A a, b \in 1..Len(r) : a + 1 = b + 1 => a = b
    BY <1>1
  <1>4. \A y : y \in Members(r) <=> y \in Members(s) /\ y # Head(s)
    <2> TAKE y
    <2>1. ASSUME y \in Members(r) PROVE y \in Members(s) /\ y # Head(s)
      <3>1. PICK a \in 1..Len(r) : r[a] = y
        BY <1>1, <2>1, MembersOf
      <3>2. s[a + 1] = y /\ a + 1 \in 1..Len(s) /\ s[a + 1] # s[1]
        BY <1>2, <1>3, <3>1 DEF Distinct
      <3> QED BY <1>2, <3>2, MembersOf
    <2>2. ASSUME y \in Members(s), y # Head(s) PROVE y \in Members(r)
      <3>1. PICK a \in 1..Len(s) : s[a] = y
        BY <2>2, MembersOf
      <3>2. a # 1
        BY <1>2, <2>2, <3>1
      <3>3. a - 1 \in 1..Len(r) /\ r[a - 1] = y
        BY <1>2, <1>3, <3>1, <3>2
      <3> QED BY <1>1, <3>3, MembersOf
    <2> QED BY <2>1, <2>2
  <1>5. Distinct(r)
    BY <1>2, <1>3 DEF Distinct
  <1>6. Head(s) \in Members(s)
    BY <1>2, <1>3, MembersOf
  <1> QED BY <1>4, <1>5, <1>6 DEF r

LEMMA WithoutMembers ==
    ASSUME NEW S, NEW s \in Seq(S), NEW x, Distinct(s)
    PROVE  /\ Members(Without(s, x)) = Members(s) \ {x}
           /\ Distinct(Without(s, x))
  <1>1. CASE x \notin Members(s)
    BY <1>1 DEF Without
  <1>2. CASE x \in Members(s)
    <2> DEFINE k == CHOOSE j \in DOMAIN s : s[j] = x
               p == SubSeq(s, 1, k - 1)
               q == SubSeq(s, k + 1, Len(s))
    <2>1. k \in DOMAIN s /\ s[k] = x
      BY <1>2 DEF Members
    <2>2. k \in 1..Len(s) /\ Len(s) \in Nat
      BY <2>1
    <2>3. Without(s, x) = p \o q
      BY <1>2 DEF Without
    <2> HIDE DEF k
    <2>4. /\ p \in Seq(S) /\ Len(p) = k - 1
          /\ q \in Seq(S) /\ Len(q) = Len(s) - k
      BY <2>2
    <2>5. /\ \A a \in 1..Len(p) : p[a] = s[a]
          /\ \A a \in 1..Len(q) : q[a] = s[a + k]
      BY <2>2
    <2> HIDE DEF p, q
    <2>6. /\ \A a \in 1..Len(p) : a \in 1..Len(s) /\ a # k
          /\ \A a \in 1..Len(q) : a + k \in 1..Len(s) /\ a + k # k
          /\ \A a \in 1..Len(s) : a # k => a \in 1..Len(p)
                                           \/ (a - k \in 1..Len(q) /\ (a - k) + k = a)
          /\ \A a, b \in 1..Len(q) : a + k = b + k => a = b
          /\ \A a \in 1..Len(p), b \in 1..Len(q) : a # b + k
      BY <2>2, <2>4
    <2>7. Distinct(p) /\ Distinct(q)
      <3>1. ASSUME NEW a \in 1..Len(p), NEW b \in 1..Len(p), p[a] = p[b] PROVE a = b
        <4>1. a \in 1..Len(s) /\ b \in 1..Len(s) /\ s[a] = s[b]
          BY <2>5, <2>6, <3>1
        <4> QED BY <4>1 DEF Distinct
      <3>2. ASSUME NEW a \in 1..Len(q), NEW b \in 1..Len(q), q[a] = q[b] PROVE a = b
        <4>1. a + k \in 1..Len(s) /\ b + k \in 1..Len(s) /\ s[a + k] = s[b + k]
          BY <2>5, <2>6, <3>2
        <4>2. a + k = b + k
          BY <4>1 DEF Distinct
        <4> QED BY <2>6, <4>2
      <3> QED BY <3>1, <3>2 DEF Distinct
    <2>8. Members(p) \cap Members(q) = {}
      <3> SUFFICES ASSUME NEW y, y \in Members(p), y \in Members(q) PROVE FALSE
        OBVIOUS
      <3>1. PICK a \in 1..Len(p) : p[a] = y
        BY <2>4, MembersOf
      <3>2. PICK b \in 1..Len(q) : q[b] = y
        BY <2>4, MembersOf
      <3> QED BY <2>5, <2>6, <3>1, <3>2 DEF Distinct
    <2>9. \A y : y \in Members(p) \/ y \in Members(q) <=> y \in Members(s) /\ y # x
      <3> TAKE y
      <3>1. ASSUME y \in Members(p) PROVE y \in Members(s) /\ y # x
        <4>1. PICK a \in 1..Len(p) : p[a] = y
          BY <2>4, <3>1, MembersOf
        <4>2. a \in 1..Len(s) /\ s[a] = y /\ s[a] # s[k]
          BY <2>2, <2>5, <2>6, <4>1 DEF Distinct
        <4> QED BY <2>1, <4>2, MembersOf
      <3>2. ASSUME y \in Members(q) PROVE y \in Members(s) /\ y # x
        <4>1. PICK a \in 1..Len(q) : q[a] = y
          BY <2>4, <3>2, MembersOf
        <4>2. a + k \in 1..Len(s) /\ s[a + k] = y /\ s[a + k] # s[k]
          BY <2>2, <2>5, <2>6, <4>1 DEF Distinct
        <4> QED BY <2>1, <4>2, MembersOf
      <3>3. ASSUME y \in Members(s), y # x PROVE y \in Members(p) \/ y \in Members(q)
        <4>1. PICK a \in 1..Len(s) : s[a] = y
          BY <3>3, MembersOf
        <4>2. a # k
          BY <2>1, <3>3, <4>1
        <4>3. CASE a \in 1..Len(p)
          BY <2>4, <2>5, <4>1, <4>3, MembersOf
        <4>4. CASE a - k \in 1..Len(q) /\ (a - k) + k = a
          BY <2>4, <2>5, <4>1, <4>4, MembersOf
        <4> QED BY <2>6, <4>2, <4>3, <4>4
      <3> QED BY <3>1, <3>2, <3>3
    <2> QED BY <2>3, <2>4, <2>7, <2>8, <2>9, ConcatMembers
  <1> QED BY <1>1, <1>2

(* A list without repetitions is as long as it has members.                 *)
LEMMA DistinctCardinality ==
    ASSUME NEW S, NEW s \in Seq(S), Distinct(s)
    PROVE  /\ IsFiniteSet(Members(s)) /\ Cardinality(Members(s)) = Len(s)
  <1>1. s \in [1..Len(s) -> Members(s)] /\ Len(s) \in Nat
    BY MembersOf
  <1>2. s \in Bijection(1..Len(s), Members(s))
    BY <1>1, MembersOf DEF Bijection, Injection, Surjection, IsInjective, Distinct
  <1>3. ExistsBijection(1..Len(s), Members(s))
    BY <1>2 DEF ExistsBijection
  <1> QED BY <1>1, <1>3, FS_CountingElements, FS_NatBijection

-----------------------------------------------------------------------------
(* The lists as sets, which is all that the steps below look at.            *)
LEMMA ListTypes ==
    ASSUME TypeOK
    PROVE  /\ ready \in Seq(Threads) /\ state \in [Threads -> ThreadState] /\ cur \in Threads
           /\ joiners \in [Threads -> Seq(Threads)] /\ blocked \in [Waiters -> Seq(Threads)]
           /\ attached \in [Waiters -> Seq(Waitables)]
           /\ att \in [Waitables -> Attachment \cup {NoOne}]
           /\ \A u \in Threads : joiners[u] \in Seq(Threads)
           /\ \A w \in Waiters : blocked[w] \in Seq(Threads) /\ attached[w] \in Seq(Waitables)
  BY DEF TypeOK

LEMMA ListsUntouched ==
    ASSUME ThreadLists, UNCHANGED <<ready, joiners, blocked>>,
           \A t \in Threads : /\ state'[t] = "Runnable" <=> state[t] = "Runnable"
                              /\ state'[t] = "Blocked" <=> state[t] = "Blocked"
    PROVE  ThreadLists'
  BY DEF ThreadLists, ReadyAreRunnable, JoinersOnce, BlockedOnce, ParkedIsBlocked,
         Joining, Waiting

(* Start: a thread that was on no list goes to the tail of the queue.       *)
LEMMA ListsStart ==
    ASSUME TypeOK, ThreadLists, NEW t \in Threads, state[t] \notin {"Runnable", "Blocked"},
           state' = [state EXCEPT ![t] = "Runnable"], ready' = Append(ready, t),
           UNCHANGED <<joiners, blocked>>
    PROVE  ThreadLists'
  <1>1. t \notin Members(ready)
    BY DEF ThreadLists, ReadyAreRunnable
  <1>2. Distinct(ready') /\ Members(ready') = Members(ready) \cup {t}
    BY <1>1, ListTypes, AppendMembers DEF ThreadLists, ReadyAreRunnable
  <1>3. state'[t] = "Runnable" /\ \A u \in Threads : u # t => state'[u] = state[u]
    BY ListTypes
  <1>4. ReadyAreRunnable'
    BY <1>2, <1>3 DEF ThreadLists, ReadyAreRunnable
  <1>5. ParkedIsBlocked'
    BY <1>3 DEF ThreadLists, ParkedIsBlocked, Joining, Waiting
  <1> QED BY <1>4, <1>5 DEF ThreadLists, JoinersOnce, BlockedOnce

(* Join parks the running thread at the head of a joiner list, ...          *)
LEMMA ListsJoin ==
    ASSUME TypeOK, ThreadLists, NEW t \in Threads, state[cur] = "Running",
           joiners' = [joiners EXCEPT ![t] = <<cur>> \o @],
           state' = [state EXCEPT ![cur] = "Blocked"], UNCHANGED <<ready, blocked>>
    PROVE  ThreadLists'
  <1> USE ListTypes
  <1>1. ~Joining(cur) /\ ~Waiting(cur) /\ cur \notin Members(ready)
    BY DEF ThreadLists, ReadyAreRunnable, ParkedIsBlocked
  <1>2. /\ joiners'[t] = <<cur>> \o joiners[t]
        /\ \A u \in Threads : u # t => joiners'[u] = joiners[u]
    OBVIOUS
  <1>3. cur \notin Members(joiners[t])
    BY <1>1 DEF Joining
  <1>4. Distinct(joiners'[t]) /\ Members(joiners'[t]) = Members(joiners[t]) \cup {cur}
    BY <1>2, <1>3, ConsMembers DEF ThreadLists, JoinersOnce
  <1>5. state'[cur] = "Blocked" /\ \A u \in Threads : u # cur => state'[u] = state[u]
    OBVIOUS
  <1>6. \A u, v \in Threads :
          u \in Members(joiners'[v]) <=> u \in Members(joiners[v]) \/ (u = cur /\ v = t)
    BY <1>2, <1>4
  <1>7. JoinersOnce'
    <2>1. \A v \in Threads : Distinct(joiners'[v])
      BY <1>2, <1>4 DEF ThreadLists, JoinersOnce
    <2>2. \A v \in Threads : cur \notin Members(joiners[v])
      BY <1>1 DEF Joining
    <2>3. ASSUME NEW a \in Threads, NEW u \in Threads, NEW v \in Threads,
                 a \in Members(joiners'[u]), a \in Members(joiners'[v])
          PROVE  u = v
      <3>1. CASE a = cur
        BY <1>6, <2>2, <2>3, <3>1
      <3>2. CASE a # cur
        <4>1. a \in Members(joiners[u]) /\ a \in Members(joiners[v])
          BY <1>6, <2>3, <3>2
        <4> QED BY <4>1 DEF ThreadLists, JoinersOnce
      <3> QED BY <3>1, <3>2
    <2> QED BY <2>1, <2>3 DEF JoinersOnce
  <1>8. \A u \in Threads : /\ Joining(u)' <=> Joining(u) \/ u = cur
                           /\ Waiting(u)' <=> Waiting(u)
    BY <1>6 DEF Joining, Waiting
  <1>9. ParkedIsBlocked'
    BY <1>1, <1>5, <1>8 DEF ThreadLists, ParkedIsBlocked
  <1>10. ReadyAreRunnable'
    BY <1>5 DEF ThreadLists, ReadyAreRunnable
  <1> QED BY <1>7, <1>9, <1>10 DEF ThreadLists, BlockedOnce

(* ... Wait at the head of a Waiter's.                                      *)
LEMMA ListsWait ==
    ASSUME TypeOK, ThreadLists, NEW w \in Waiters, state[cur] = "Running",
           blocked' = [blocked EXCEPT ![w] = <<cur>> \o @],
           state' = [state EXCEPT ![cur] = "Blocked"], UNCHANGED <<ready, joiners>>
    PROVE  ThreadLists'
  <1> USE ListTypes
  <1>1. ~Joining(cur) /\ ~Waiting(cur) /\ cur \notin Members(ready)
    BY DEF ThreadLists, ReadyAreRunnable, ParkedIsBlocked
  <1>2. /\ blocked'[w] = <<cur>> \o blocked[w]
        /\ \A u \in Waiters : u # w => blocked'[u] = blocked[u]
    OBVIOUS
  <1>3. cur \notin Members(blocked[w])
    BY <1>1 DEF Waiting
  <1>4. Distinct(blocked'[w]) /\ Members(blocked'[w]) = Members(blocked[w]) \cup {cur}
    BY <1>2, <1>3, ConsMembers DEF ThreadLists, BlockedOnce
  <1>5. state'[cur] = "Blocked" /\ \A u \in Threads : u # cur => state'[u] = state[u]
    OBVIOUS
  <1>6. \A u \in Threads : \A v \in Waiters :
          u \in Members(blocked'[v]) <=> u \in Members(blocked[v]) \/ (u = cur /\ v = w)
    BY <1>2, <1>4
  <1>7. BlockedOnce'
    <2>1. \A v \in Waiters : Distinct(blocked'[v])
      BY <1>2, <1>4 DEF ThreadLists, BlockedOnce
    <2>2. \A v \in Waiters : cur \notin Members(blocked[v])
      BY <1>1 DEF Waiting
    <2>3. ASSUME NEW a \in Threads, NEW u \in Waiters, NEW v \in Waiters,
                 a \in Members(blocked'[u]), a \in Members(blocked'[v])
          PROVE  u = v
      <3>1. CASE a = cur
        BY <1>6, <2>2, <2>3, <3>1
      <3>2. CASE a # cur
        <4>1. a \in Members(blocked[u]) /\ a \in Members(blocked[v])
          BY <1>6, <2>3, <3>2
        <4> QED BY <4>1 DEF ThreadLists, BlockedOnce
      <3> QED BY <3>1, <3>2
    <2> QED BY <2>1, <2>3 DEF BlockedOnce
  <1>8. \A u \in Threads : /\ Waiting(u)' <=> Waiting(u) \/ u = cur
                           /\ Joining(u)' <=> Joining(u)
    BY <1>6 DEF Joining, Waiting
  <1>9. ParkedIsBlocked'
    BY <1>1, <1>5, <1>8 DEF ThreadLists, ParkedIsBlocked
  <1>10. ReadyAreRunnable'
    BY <1>5 DEF ThreadLists, ReadyAreRunnable
  <1> QED BY <1>7, <1>9, <1>10 DEF ThreadLists, JoinersOnce

(* A wake moves the head of a blocked list to the tail of the ready queue.  *)
LEMMA ListsWake ==
    ASSUME TypeOK, ThreadLists, NEW w \in Waiters, NEW t, t = Head(blocked[w]),
           blocked[w] # <<>>,
           blocked' = [blocked EXCEPT ![w] = Tail(@)],
           state' = [state EXCEPT ![t] = "Runnable"], ready' = ready_push(ready, t),
           UNCHANGED joiners
    PROVE  /\ ThreadLists'
           /\ t \in Threads /\ t \in Members(blocked[w]) /\ state[t] = "Blocked"
  <1> USE ListTypes
  <1>1. /\ t \in Members(blocked[w]) /\ t \in Threads
        /\ Distinct(Tail(blocked[w])) /\ Members(Tail(blocked[w])) = Members(blocked[w]) \ {t}
    BY TailMembers, HeadTail DEF ThreadLists, BlockedOnce
  <1>2. Waiting(t) /\ ~Joining(t) /\ state[t] = "Blocked" /\ t \notin Members(ready)
    BY <1>1 DEF ThreadLists, ReadyAreRunnable, ParkedIsBlocked, Waiting
  <1>3. Distinct(ready') /\ Members(ready') = Members(ready) \cup {t}
    BY <1>1, <1>2, AppendMembers DEF ThreadLists, ReadyAreRunnable, ready_push
  <1>4. state'[t] = "Runnable" /\ \A u \in Threads : u # t => state'[u] = state[u]
    BY <1>1
  <1>5. /\ blocked'[w] = Tail(blocked[w])
        /\ \A v \in Waiters : v # w => blocked'[v] = blocked[v]
    OBVIOUS
  <1>6. \A v \in Waiters : t \in Members(blocked[v]) => v = w
    BY <1>1 DEF ThreadLists, BlockedOnce
  <1>7. \A u \in Threads : \A v \in Waiters :
          u \in Members(blocked'[v]) <=> u \in Members(blocked[v]) /\ u # t
    BY <1>1, <1>5, <1>6
  <1>8. BlockedOnce'
    BY <1>1, <1>5, <1>7 DEF ThreadLists, BlockedOnce
  <1>9. \A u \in Threads : /\ Waiting(u)' <=> Waiting(u) /\ u # t
                           /\ Joining(u)' <=> Joining(u)
    BY <1>7 DEF Joining, Waiting
  <1>10. ParkedIsBlocked'
    BY <1>2, <1>4, <1>9 DEF ThreadLists, ParkedIsBlocked
  <1>11. ReadyAreRunnable'
    BY <1>3, <1>4 DEF ThreadLists, ReadyAreRunnable
  <1> QED BY <1>1, <1>2, <1>8, <1>10, <1>11 DEF ThreadLists, JoinersOnce

(* The last handle of a Waiter: everybody parked on it goes to the queue.   *)
LEMMA ListsRevoke ==
    ASSUME TypeOK, ThreadLists, NEW w \in Waiters,
           blocked' = [blocked EXCEPT ![w] = <<>>],
           state' = [t \in Threads |-> IF t \in Members(blocked[w]) THEN "Runnable" ELSE state[t]],
           ready' = ready \o blocked[w], UNCHANGED joiners
    PROVE  ThreadLists'
  <1> USE ListTypes
  <1>1. \A t \in Threads : t \in Members(blocked[w]) =>
          Waiting(t) /\ ~Joining(t) /\ state[t] = "Blocked" /\ t \notin Members(ready)
    BY DEF ThreadLists, ReadyAreRunnable, ParkedIsBlocked, Waiting
  <1>2. Members(blocked[w]) \subseteq Threads /\ Members(ready) \subseteq Threads
    BY MembersOf
  <1>3. Distinct(ready') /\ Members(ready') = Members(ready) \cup Members(blocked[w])
    BY <1>1, <1>2, ConcatMembers DEF ThreadLists, ReadyAreRunnable, BlockedOnce
  <1>4. \A t \in Threads :
          state'[t] = IF t \in Members(blocked[w]) THEN "Runnable" ELSE state[t]
    OBVIOUS
  <1>5. blocked'[w] = <<>> /\ \A v \in Waiters : v # w => blocked'[v] = blocked[v]
    OBVIOUS
  <1>6. \A t \in Threads : \A v \in Waiters :
          t \in Members(blocked'[v]) <=> t \in Members(blocked[v]) /\ t \notin Members(blocked[w])
    BY <1>5, EmptyList DEF ThreadLists, BlockedOnce
  <1>7. BlockedOnce'
    BY <1>5, <1>6, EmptyList DEF ThreadLists, BlockedOnce
  <1>8. \A t \in Threads : /\ Waiting(t)' <=> Waiting(t) /\ t \notin Members(blocked[w])
                           /\ Joining(t)' <=> Joining(t)
    BY <1>6 DEF Joining, Waiting
  <1>9. ParkedIsBlocked'
    BY <1>1, <1>4, <1>8 DEF ThreadLists, ParkedIsBlocked
  <1>10. ReadyAreRunnable'
    BY <1>1, <1>3, <1>4 DEF ThreadLists, ReadyAreRunnable
  <1> QED BY <1>7, <1>9, <1>10 DEF ThreadLists, JoinersOnce

(* exit_thread: everybody who joined the thread that ends goes to the queue.*)
LEMMA ListsExit ==
    ASSUME TypeOK, ThreadLists, state[cur] = "Running",
           joiners' = [joiners EXCEPT ![cur] = <<>>],
           state' = [t \in Threads |-> CASE t = cur -> "Exited"
                                         [] t \in Members(joiners[cur]) -> "Runnable"
                                         [] OTHER -> state[t]],
           ready' = ready \o joiners[cur], UNCHANGED blocked
    PROVE  ThreadLists'
  <1> USE ListTypes
  <1>1. \A t \in Threads : t \in Members(joiners[cur]) =>
          Joining(t) /\ ~Waiting(t) /\ state[t] = "Blocked" /\ t \notin Members(ready) /\ t # cur
    BY DEF ThreadLists, ReadyAreRunnable, ParkedIsBlocked, Joining
  <1>2. Members(joiners[cur]) \subseteq Threads /\ Members(ready) \subseteq Threads
    BY MembersOf
  <1>3. Distinct(ready') /\ Members(ready') = Members(ready) \cup Members(joiners[cur])
    BY <1>1, <1>2, ConcatMembers DEF ThreadLists, ReadyAreRunnable, JoinersOnce
  <1>4. \A t \in Threads :
          /\ t = cur => state'[t] = "Exited"
          /\ t \in Members(joiners[cur]) => state'[t] = "Runnable"
          /\ t # cur /\ t \notin Members(joiners[cur]) => state'[t] = state[t]
    BY <1>1
  <1>5. joiners'[cur] = <<>> /\ \A v \in Threads : v # cur => joiners'[v] = joiners[v]
    OBVIOUS
  <1>6. \A t, v \in Threads :
          t \in Members(joiners'[v]) <=> t \in Members(joiners[v]) /\ t \notin Members(joiners[cur])
    BY <1>5, EmptyList DEF ThreadLists, JoinersOnce
  <1>7. JoinersOnce'
    BY <1>5, <1>6, EmptyList DEF ThreadLists, JoinersOnce
  <1>8. \A t \in Threads : /\ Joining(t)' <=> Joining(t) /\ t \notin Members(joiners[cur])
                           /\ Waiting(t)' <=> Waiting(t)
    BY <1>6 DEF Joining, Waiting
  <1>9. ParkedIsBlocked'
    BY <1>1, <1>4, <1>8 DEF ThreadLists, ParkedIsBlocked
  <1>10. ReadyAreRunnable'
    BY <1>1, <1>3, <1>4 DEF ThreadLists, ReadyAreRunnable
  <1> QED BY <1>7, <1>9, <1>10 DEF ThreadLists, BlockedOnce

(* pick_next and the idle loop: the head of the queue runs.                 *)
LEMMA ListsRun ==
    ASSUME TypeOK, ThreadLists, NEW t, ready # <<>>, t = Head(ready),
           ready' = Tail(ready), state' = [state EXCEPT ![t] = "Running"],
           UNCHANGED <<joiners, blocked>>
    PROVE  ThreadLists' /\ t \in Threads
  <1> USE ListTypes
  <1>1. /\ t \in Members(ready) /\ t \in Threads
        /\ Distinct(Tail(ready)) /\ Members(Tail(ready)) = Members(ready) \ {t}
    BY TailMembers, HeadTail DEF ThreadLists, ReadyAreRunnable
  <1>2. state'[t] = "Running" /\ \A u \in Threads : u # t => state'[u] = state[u]
    BY <1>1
  <1>3. state[t] = "Runnable"
    BY <1>1 DEF ThreadLists, ReadyAreRunnable
  <1>4. ReadyAreRunnable'
    BY <1>1, <1>2 DEF ThreadLists, ReadyAreRunnable
  <1>5. ParkedIsBlocked'
    BY <1>2, <1>3 DEF ThreadLists, ParkedIsBlocked, Joining, Waiting
  <1> QED BY <1>1, <1>4, <1>5 DEF ThreadLists, JoinersOnce, BlockedOnce

-----------------------------------------------------------------------------
(* Attachments.  A delivery detaches a one-shot on both sides, ...          *)
LEMMA AttachedDeliver ==
    ASSUME TypeOK, AttachedOnce, NEW x \in Waitables, NEW t, att[x] # NoOne,
           deliver_attachment(x, t), UNCHANGED alive,
           \A w \in Waiters : blocked[w] = <<>> /\ w \notin alive => blocked'[w] = <<>>
    PROVE  AttachedOnce'
  <1> USE ListTypes
  <1> DEFINE w == att[x].waiter
  <1>1. w \in Waiters
    BY DEF Attachment
  <1>2. CASE UNCHANGED <<att, attached>>
    BY <1>2 DEF AttachedOnce
  <1>3. CASE /\ att' = [att EXCEPT ![x] = NoOne]
             /\ attached' = [attached EXCEPT ![w] = Without(@, x)]
    <2>1. /\ att'[x] = NoOne /\ \A y \in Waitables : y # x => att'[y] = att[y]
          /\ attached'[w] = Without(attached[w], x)
          /\ \A v \in Waiters : v # w => attached'[v] = attached[v]
      BY <1>1, <1>3
    <2>2. Distinct(attached'[w]) /\ Members(attached'[w]) = Members(attached[w]) \ {x}
      BY <1>1, <2>1, WithoutMembers DEF AttachedOnce
    <2>3. \A v \in Waiters : v # w => x \notin Members(attached[v])
      BY DEF AttachedOnce
    <2> HIDE DEF w
    <2>4. ASSUME NEW v \in Waiters, NEW y \in Waitables
          PROVE  y \in Members(attached'[v]) <=> att'[y] # NoOne /\ att'[y].waiter = v
      <3>1. CASE y = x
        BY <2>1, <2>2, <2>3, <3>1
      <3>2. CASE y # x
        <4>1. y \in Members(attached'[v]) <=> y \in Members(attached[v])
          BY <2>1, <2>2, <3>2
        <4> QED BY <2>1, <3>2, <4>1 DEF AttachedOnce
      <3> QED BY <3>1, <3>2
    <2>5. \A v \in Waiters : Distinct(attached'[v])
      BY <2>1, <2>2 DEF AttachedOnce
    <2>6. ASSUME NEW v \in Waiters, v \notin alive
          PROVE  attached'[v] = <<>> /\ blocked'[v] = <<>>
      <3>1. attached[v] = <<>> /\ blocked[v] = <<>>
        BY <2>6 DEF AttachedOnce
      <3>2. v # w
        BY <3>1, EmptyList DEF AttachedOnce, w
      <3> QED BY <2>1, <2>6, <3>1, <3>2
    <2> QED BY <2>4, <2>5, <2>6 DEF AttachedOnce
  <1> QED BY <1>2, <1>3 DEF deliver_attachment

(* ... waiter_add links both, ...                                           *)
LEMMA AttachedAdd ==
    ASSUME TypeOK, AttachedOnce, NEW w \in Waiters, NEW x \in Waitables, NEW once \in BOOLEAN,
           w \in alive, att[x] = NoOne, UNCHANGED alive,
           att' = [att EXCEPT ![x] = [waiter |-> w, oneshot |-> once]],
           attached' = [attached EXCEPT ![w] = <<x>> \o @],
           \A v \in Waiters : v # w => blocked'[v] = blocked[v]
    PROVE  AttachedOnce'
  <1> USE ListTypes
  <1>1. x \notin Members(attached[w]) /\ \A v \in Waiters : x \notin Members(attached[v])
    BY DEF AttachedOnce
  <1>2. /\ \A y \in Waitables : y # x => att'[y] = att[y]
        /\ attached'[w] = <<x>> \o attached[w]
        /\ \A v \in Waiters : v # w => attached'[v] = attached[v]
    OBVIOUS
  <1>3. att'[x] # NoOne /\ att'[x].waiter = w
    <2>1. [waiter |-> w, oneshot |-> once] \in [waiter : Waiters, oneshot : BOOLEAN]
      OBVIOUS
    <2> QED BY <2>1, SchedAssumption
  <1>4. Distinct(attached'[w]) /\ Members(attached'[w]) = Members(attached[w]) \cup {x}
    BY <1>1, <1>2, ConsMembers DEF AttachedOnce
  <1>5. ASSUME NEW v \in Waiters, NEW y \in Waitables
        PROVE  y \in Members(attached'[v]) <=> att'[y] # NoOne /\ att'[y].waiter = v
    <2>1. CASE y = x
      BY <1>1, <1>2, <1>3, <1>4, <2>1
    <2>2. CASE y # x
      <3>1. y \in Members(attached'[v]) <=> y \in Members(attached[v])
        BY <1>2, <1>4, <2>2
      <3> QED BY <1>2, <2>2, <3>1 DEF AttachedOnce
    <2> QED BY <2>1, <2>2
  <1>6. \A v \in Waiters : Distinct(attached'[v])
    BY <1>2, <1>4 DEF AttachedOnce
  <1>7. ASSUME NEW v \in Waiters, v \notin alive PROVE attached'[v] = <<>> /\ blocked'[v] = <<>>
    BY <1>2, <1>7 DEF AttachedOnce
  <1> QED BY <1>5, <1>6, <1>7 DEF AttachedOnce

(* ... Remove unlinks both, ...                                             *)
LEMMA AttachedRemove ==
    ASSUME TypeOK, AttachedOnce, NEW w \in Waiters, NEW x \in Waitables,
           x \in Members(attached[w]), UNCHANGED <<alive, blocked>>,
           att' = [att EXCEPT ![x] = NoOne],
           attached' = [attached EXCEPT ![w] = Without(@, x)]
    PROVE  AttachedOnce'
  <1> USE ListTypes
  <1>1. /\ att'[x] = NoOne /\ \A y \in Waitables : y # x => att'[y] = att[y]
        /\ attached'[w] = Without(attached[w], x)
        /\ \A v \in Waiters : v # w => attached'[v] = attached[v]
    OBVIOUS
  <1>2. Distinct(attached'[w]) /\ Members(attached'[w]) = Members(attached[w]) \ {x}
    BY <1>1, WithoutMembers DEF AttachedOnce
  <1>3. \A v \in Waiters : v # w => x \notin Members(attached[v])
    <2>1. att[x].waiter = w
      BY DEF AttachedOnce
    <2> QED BY <2>1 DEF AttachedOnce
  <1>4. ASSUME NEW v \in Waiters, NEW y \in Waitables
        PROVE  y \in Members(attached'[v]) <=> att'[y] # NoOne /\ att'[y].waiter = v
    <2>1. CASE y = x
      BY <1>1, <1>2, <1>3, <2>1
    <2>2. CASE y # x
      <3>1. y \in Members(attached'[v]) <=> y \in Members(attached[v])
        BY <1>1, <1>2, <2>2
      <3> QED BY <1>1, <2>2, <3>1 DEF AttachedOnce
    <2> QED BY <2>1, <2>2
  <1>5. \A v \in Waiters : Distinct(attached'[v])
    BY <1>1, <1>2 DEF AttachedOnce
  <1>6. ASSUME NEW v \in Waiters, v \notin alive PROVE attached'[v] = <<>> /\ blocked'[v] = <<>>
    <2>1. v # w
      BY <1>6, EmptyList DEF AttachedOnce
    <2> QED BY <1>1, <1>6, <2>1 DEF AttachedOnce
  <1> QED BY <1>4, <1>5, <1>6 DEF AttachedOnce

(* ... and freeing a Waiter unlinks everything it watches.                  *)
LEMMA AttachedRevoke ==
    ASSUME TypeOK, AttachedOnce, NEW w \in Waiters, alive' = alive \ {w},
           att' = [x \in Waitables |-> IF x \in Members(attached[w]) THEN NoOne ELSE att[x]],
           attached' = [attached EXCEPT ![w] = <<>>],
           blocked' = [blocked EXCEPT ![w] = <<>>]
    PROVE  AttachedOnce'
  <1> USE ListTypes
  <1>1. /\ attached'[w] = <<>> /\ blocked'[w] = <<>>
        /\ \A v \in Waiters : v # w => attached'[v] = attached[v] /\ blocked'[v] = blocked[v]
        /\ \A x \in Waitables : att'[x] = IF x \in Members(attached[w]) THEN NoOne ELSE att[x]
    OBVIOUS
  <1>2. ASSUME NEW v \in Waiters, NEW y \in Waitables
        PROVE  y \in Members(attached'[v]) <=> att'[y] # NoOne /\ att'[y].waiter = v
    <2>1. CASE v = w
      BY <1>1, <2>1, EmptyList DEF AttachedOnce
    <2>2. CASE v # w
      BY <1>1, <2>2 DEF AttachedOnce
    <2> QED BY <2>1, <2>2
  <1>3. \A v \in Waiters : Distinct(attached'[v])
    BY <1>1, EmptyList DEF AttachedOnce
  <1>4. \A v \in Waiters : v \notin alive' => attached'[v] = <<>> /\ blocked'[v] = <<>>
    BY <1>1 DEF AttachedOnce
  <1> QED BY <1>2, <1>3, <1>4 DEF AttachedOnce

-----------------------------------------------------------------------------
(* A step that leaves the lists, the states and the attachments alone.      *)
listVars == <<state, ready, joiners, cur, att, attached, blocked, alive>>

LEMMA ListInvRests ==
    ASSUME ListInv, TypeOK', UNCHANGED listVars, OneRuns'
    PROVE  ListInv'
  <1>0. ThreadLists /\ UNCHANGED <<state, ready, joiners, blocked>>
    BY DEF ListInv, listVars
  <1>1. ThreadLists'
    BY <1>0, ListsUntouched
  <1>2. AttachedOnce' /\ NoStrandedJoin'
    BY DEF ListInv, listVars, AttachedOnce, NoStrandedJoin
  <1> QED BY <1>1, <1>2 DEF ListInv

(* A wake of w for x, whoever notifies.                                     *)
LEMMA WakeKeepsLists ==
    ASSUME ListInv, NEW x \in Waitables, notify_ready(x), UNCHANGED <<joiners, alive>>
    PROVE  /\ ThreadLists' /\ AttachedOnce' /\ NoStrandedJoin'
           /\ \A t \in Threads : state'[t] = "Running" <=> state[t] = "Running"
  <1>0. TypeOK /\ ThreadLists /\ AttachedOnce /\ NoStrandedJoin
    BY DEF ListInv
  <1> USE <1>0, ListTypes
  <1>1. CASE att[x] # NoOne /\ wake_one_waiter(att[x].waiter, x)
    <2> DEFINE w == att[x].waiter  t == Head(blocked[w])
    <2>1. /\ w \in Waiters /\ blocked[w] # <<>> /\ deliver_attachment(x, t)
          /\ blocked' = [blocked EXCEPT ![w] = Tail(@)]
          /\ state' = [state EXCEPT ![t] = "Runnable"]
          /\ ready' = ready_push(ready, t)
      BY <1>1 DEF wake_one_waiter, Attachment
    <2> HIDE DEF w, t
    <2>2. ThreadLists' /\ t \in Threads /\ state[t] = "Blocked"
      BY <2>1, ListsWake DEF t
    <2>3. \A v \in Waiters : blocked[v] = <<>> /\ v \notin alive => blocked'[v] = <<>>
      BY <2>1
    <2>4. AttachedOnce'
      BY <1>1, <2>1, <2>3, AttachedDeliver
    <2>5. state'[t] = "Runnable" /\ \A u \in Threads : u # t => state'[u] = state[u]
      BY <2>1, <2>2
    <2>6. NoStrandedJoin'
      BY <2>5 DEF NoStrandedJoin
    <2> QED BY <2>2, <2>4, <2>5, <2>6
  <1>2. CASE UNCHANGED <<state, ready, blocked, att, attached>>
    <2>1. ThreadLists'
      BY <1>2, ListsUntouched
    <2> QED BY <1>2, <2>1 DEF AttachedOnce, NoStrandedJoin
  <1> QED BY <1>1, <1>2 DEF notify_ready

(* The steps of pick_next, the interrupts and the calls that answer nobody: *)
(* they leave the lists alone.                                              *)
LEMMA QuietStepsKeepLists ==
    ASSUME ListInv, TypeOK',
           \/ Stay \/ Nothing \/ Served \/ LongDone \/ Yield \/ LongOp \/ BadCall
           \/ \E e \in Events : Receive(e)
           \/ \E i \in Lines : Bind(i) \/ Ack(i)
           \/ \E x \in Timers, kind \in {"off", "once", "every"} : Schedule(x, kind)
           \/ Timer \/ UNCHANGED vars
    PROVE  ListInv'
  <1>1. UNCHANGED listVars
    BY DEF Stay, Nothing, Served, LongDone, Yield, LongOp, BadCall, Receive, Bind, Ack,
           Schedule, Timer, TimerInterrupt, vars, threadVars, waitVars, listVars
  <1>2. UNCHANGED <<state, cur>>
    BY <1>1 DEF listVars
  <1>3. OneRuns
    BY DEF ListInv
  <1>4. OneRuns'
    <2>1. CASE Stay \/ Nothing
      BY <1>2, <1>3, <2>1 DEF Stay, stays_running, Nothing, OneRuns
    <2>2. CASE Served
      BY <1>2, <1>3, <2>2 DEF Served, Resume, svcVars, OneRuns, ListInv, TypeOK
    <2>3. CASE LongDone \/ LongOp \/ BadCall
      BY <1>2, <1>3, <2>3 DEF LongDone, LongOp, BadCall, svcVars, OneRuns
    <2>4. CASE pc = "user" /\ pc' = "pick"
      BY <1>2, <1>3, <2>4 DEF OneRuns
    <2>5. CASE Timer
      BY <1>2, <1>3, <2>5 DEF Timer, TimerInterrupt, Interruptible, OneRuns
    <2>6. CASE UNCHANGED vars
      BY <1>2, <1>3, <2>6 DEF vars, OneRuns
    <2> QED BY <2>1, <2>2, <2>3, <2>4, <2>5, <2>6 DEF Yield, Receive, Bind, Ack, Schedule, Syscall
  <1> QED BY <1>1, <1>4, ListInvRests

(* A notification, from a call or from an interrupt.                        *)
LEMMA NotifyKeepsLists ==
    ASSUME ListInv, TypeOK', NEW x \in Waitables, notify_ready(x),
           UNCHANGED <<joiners, alive, cur>>,
           \/ pc = "user" /\ pc' = "pick"
           \/ pc \in {"user", "long", "idle"} /\ pc' = Resume(pc)
           \/ pc = "expire" /\ UNCHANGED <<pc, back>>
    PROVE  ListInv'
  <1>1. /\ ThreadLists' /\ AttachedOnce' /\ NoStrandedJoin'
        /\ \A t \in Threads : state'[t] = "Running" <=> state[t] = "Running"
    BY WakeKeepsLists
  <1>2. OneRuns'
    BY <1>1 DEF ListInv, TypeOK, OneRuns, Resume
  <1> QED BY <1>1, <1>2 DEF ListInv

(* The calls that make, start, join and end threads.                        *)
LEMMA ThreadStepsKeepLists ==
    ASSUME ListInv, TypeOK',
           \/ ThreadCreate
           \/ \E t \in Threads : Start(t) \/ Join(t)
           \/ \E c \in Codes : Exit(c)
    PROVE  ListInv'
  <1>0. TypeOK /\ ThreadLists /\ OneRuns /\ AttachedOnce /\ NoStrandedJoin
    BY DEF ListInv
  <1> USE <1>0, ListTypes
  <1>1. pc = "user" /\ pc' \in {"pick", "exited"} /\ UNCHANGED <<cur, waitVars>>
        /\ state[cur] = "Running"
    BY DEF ThreadCreate, Start, Join, Exit, ExitAs, Syscall, OneRuns
  <1>2. AttachedOnce' /\ UNCHANGED blocked
    BY <1>1 DEF waitVars, AttachedOnce
  <1>3. (\A t \in Threads : state'[t] = "Running" => t = cur) => OneRuns'
    BY <1>1 DEF OneRuns
  <1>4. ASSUME NEW t \in Threads, state[t] = "Free", state' = [state EXCEPT ![t] = "Created"],
               UNCHANGED <<joiners, ready>>
        PROVE  ListInv'
    <2>1. state'[t] = "Created" /\ \A u \in Threads : u # t => state'[u] = state[u]
      BY <1>4
    <2>2. ThreadLists'
      BY <1>2, <1>4, <2>1, ListsUntouched
    <2>3. OneRuns' /\ NoStrandedJoin'
      BY <1>1, <1>3, <1>4, <2>1 DEF OneRuns, NoStrandedJoin
    <2> QED BY <1>2, <2>2, <2>3 DEF ListInv
  <1>5. ASSUME NEW t \in Threads, Start(t) PROVE ListInv'
    <2>1. /\ state[t] = "Created" /\ state' = [state EXCEPT ![t] = "Runnable"]
          /\ ready' = Append(ready, t) /\ UNCHANGED joiners
      BY <1>5 DEF Start, ready_push
    <2>2. state'[t] = "Runnable" /\ \A u \in Threads : u # t => state'[u] = state[u]
      BY <2>1
    <2>3. ThreadLists'
      BY <1>2, <2>1, ListsStart
    <2>4. OneRuns' /\ NoStrandedJoin'
      BY <1>1, <1>3, <2>1, <2>2 DEF OneRuns, NoStrandedJoin
    <2> QED BY <1>2, <2>3, <2>4 DEF ListInv
  <1>6. ASSUME NEW t \in Threads, Join(t) PROVE ListInv'
    <2>1. CASE state[t] = "Exited" /\ UNCHANGED <<state, joiners>>
      <3>1. UNCHANGED listVars
        BY <1>1, <1>6, <2>1 DEF Join, listVars, waitVars
      <3>2. OneRuns'
        BY <1>1, <1>3, <2>1 DEF OneRuns
      <3> QED BY <3>1, <3>2, ListInvRests
    <2>2. CASE /\ state[t] \notin {"Exited", "Free"}
               /\ joiners' = [joiners EXCEPT ![t] = <<cur>> \o @]
               /\ Park
      <3>1. state' = [state EXCEPT ![cur] = "Blocked"] /\ UNCHANGED ready
        BY <1>6, <2>2 DEF Join, Park
      <3>2. ThreadLists'
        BY <1>1, <1>2, <2>2, <3>1, ListsJoin
      <3>3. state'[cur] = "Blocked" /\ \A u \in Threads : u # cur => state'[u] = state[u]
        BY <3>1
      <3>4. \A u \in Threads : u # t => joiners'[u] = joiners[u]
        BY <2>2
      <3>5. OneRuns' /\ NoStrandedJoin'
        BY <1>1, <1>3, <2>2, <3>3, <3>4 DEF OneRuns, NoStrandedJoin
      <3> QED BY <1>2, <3>2, <3>5 DEF ListInv
    <2> QED BY <1>6, <2>1, <2>2 DEF Join
  <1>7. ASSUME NEW c \in Codes, Exit(c) PROVE ListInv'
    <2>1. /\ joiners' = [joiners EXCEPT ![cur] = <<>>]
          /\ state' = [t \in Threads |-> CASE t = cur -> "Exited"
                                         [] t \in Members(joiners[cur]) -> "Runnable"
                                         [] OTHER -> state[t]]
          /\ ready' = ready \o joiners[cur]
      BY <1>7 DEF Exit, ExitAs
    <2>2. ThreadLists'
      BY <1>1, <1>2, <2>1, ListsExit
    <2>3. \A t \in Threads :
            /\ state'[t] \in {"Exited", "Runnable", state[t]}
            /\ state'[t] = "Exited" => t = cur \/ state[t] = "Exited"
      BY <2>1
    <2>4. joiners'[cur] = <<>> /\ \A t \in Threads : t # cur => joiners'[t] = joiners[t]
      BY <2>1
    <2>5. OneRuns' /\ NoStrandedJoin'
      BY <1>1, <1>3, <2>3, <2>4 DEF OneRuns, NoStrandedJoin
    <2> QED BY <1>2, <2>2, <2>5 DEF ListInv
  <1> QED BY <1>4, <1>5, <1>6, <1>7 DEF ThreadCreate

(* The calls on a Waiter.                                                   *)
LEMMA WaiterStepsKeepLists ==
    ASSUME ListInv, TypeOK', NEW w \in Waiters,
           \/ Wait(w) \/ ReleaseWaiter(w)
           \/ \E x \in Waitables :
                Remove(w, x) \/ \E once \in BOOLEAN : Add(w, x, once)
    PROVE  ListInv'
  <1>0. TypeOK /\ ThreadLists /\ OneRuns /\ AttachedOnce /\ NoStrandedJoin
    BY DEF ListInv
  <1> USE <1>0, ListTypes
  <1>1. pc = "user" /\ pc' = "pick" /\ UNCHANGED <<cur, joiners>> /\ state[cur] = "Running"
        /\ w \in alive
    BY DEF Wait, ReleaseWaiter, Remove, Add, Syscall, OneRuns, otherThreadVars, threadVars
  <1>2. (\A t \in Threads : state'[t] = "Running" => state[t] = "Running") => OneRuns'
    BY <1>1 DEF OneRuns
  <1>3. CASE Wait(w)
    <2>1. ASSUME NEW k \in DOMAIN attached[w], deliver_attachment(attached[w][k], cur),
                 UNCHANGED <<state, blocked>>
          PROVE  ListInv'
      <3> DEFINE x == attached[w][k]
      <3>1. x \in Members(attached[w]) /\ x \in Waitables
        BY MembersOf DEF Members
      <3> HIDE DEF x
      <3>2. att[x] # NoOne
        BY <3>1 DEF AttachedOnce
      <3>3. UNCHANGED <<alive, ready>> /\ deliver_attachment(x, cur)
        BY <1>3, <2>1 DEF Wait, x
      <3>4. AttachedOnce'
        BY <2>1, <3>1, <3>2, <3>3, AttachedDeliver
      <3>5. ThreadLists'
        BY <1>1, <2>1, <3>3, ListsUntouched
      <3>6. OneRuns' /\ NoStrandedJoin'
        BY <1>1, <1>2, <2>1 DEF NoStrandedJoin
      <3> QED BY <3>4, <3>5, <3>6 DEF ListInv
    <2>2. CASE /\ blocked' = [blocked EXCEPT ![w] = <<cur>> \o @]
               /\ Park
               /\ UNCHANGED <<att, attached>>
      <3>1. state' = [state EXCEPT ![cur] = "Blocked"] /\ UNCHANGED <<ready, alive>>
        BY <1>3, <2>2 DEF Wait, Park
      <3>2. ThreadLists'
        BY <1>1, <2>2, <3>1, ListsWait
      <3>3. state'[cur] = "Blocked" /\ \A u \in Threads : u # cur => state'[u] = state[u]
        BY <3>1
      <3>4. OneRuns' /\ NoStrandedJoin'
        BY <1>1, <1>2, <3>3 DEF NoStrandedJoin
      <3>5. \A v \in Waiters : v # w => blocked'[v] = blocked[v]
        BY <2>2
      <3>6. AttachedOnce'
        BY <1>1, <2>2, <3>1, <3>5 DEF AttachedOnce
      <3> QED BY <3>2, <3>4, <3>6 DEF ListInv
    <2> QED BY <1>3, <2>1, <2>2 DEF Wait
  <1>4. CASE ReleaseWaiter(w)
    <2>1. /\ alive' = alive \ {w}
          /\ att' = [x \in Waitables |-> IF x \in Members(attached[w]) THEN NoOne ELSE att[x]]
          /\ attached' = [attached EXCEPT ![w] = <<>>]
          /\ blocked' = [blocked EXCEPT ![w] = <<>>]
          /\ state' = [t \in Threads |-> IF t \in Members(blocked[w]) THEN "Runnable" ELSE state[t]]
          /\ ready' = ready \o blocked[w]
      BY <1>4 DEF ReleaseWaiter
    <2>2. AttachedOnce'
      BY <2>1, AttachedRevoke
    <2>3. ThreadLists'
      BY <1>1, <2>1, ListsRevoke
    <2>4. \A t \in Threads : state'[t] = "Runnable" \/ state'[t] = state[t]
      BY <2>1
    <2>5. OneRuns' /\ NoStrandedJoin'
      BY <1>1, <1>2, <2>4 DEF NoStrandedJoin
    <2> QED BY <2>2, <2>3, <2>5 DEF ListInv
  <1>5. ASSUME NEW x \in Waitables, Remove(w, x) PROVE ListInv'
    <2>1. /\ x \in Members(attached[w]) /\ UNCHANGED <<alive, blocked, state, ready>>
          /\ att' = [att EXCEPT ![x] = NoOne]
          /\ attached' = [attached EXCEPT ![w] = Without(@, x)]
      BY <1>5 DEF Remove, threadVars
    <2>2. AttachedOnce'
      BY <2>1, AttachedRemove
    <2>3. ThreadLists'
      BY <1>1, <2>1, ListsUntouched
    <2>4. OneRuns' /\ NoStrandedJoin'
      BY <1>1, <1>2, <2>1 DEF NoStrandedJoin
    <2> QED BY <2>2, <2>3, <2>4 DEF ListInv
  <1>6. ASSUME NEW x \in Waitables, NEW once \in BOOLEAN, Add(w, x, once) PROVE ListInv'
    <2> DEFINE t == Head(blocked[w])
               wakes == level[x] /\ blocked[w] # <<>>
    <2>1. att[x] = NoOne /\ UNCHANGED alive
      BY <1>6 DEF Add
    <2>2. CASE wakes
      <3>1. /\ blocked[w] # <<>> /\ blocked' = [blocked EXCEPT ![w] = Tail(@)]
            /\ state' = [state EXCEPT ![t] = "Runnable"]
            /\ ready' = ready_push(ready, t)
        BY <1>6, <2>2 DEF Add
      <3> HIDE DEF t
      <3>2. ThreadLists' /\ t \in Threads /\ state[t] = "Blocked"
        BY <1>1, <3>1, ListsWake DEF t
      <3>3. state'[t] = "Runnable" /\ \A u \in Threads : u # t => state'[u] = state[u]
        BY <3>1, <3>2
      <3>4. OneRuns' /\ NoStrandedJoin'
        BY <1>1, <1>2, <3>3 DEF NoStrandedJoin
      <3>5. \A v \in Waiters : v # w => blocked'[v] = blocked[v]
        BY <3>1
      <3>6. AttachedOnce'
        <4>1. CASE UNCHANGED <<att, attached>>
          BY <1>1, <2>1, <3>5, <4>1 DEF AttachedOnce
        <4>2. CASE /\ att' = [att EXCEPT ![x] = [waiter |-> w, oneshot |-> once]]
                   /\ attached' = [attached EXCEPT ![w] = <<x>> \o @]
          BY <1>1, <2>1, <3>5, <4>2, AttachedAdd
        <4> QED BY <1>6, <4>1, <4>2 DEF Add
      <3> QED BY <3>2, <3>4, <3>6 DEF ListInv
    <2>3. CASE ~wakes
      <3>1. /\ UNCHANGED <<blocked, state, ready>>
            /\ att' = [att EXCEPT ![x] = [waiter |-> w, oneshot |-> once]]
            /\ attached' = [attached EXCEPT ![w] = <<x>> \o @]
        BY <1>6, <2>3 DEF Add
      <3>2. AttachedOnce'
        BY <1>1, <2>1, <3>1, AttachedAdd
      <3>3. ThreadLists'
        BY <1>1, <3>1, ListsUntouched
      <3>4. OneRuns' /\ NoStrandedJoin'
        BY <1>1, <1>2, <3>1 DEF NoStrandedJoin
      <3> QED BY <3>2, <3>3, <3>4 DEF ListInv
    <2> QED BY <2>2, <2>3
  <1> QED BY <1>3, <1>4, <1>5, <1>6

(* The head of the queue runs.  q and st are the queue and the states once  *)
(* an outgoing thread that can still run has been put at the tail.          *)
LEMMA HeadRuns ==
    ASSUME ListInv, TypeOK', NEW q \in Seq(Threads), NEW st \in [Threads -> ThreadState],
           q # <<>>, Distinct(q),
           \A t \in Threads : t \in Members(q) <=> st[t] = "Runnable",
           \A t \in Threads : /\ st[t] # "Running"
                              /\ st[t] = state[t]
                                   \/ (state[t] = "Running" /\ st[t] = "Runnable"),
           ready' = Tail(q), state' = [st EXCEPT ![Head(q)] = "Running"],
           cur' = Head(q), pc' = "user", UNCHANGED <<joiners, waitVars>>
    PROVE  ListInv'
  <1>0. TypeOK /\ ThreadLists /\ OneRuns /\ AttachedOnce /\ NoStrandedJoin
    BY DEF ListInv
  <1> DEFINE h == Head(q)
  <1>1. h \in Members(q) /\ Distinct(Tail(q)) /\ Members(Tail(q)) = Members(q) \ {h}
    BY TailMembers
  <1>2. h \in Threads /\ cur' = h
    BY HeadTail
  <1>3. state'[h] = "Running" /\ \A t \in Threads : t # h => state'[t] = st[t]
    BY <1>2
  <1> HIDE DEF h
  <1>4. st[h] = "Runnable"
    BY <1>1, <1>2
  <1>5. ReadyAreRunnable'
    BY <1>1, <1>2, <1>3 DEF ReadyAreRunnable
  <1>6. UNCHANGED <<blocked, att, attached, alive>>
    BY DEF waitVars
  <1>7. ParkedIsBlocked'
    <2>1. \A t \in Threads : state'[t] = "Blocked" <=> state[t] = "Blocked"
      BY <1>2, <1>3, <1>4
    <2> QED BY <1>0, <1>6, <2>1 DEF ThreadLists, ParkedIsBlocked, Joining, Waiting
  <1>8. JoinersOnce' /\ BlockedOnce'
    BY <1>0, <1>6 DEF ThreadLists, JoinersOnce, BlockedOnce
  <1>9. OneRuns'
    BY <1>2, <1>3 DEF OneRuns
  <1>10. AttachedOnce'
    BY <1>0, <1>6 DEF AttachedOnce
  <1>11. NoStrandedJoin'
    BY <1>0, <1>2, <1>3, <1>4 DEF NoStrandedJoin
  <1> QED BY <1>5, <1>7, <1>8, <1>9, <1>10, <1>11 DEF ListInv, ThreadLists

(* pick_next and the idle loop.                                             *)
LEMMA SwitchKeepsLists ==
    ASSUME ListInv, TypeOK', Switch \/ IdleExit
    PROVE  ListInv'
  <1>0. TypeOK /\ ThreadLists /\ OneRuns
    BY DEF ListInv
  <1>1. /\ Distinct(ready)
        /\ \A t \in Threads : t \in Members(ready) <=> state[t] = "Runnable"
    BY <1>0 DEF ThreadLists, ReadyAreRunnable
  <1>2. \A t \in Threads : state[t] = "Running" => t = cur
    BY <1>0 DEF OneRuns
  <1> USE <1>0, ListTypes
  <1>3. CASE Switch /\ state[cur] = "Running"
    <2> DEFINE q == Append(ready, cur)
               st == [state EXCEPT ![cur] = "Runnable"]
    <2>1. /\ ready' = Tail(q) /\ state' = [st EXCEPT ![Head(q)] = "Running"]
          /\ cur' = Head(q) /\ pc' = "user" /\ UNCHANGED <<joiners, waitVars>> /\ q # <<>>
      BY <1>3 DEF Switch, ready_push, run_thread
    <2>2. Distinct(q) /\ Members(q) = Members(ready) \cup {cur} /\ q \in Seq(Threads)
      BY <1>1, <1>3, AppendMembers
    <2>3. /\ st \in [Threads -> ThreadState] /\ st[cur] = "Runnable"
          /\ \A t \in Threads : t # cur => st[t] = state[t]
      BY DEF ThreadState
    <2> HIDE DEF q, st
    <2>4. \A t \in Threads : t \in Members(q) <=> st[t] = "Runnable"
      BY <1>1, <2>2, <2>3
    <2>5. \A t \in Threads : /\ st[t] # "Running"
                             /\ st[t] = state[t]
                                  \/ (state[t] = "Running" /\ st[t] = "Runnable")
      BY <1>2, <1>3, <2>3
    <2> QED BY <2>1, <2>2, <2>3, <2>4, <2>5, HeadRuns
  <1>4. CASE (Switch /\ state[cur] # "Running") \/ IdleExit
    <2>1. /\ ready' = Tail(ready) /\ state' = [state EXCEPT ![Head(ready)] = "Running"]
          /\ cur' = Head(ready) /\ pc' = "user" /\ UNCHANGED <<joiners, waitVars>>
          /\ ready # <<>> /\ state[cur] # "Running"
      BY <1>4 DEF Switch, IdleExit, run_thread, OneRuns
    <2>2. \A t \in Threads : state[t] # "Running"
      BY <1>2, <2>1
    <2> QED BY <1>1, <2>1, <2>2, HeadRuns
  <1> QED BY <1>3, <1>4

LEMMA ListInvInit ==
    ASSUME Init, TypeOK
    PROVE  ListInv
  <1>1. /\ ready = <<>> /\ \A t \in Threads : joiners[t] = <<>>
        /\ \A w \in Waiters : blocked[w] = <<>> /\ attached[w] = <<>>
        /\ \A x \in Waitables : att[x] = NoOne
        /\ cur = 1 /\ 1 \in Threads /\ pc = "user"
    BY SchedAssumption DEF Init, Threads
  <1>2. \A t \in Threads : state[t] \in {"Running", "Free"} /\ (state[t] = "Running" <=> t = 1)
    BY DEF Init
  <1>3. ThreadLists
    BY <1>1, <1>2, EmptyList DEF ThreadLists, ReadyAreRunnable, JoinersOnce, BlockedOnce,
                                 ParkedIsBlocked, Joining, Waiting
  <1>4. OneRuns /\ NoStrandedJoin
    BY <1>1, <1>2 DEF OneRuns, NoStrandedJoin
  <1>5. AttachedOnce
    BY <1>1, EmptyList DEF AttachedOnce
  <1> QED BY <1>3, <1>4, <1>5 DEF ListInv

LEMMA ListInvStep ==
    ASSUME ListInv, [Next]_vars
    PROVE  ListInv'
  <1>0. TypeOK'
    BY TypeStep DEF ListInv
  <1>1. ASSUME NEW x \in Timers, FireTimer(x) PROVE ListInv'
    <2>1. /\ x \in Waitables /\ notify_ready(x) /\ UNCHANGED <<joiners, alive, cur>>
          /\ pc = "expire" /\ UNCHANGED <<pc, back>>
      BY <1>1 DEF FireTimer, Waitables, otherThreadVars
    <2> QED BY <1>0, <2>1, NotifyKeepsLists
  <1>2. ASSUME NEW i \in Lines, ExternalIrq(i) PROVE ListInv'
    <2>1. /\ i \in Waitables /\ notify_ready(i) /\ UNCHANGED <<joiners, alive, cur>>
          /\ pc \in {"user", "long", "idle"} /\ pc' = Resume(pc)
      BY <1>2 DEF ExternalIrq, Interruptible, Waitables, otherThreadVars
    <2> QED BY <1>0, <2>1, NotifyKeepsLists
  <1>3. ASSUME NEW e \in Events, NEW bits \in BOOLEAN, Signal(e, bits) PROVE ListInv'
    <2>1. /\ e \in Waitables /\ UNCHANGED <<joiners, alive, cur>>
          /\ pc = "user" /\ pc' = "pick" /\ (notify_ready(e) \/ UNCHANGED notifyVars)
      BY <1>3 DEF Signal, Syscall, Waitables, otherThreadVars
    <2>2. CASE notify_ready(e)
      BY <1>0, <2>1, <2>2, NotifyKeepsLists
    <2>3. CASE UNCHANGED notifyVars
      <3>1. UNCHANGED listVars
        BY <2>1, <2>3 DEF notifyVars, listVars
      <3>2. OneRuns'
        BY <2>1, <3>1 DEF ListInv, OneRuns, listVars
      <3> QED BY <1>0, <3>1, <3>2, ListInvRests
    <2> QED BY <2>1, <2>2, <2>3
  <1>4. CASE Kernel
    BY <1>0, <1>1, <1>4, QuietStepsKeepLists, SwitchKeepsLists DEF Kernel
  <1>5. CASE User
    BY <1>0, <1>3, <1>5, QuietStepsKeepLists, ThreadStepsKeepLists, WaiterStepsKeepLists
       DEF User, TimerCall, Arm, Disarm
  <1>6. CASE Timer \/ Device \/ Halted \/ UNCHANGED vars
    BY <1>0, <1>2, <1>6, QuietStepsKeepLists DEF Device, Halted
  <1> QED BY <1>4, <1>5, <1>6 DEF Next

-----------------------------------------------------------------------------
(* Counting the places a thread is linked from.  A list of threads without  *)
(* repetitions is no longer than there are threads.                         *)
LEMMA ListFits ==
    ASSUME NEW s \in Seq(Threads), Distinct(s)
    PROVE  \A a \in 1..Len(s) : a \in Threads
  <1>1. /\ IsFiniteSet(Members(s)) /\ Cardinality(Members(s)) = Len(s)
        /\ Members(s) \subseteq Threads /\ Len(s) \in Nat
    BY DistinctCardinality, MembersOf
  <1>2. IsFiniteSet(Threads) /\ Cardinality(Threads) = NThreads
    BY FS_Interval, SchedAssumption DEF Threads
  <1>3. Len(s) <= NThreads
    BY <1>1, <1>2, FS_Subset
  <1> QED BY <1>1, <1>3, SchedAssumption DEF Threads

LEMMA CountedOnce ==
    /\ Cardinality({}) = 0
    /\ \A x : Cardinality({x}) = 1
  BY FS_EmptySet, FS_Singleton

LEMMA ReadyCount ==
    ASSUME TypeOK, ThreadLists, NEW t \in Threads
    PROVE  Cardinality(OnReady(t)) = IF state[t] = "Runnable" THEN 1 ELSE 0
  <1>1. ready \in Seq(Threads) /\ DOMAIN ready = 1..Len(ready)
    BY ListTypes
  <1>2. CASE state[t] = "Runnable"
    <2>1. PICK k \in 1..Len(ready) : ready[k] = t
      BY <1>1, <1>2, MembersOf DEF ThreadLists, ReadyAreRunnable
    <2>2. OnReady(t) = {k}
      BY <1>1, <2>1 DEF OnReady, ThreadLists, ReadyAreRunnable, Distinct
    <2> QED BY <1>2, <2>2, CountedOnce
  <1>3. CASE state[t] # "Runnable"
    <2>1. OnReady(t) = {}
      BY <1>1, <1>3, MembersOf DEF OnReady, ThreadLists, ReadyAreRunnable
    <2> QED BY <1>3, <2>1, CountedOnce
  <1> QED BY <1>2, <1>3

LEMMA JoinersCount ==
    ASSUME TypeOK, ThreadLists, NEW t \in Threads
    PROVE  Cardinality(OnJoiners(t)) = IF Joining(t) THEN 1 ELSE 0
  <1>1. \A u \in Threads : /\ joiners[u] \in Seq(Threads) /\ DOMAIN joiners[u] = 1..Len(joiners[u])
                           /\ Distinct(joiners[u])
    BY ListTypes DEF ThreadLists, JoinersOnce
  <1>2. CASE Joining(t)
    <2>1. PICK u \in Threads : t \in Members(joiners[u])
      BY <1>2 DEF Joining
    <2>2. PICK k \in 1..Len(joiners[u]) : joiners[u][k] = t
      BY <1>1, <2>1, MembersOf
    <2>3. k \in Threads
      BY <1>1, <2>1, ListFits
    <2>4. <<u, k>> \in OnJoiners(t)
      BY <1>1, <2>2, <2>3 DEF OnJoiners
    <2>5. ASSUME NEW p \in OnJoiners(t) PROVE p = <<u, k>>
      <3>1. /\ p \in Threads \X Threads /\ p[2] \in 1..Len(joiners[p[1]])
            /\ joiners[p[1]][p[2]] = t
        BY <1>1, <2>5 DEF OnJoiners
      <3>2. t \in Members(joiners[p[1]])
        BY <1>1, <3>1, MembersOf
      <3>3. p[1] = u
        BY <2>1, <3>1, <3>2 DEF ThreadLists, JoinersOnce
      <3>4. p[2] = k
        BY <1>1, <2>2, <3>1, <3>3 DEF Distinct
      <3> QED BY <3>1, <3>3, <3>4
    <2>6. OnJoiners(t) = {<<u, k>>}
      BY <2>4, <2>5
    <2> QED BY <1>2, <2>6, CountedOnce
  <1>3. CASE ~Joining(t)
    <2>1. OnJoiners(t) = {}
      BY <1>1, <1>3, MembersOf DEF OnJoiners, Joining
    <2> QED BY <1>3, <2>1, CountedOnce
  <1> QED BY <1>2, <1>3

LEMMA BlockedCount ==
    ASSUME TypeOK, ThreadLists, NEW t \in Threads
    PROVE  Cardinality(OnBlocked(t)) = IF Waiting(t) THEN 1 ELSE 0
  <1>1. \A w \in Waiters : /\ blocked[w] \in Seq(Threads) /\ DOMAIN blocked[w] = 1..Len(blocked[w])
                           /\ Distinct(blocked[w])
    BY ListTypes DEF ThreadLists, BlockedOnce
  <1>2. CASE Waiting(t)
    <2>1. PICK w \in Waiters : t \in Members(blocked[w])
      BY <1>2 DEF Waiting
    <2>2. PICK k \in 1..Len(blocked[w]) : blocked[w][k] = t
      BY <1>1, <2>1, MembersOf
    <2>3. k \in Threads
      BY <1>1, <2>1, ListFits
    <2>4. <<w, k>> \in OnBlocked(t)
      BY <1>1, <2>2, <2>3 DEF OnBlocked
    <2>5. ASSUME NEW p \in OnBlocked(t) PROVE p = <<w, k>>
      <3>1. /\ p \in Waiters \X Threads /\ p[2] \in 1..Len(blocked[p[1]])
            /\ blocked[p[1]][p[2]] = t
        BY <1>1, <2>5 DEF OnBlocked
      <3>2. t \in Members(blocked[p[1]])
        BY <1>1, <3>1, MembersOf
      <3>3. p[1] = w
        BY <2>1, <3>1, <3>2 DEF ThreadLists, BlockedOnce
      <3>4. p[2] = k
        BY <1>1, <2>2, <3>1, <3>3 DEF Distinct
      <3> QED BY <3>1, <3>3, <3>4
    <2>6. OnBlocked(t) = {<<w, k>>}
      BY <2>4, <2>5
    <2> QED BY <1>2, <2>6, CountedOnce
  <1>3. CASE ~Waiting(t)
    <2>1. OnBlocked(t) = {}
      BY <1>1, <1>3, MembersOf DEF OnBlocked, Waiting
    <2> QED BY <1>3, <2>1, CountedOnce
  <1> QED BY <1>2, <1>3

LEMMA ListInvAgrees ==
    ASSUME ListInv
    PROVE  ListsAgree
  <1>0. TypeOK /\ ThreadLists /\ OneRuns /\ AttachedOnce /\ NoStrandedJoin
    BY DEF ListInv
  <1>1. OneList
    <2>1. ASSUME NEW t \in Threads
          PROVE  Cardinality(OnJoiners(t)) + Cardinality(OnBlocked(t))
                   = IF state[t] = "Blocked" THEN 1 ELSE 0
      <3>1. ~(Joining(t) /\ Waiting(t)) /\ (Joining(t) \/ Waiting(t) <=> state[t] = "Blocked")
        BY <1>0 DEF ThreadLists, ParkedIsBlocked
      <3>2. /\ Cardinality(OnJoiners(t)) = IF Joining(t) THEN 1 ELSE 0
            /\ Cardinality(OnBlocked(t)) = IF Waiting(t) THEN 1 ELSE 0
        BY <1>0, JoinersCount, BlockedCount
      <3> QED BY <3>1, <3>2
    <2> QED BY <1>0, <2>1, ReadyCount DEF OneList, OneRuns
  <1>2. AttachmentsAgree
    <2> SUFFICES ASSUME NEW w \in Waiters
                 PROVE  /\ Members(attached[w])
                              = {x \in Waitables : att[x] # NoOne /\ att[x].waiter = w}
                        /\ Cardinality(Members(attached[w])) = Len(attached[w])
                        /\ w \notin alive => attached[w] = <<>> /\ blocked[w] = <<>>
      BY DEF AttachmentsAgree
    <2>1. attached[w] \in Seq(Waitables) /\ Distinct(attached[w])
      BY <1>0, ListTypes DEF AttachedOnce
    <2>2. Members(attached[w]) \subseteq Waitables
      BY <2>1, MembersOf
    <2>3. Members(attached[w]) = {x \in Waitables : att[x] # NoOne /\ att[x].waiter = w}
      BY <1>0, <2>2 DEF AttachedOnce
    <2> QED BY <1>0, <2>1, <2>3, DistinctCardinality DEF AttachedOnce
  <1> QED BY <1>0, <1>1, <1>2 DEF ListsAgree

(* ListInv holds in every reachable state.                                  *)
LEMMA ListsInvariant == Spec => []ListInv
  <1>1. Init => ListInv
    <2>1. Init => TypeOK
      BY InitType
    <2> QED BY <2>1, ListInvInit
  <1> QED BY <1>1, ListInvStep, PTL DEF Spec

(* ListsAgree, for any number of threads, Waiters and waitables: a thread   *)
(* is on the one list its state says, an attachment is linked from both its *)
(* ends or from neither, and nobody joins a thread that has exited, through *)
(* every order of starts, joins, waits, wakes, expiries and exits.          *)
THEOREM ListsAlwaysAgree == Spec => []ListsAgree
  <1>1. ListInv => ListsAgree
    BY ListInvAgrees
  <1> QED BY <1>1, ListsInvariant, PTL

-----------------------------------------------------------------------------
(* The answer a parked thread is woken with.  A step that wakes nobody      *)
(* writes at most for the thread that runs, ...                             *)
LEMMA LeftAlone ==
    ASSUME NEW t \in Threads, state'[t] = "Blocked", \A p \in wrote' : p[1] # t
    PROVE  Answered(t)
  BY DEF Answered

LEMMA AnswersTo ==
    ASSUME NEW D, NEW a, NEW t \in D
    PROVE  {p[2] : p \in {q \in D \X {a} : q[1] = t}} = {a}
  <1>1. <<t, a>> \in {q \in D \X {a} : q[1] = t}
    OBVIOUS
  <1>2. \A p \in {q \in D \X {a} : q[1] = t} : p[2] = a
    OBVIOUS
  <1>3. <<t, a>>[2] = a
    OBVIOUS
  <1> QED BY <1>1, <1>2, <1>3

LEMMA OneAnswer ==
    ASSUME NEW h, NEW a
    PROVE  /\ \A p \in {<<h, a>>} : p[1] = h
           /\ \A r : r = {<<h, a>>} => {p[2] : p \in {q \in r : q[1] = h}} = {a}
  <1>1. <<h, a>>[1] = h /\ <<h, a>>[2] = a
    OBVIOUS
  <1>2. {q \in {<<h, a>>} : q[1] = h} = {<<h, a>>}
    BY <1>1
  <1> QED BY <1>1, <1>2

(* ... a step that wakes the head of w's list answers it with x, ...        *)
LEMMA HeadAnswered ==
    ASSUME ListInv, NEW w \in Waiters, NEW x \in Waitables, blocked[w] # <<>>,
           state' = [state EXCEPT ![Head(blocked[w])] = "Runnable"],
           wrote' = {<<Head(blocked[w]), x>>},
           att[x] = NoOne \/ (att[x] \in Attachment /\ att[x].waiter = w),
           NEW t \in Threads, state[t] = "Blocked"
    PROVE  Answered(t)
  <1> DEFINE h == Head(blocked[w])
  <1>0. TypeOK /\ ThreadLists
    BY DEF ListInv
  <1>1. blocked[w] \in Seq(Threads) /\ Distinct(blocked[w]) /\ state \in [Threads -> ThreadState]
    BY <1>0, ListTypes DEF ThreadLists, BlockedOnce
  <1>2. h \in Threads /\ h \in Members(blocked[w])
    BY <1>1, HeadTail, TailMembers
  <1>3. wrote' = {<<h, x>>} /\ state'[h] = "Runnable"
        /\ \A u \in Threads : u # h => state'[u] = state[u]
    BY <1>1, <1>2
  <1> HIDE DEF h
  <1>4. CASE t # h
    <2>1. state'[t] = "Blocked"
      BY <1>3, <1>4
    <2>2. \A p \in wrote' : p[1] # t
      BY <1>3, <1>4, OneAnswer
    <2> QED BY <2>1, <2>2, LeftAlone
  <1>5. CASE t = h
    <2> DEFINE mine == {p[2] : p \in {q \in wrote' : q[1] = t}}
    <2>1. mine = {x}
      <3> DEFINE given == wrote'
      <3>1. given = {<<t, x>>}
        BY <1>3, <1>5
      <3> HIDE DEF given
      <3>2. {p[2] : p \in {q \in given : q[1] = t}} = {x}
        BY <3>1, OneAnswer
      <3> QED BY <3>2 DEF given
    <2> HIDE DEF mine
    <2>2. Cardinality(mine) = 1
      BY <2>1, CountedOnce
    <2>3. ~Joining(t)
      BY <1>0, <1>2, <1>5 DEF ThreadLists, ParkedIsBlocked, Waiting
    <2>4. \A v \in Waiters : t \in Members(blocked[v]) => v = w
      BY <1>0, <1>2, <1>5 DEF ThreadLists, BlockedOnce
    <2>5. att[x] \in {NoOne} \cup [waiter : {w}, oneshot : BOOLEAN]
      BY DEF Attachment
    <2>6. state'[t] # "Blocked"
      BY <1>3, <1>5
    <2> QED BY <2>1, <2>2, <2>3, <2>4, <2>5, <2>6 DEF Answered, Joining, mine
  <1> QED BY <1>4, <1>5

(* ... a notification does either, ...                                      *)
LEMMA NotifyAnswers ==
    ASSUME ListInv, NEW x \in Waitables, notify_ready(x),
           NEW t \in Threads, state[t] = "Blocked"
    PROVE  Answered(t)
  <1>0. att \in [Waitables -> Attachment \cup {NoOne}]
    BY DEF ListInv, TypeOK
  <1>1. CASE att[x] # NoOne /\ wake_one_waiter(att[x].waiter, x)
    <2> DEFINE w == att[x].waiter
    <2>1. att[x] \in Attachment /\ w \in Waiters
      BY <1>0, <1>1 DEF Attachment
    <2>2. /\ blocked[w] # <<>> /\ state' = [state EXCEPT ![Head(blocked[w])] = "Runnable"]
          /\ wrote' = {<<Head(blocked[w]), x>>}
      BY <1>1 DEF wake_one_waiter, deliver_attachment
    <2>3. att[x].waiter = w
      OBVIOUS
    <2> HIDE DEF w
    <2> QED BY <2>1, <2>2, <2>3, HeadAnswered
  <1>2. CASE Quiet /\ UNCHANGED state
    BY <1>2, LeftAlone DEF Quiet
  <1> QED BY <1>1, <1>2 DEF notify_ready

(* ... the exit of a thread answers its joiners with its code, ...          *)
LEMMA ExitAnswers ==
    ASSUME ListInv, NEW c \in Codes, Exit(c), NEW t \in Threads, state[t] = "Blocked"
    PROVE  Answered(t)
  <1> DEFINE woken == Members(joiners[cur])
  <1>0. TypeOK /\ ThreadLists /\ OneRuns
    BY DEF ListInv
  <1>1. /\ pc = "user" /\ code' = [code EXCEPT ![cur] = c] /\ wrote' = woken \X {c}
        /\ state' = [u \in Threads |-> CASE u = cur -> "Exited"
                                         [] u \in woken -> "Runnable"
                                         [] OTHER -> state[u]]
    BY DEF Exit, ExitAs
  <1>2. cur \in Threads /\ t # cur /\ code'[cur] = c /\ state'[cur] = "Exited"
    <2>1. cur \in Threads /\ code \in [Threads -> Codes \cup {NoOne}]
      BY <1>0 DEF TypeOK
    <2>2. t # cur
      BY <1>0, <1>1 DEF OneRuns
    <2>3. code'[cur] = c
      BY <1>1, <2>1
    <2>4. \A u \in Threads : u = cur => state'[u] = "Exited"
      <3>1. state' = [u \in Threads |-> CASE u = cur -> "Exited"
                                         [] u \in woken -> "Runnable"
                                         [] OTHER -> state[u]]
        BY <1>1
      <3>2. cur \notin woken
        BY <1>0, <1>1, <2>1 DEF OneRuns, ThreadLists, ParkedIsBlocked, Joining
      <3> QED BY <3>1, <3>2
    <2> QED BY <2>1, <2>2, <2>3, <2>4
  <1>3. state'[t] = IF t \in woken THEN "Runnable" ELSE state[t]
    BY <1>1, <1>2
  <1> HIDE DEF woken
  <1>4. CASE t \notin woken
    BY <1>1, <1>3, <1>4, LeftAlone
  <1>5. CASE t \in woken
    <2> DEFINE mine == {p[2] : p \in {q \in wrote' : q[1] = t}}
    <2>1. mine = {c}
      <3>1. {p[2] : p \in {q \in woken \X {c} : q[1] = t}} = {c}
        BY <1>5, AnswersTo
      <3> QED BY <1>1, <3>1
    <2> HIDE DEF mine
    <2>2. Cardinality(mine) = 1
      BY <2>1, CountedOnce
    <2>3. ~Waiting(t)
      BY <1>0, <1>2, <1>5 DEF ThreadLists, ParkedIsBlocked, Joining, woken
    <2>4. \A u \in Threads : t \in Members(joiners[u]) => u = cur
      BY <1>0, <1>2, <1>5 DEF ThreadLists, JoinersOnce, woken
    <2>5. state'[t] # "Blocked"
      BY <1>3, <1>5
    <2> QED BY <1>2, <2>1, <2>2, <2>3, <2>4, <2>5 DEF Answered, Waiting, mine
  <1> QED BY <1>4, <1>5

(* ... and the last handle of a Waiter with Revoked.                        *)
LEMMA ReleaseAnswers ==
    ASSUME ListInv, NEW w \in Waiters, ReleaseWaiter(w),
           NEW t \in Threads, state[t] = "Blocked"
    PROVE  Answered(t)
  <1> DEFINE woken == Members(blocked[w])
  <1>0. TypeOK /\ ThreadLists
    BY DEF ListInv
  <1>1. /\ alive' = alive \ {w} /\ wrote' = woken \X {"Revoked"}
        /\ state'[t] = IF t \in woken THEN "Runnable" ELSE state[t]
    BY DEF ReleaseWaiter
  <1> HIDE DEF woken
  <1>2. CASE t \notin woken
    BY <1>1, <1>2, LeftAlone
  <1>3. CASE t \in woken
    <2> DEFINE mine == {p[2] : p \in {q \in wrote' : q[1] = t}}
    <2>1. mine = {"Revoked"}
      <3>1. {p[2] : p \in {q \in woken \X {"Revoked"} : q[1] = t}} = {"Revoked"}
        BY <1>3, AnswersTo
      <3> QED BY <1>1, <3>1
    <2> HIDE DEF mine
    <2>2. Cardinality(mine) = 1
      BY <2>1, CountedOnce
    <2>3. ~Joining(t)
      BY <1>0, <1>3 DEF ThreadLists, ParkedIsBlocked, Waiting, woken
    <2>4. \A v \in Waiters : t \in Members(blocked[v]) => v = w
      BY <1>0, <1>3 DEF ThreadLists, BlockedOnce, woken
    <2>5. state'[t] # "Blocked"
      BY <1>1, <1>3
    <2> QED BY <1>1, <2>1, <2>2, <2>3, <2>4, <2>5 DEF Answered, Joining, mine
  <1> QED BY <1>2, <1>3

LEMMA CallsAnswer ==
    ASSUME ListInv, User, NEW t \in Threads, state[t] = "Blocked"
    PROVE  Answered(t)
  <1>0. state \in [Threads -> ThreadState] /\ cur \in Threads
    BY DEF ListInv, TypeOK
  <1>1. pc = "user" => t # cur
    BY DEF ListInv, OneRuns
  <1>2. CASE /\ UNCHANGED state
             /\ Quiet
    BY <1>2, LeftAlone DEF Quiet
  <1>3. CASE ThreadCreate \/ \E u \in Threads : Start(u)
    <2>1. wrote' = {}
      BY <1>3 DEF ThreadCreate, Start, Quiet
    <2>2. state'[t] = state[t]
      BY <1>0, <1>3 DEF ThreadCreate, Start
    <2> QED BY <2>1, <2>2, LeftAlone
  <1>4. CASE \E u \in Threads : Join(u)
    <2>1. pc = "user" /\ \A p \in wrote' : p[1] = cur
      BY <1>4 DEF Join, Syscall, Park, Quiet
    <2>2. state'[t] = state[t]
      BY <1>0, <1>1, <1>4 DEF Join, Syscall, Park
    <2> QED BY <1>1, <2>1, <2>2, LeftAlone
  <1>5. CASE \E w \in Waiters : Wait(w)
    <2>1. pc = "user" /\ \A p \in wrote' : p[1] = cur
      BY <1>5 DEF Wait, Syscall, Park, Quiet, deliver_attachment
    <2>2. state'[t] = state[t]
      BY <1>0, <1>1, <1>5 DEF Wait, Syscall, Park
    <2> QED BY <1>1, <2>1, <2>2, LeftAlone
  <1>6. ASSUME NEW e \in Events, NEW bits \in BOOLEAN, Signal(e, bits) PROVE Answered(t)
    <2>1. e \in Waitables
      BY DEF Waitables
    <2> QED BY <1>2, <1>6, <2>1, NotifyAnswers DEF Signal, notifyVars
  <1>7. ASSUME NEW w \in Waiters, NEW x \in Waitables, NEW once \in BOOLEAN, Add(w, x, once)
        PROVE  Answered(t)
    <2>1. CASE level[x] /\ blocked[w] # <<>>
      <3>1. /\ att[x] = NoOne /\ wrote' = {<<Head(blocked[w]), x>>}
            /\ state' = [state EXCEPT ![Head(blocked[w])] = "Runnable"]
        BY <1>7, <2>1 DEF Add
      <3> QED BY <2>1, <3>1, HeadAnswered
    <2>2. CASE ~(level[x] /\ blocked[w] # <<>>)
      BY <1>2, <1>7, <2>2 DEF Add
    <2> QED BY <2>1, <2>2
  <1>8. CASE \/ Yield \/ LongOp \/ BadCall
             \/ \E e \in Events : Receive(e)
             \/ \E i \in Lines : Bind(i) \/ Ack(i)
             \/ \E x \in Timers : Arm(x) \/ Disarm(x)
             \/ \E w \in Waiters, x \in Waitables : Remove(w, x)
    BY <1>2, <1>8 DEF Yield, LongOp, BadCall, Receive, Bind, Ack, Arm, Disarm, Schedule,
                      Remove, threadVars
  <1> QED BY <1>3, <1>4, <1>5, <1>6, <1>7, <1>8, ExitAnswers, ReleaseAnswers DEF User, TimerCall

LEMMA KernelAnswers ==
    ASSUME ListInv, Kernel \/ Timer \/ Device, NEW t \in Threads, state[t] = "Blocked"
    PROVE  Answered(t)
  <1>0. TypeOK /\ ThreadLists
    BY DEF ListInv
  <1>1. CASE Quiet /\ UNCHANGED state
    BY <1>1, LeftAlone DEF Quiet
  <1>2. CASE Stay \/ Nothing \/ Served \/ LongDone \/ Timer
    BY <1>1, <1>2 DEF Stay, Nothing, Served, LongDone, Timer, TimerInterrupt, threadVars
  <1>3. CASE Switch \/ IdleExit
    <2>1. wrote' = {}
      BY <1>3 DEF Switch, IdleExit, Quiet
    <2>2. /\ ready \in Seq(Threads) /\ state \in [Threads -> ThreadState] /\ cur \in Threads
          /\ Distinct(ready) /\ t \notin Members(ready)
      BY <1>0, ListTypes DEF ThreadLists, ReadyAreRunnable
    <2>3. \A q \in Seq(Threads) : q # <<>> /\ t \notin Members(q) => Head(q) # t
      <3> SUFFICES ASSUME NEW q \in Seq(Threads), q # <<>>, t \notin Members(q)
                   PROVE  Head(q) # t
        OBVIOUS
      <3>1. 1 \in 1..Len(q) /\ Head(q) = q[1]
        OBVIOUS
      <3> QED BY <3>1, MembersOf
    <2>4. CASE Switch /\ state[cur] = "Running"
      <3> DEFINE q == Append(ready, cur)
                 st == [state EXCEPT ![cur] = "Runnable"]
      <3>1. q # <<>> /\ state' = [st EXCEPT ![Head(q)] = "Running"]
        BY <2>4 DEF Switch, ready_push
      <3>2. q \in Seq(Threads) /\ t \notin Members(q)
        BY <2>2, <2>4, AppendMembers
      <3>3. st[t] = "Blocked" /\ st \in [Threads -> ThreadState]
        BY <2>2, <2>4 DEF ThreadState
      <3> HIDE DEF q, st
      <3>4. Head(q) # t
        BY <2>3, <3>1, <3>2
      <3>5. state'[t] = "Blocked"
        BY <3>1, <3>3, <3>4
      <3> QED BY <2>1, <3>5, LeftAlone
    <2>5. CASE (Switch /\ state[cur] # "Running") \/ IdleExit
      <3>1. ready # <<>> /\ state' = [state EXCEPT ![Head(ready)] = "Running"]
        BY <2>5 DEF Switch, IdleExit
      <3>2. state'[t] = "Blocked"
        BY <2>2, <2>3, <3>1
      <3> QED BY <2>1, <3>2, LeftAlone
    <2> QED BY <1>3, <2>4, <2>5
  <1>4. CASE \E x \in Timers : FireTimer(x)
    BY <1>4, NotifyAnswers DEF FireTimer, Waitables
  <1>5. CASE Device
    BY <1>5, NotifyAnswers DEF Device, ExternalIrq, Waitables
  <1> QED BY <1>2, <1>3, <1>4, <1>5 DEF Kernel

(* WokenWithTheAnswer, for every instance: whoever wakes a parked thread    *)
(* (Exit, a signal, an expiry, an interrupt, an Add, a release) answers it  *)
(* in that step, once, and with what it was parked for.                     *)
THEOREM WakesAnswer == Spec => WokenWithTheAnswer
  <1>1. ASSUME ListInv, Next, vars' # vars, NEW t \in Threads PROVE Answered(t)
    <2>1. CASE state[t] # "Blocked"
      BY <2>1 DEF Answered
    <2>2. CASE state[t] = "Blocked"
      BY <1>1, <2>2, CallsAnswer, KernelAnswers DEF Next, Halted
    <2> QED BY <2>1, <2>2
  <1>2. ListInv /\ [Next]_vars => [\A t \in Threads : Answered(t)]_vars
    BY <1>1
  <1> QED BY <1>2, ListsInvariant, PTL DEF Spec, WokenWithTheAnswer

=============================================================================
