-------------------------------- MODULE Sched --------------------------------
(***************************************************************************)
(* The scheduler of one process: its threads, the ready queue, joins, one  *)
(* or more Waiters with the Events, Timers and Interrupts attached to      *)
(* them, the tick, the idle loop and the preemption points of a long       *)
(* operation.                                                              *)
(*                                                                         *)
(* The kernel runs on one core with interrupts masked, so a system call is *)
(* one step from the trap (pc = "user") to the user-return boundary        *)
(* (pc = "pick", where pick_next decides).  Interrupts are served only in  *)
(* user mode, in the idle loop and at the preemption points of a long      *)
(* operation (pc = "long"); serving the hardware timer is the one handler  *)
(* with several wakes in it, so it is taken timer by timer (pc = "expire").*)
(*                                                                         *)
(* Time is left to module Clock: here an armed Timer may come due at any   *)
(* moment.  An Event's word and a Timer's fire count are represented by    *)
(* whether they are zero, the only thing readiness depends on.             *)
(***************************************************************************)
EXTENDS Naturals, Sequences, FiniteSets

CONSTANTS
    NThreads,       \* slots of the thread slab
    NTimers,        \* slots of the timer slab
    Events, Lines,  \* the Events and the interrupt lines of the machine
    Waiters,
    Codes,          \* exit codes
    SliceTicks,     \* SLICE_TICKS
    TickOn,         \* whether start_tick was called
    NoOne           \* model value: no attachment, no answer owed

ASSUME SchedAssumption ==
    /\ NThreads \in Nat \ {0}
    /\ NTimers \in Nat
    /\ SliceTicks \in Nat \ {0}
    /\ TickOn \in BOOLEAN
    /\ NoOne \notin [waiter : Waiters, oneshot : BOOLEAN]

VARIABLES
    state,      \* THREADS[t].state
    code,       \* THREADS[t].exit_code
    joiners,    \* THREADS[t].joiners, the list read from its head
    ready,      \* READY_HEAD .. READY_TAIL
    cur,        \* CURRENT_THREAD
    resched,    \* NEED_RESCHED
    slice,      \* SLICE_LEFT
    level,      \* word # 0, pending, fires # 0: is the waitable ready?
    armed,      \* TIMERS[x]: "off", "once" (one-shot) or "every" (periodic)
    bound,      \* the lines an Interrupt object is bound to
    att,        \* the attachment of a waitable, or NoOne
    attached,   \* WAITERS[w].attached, newest first
    blocked,    \* WAITERS[w].blocked, latest first
    alive,      \* the Waiters with a handle left
    wrote,      \* the results the last step wrote for Join and Wait callers
    told,       \* history: the lines whose present fire was reported
    due,        \* the Timers expire_timers has yet to fire
    back,       \* where the interrupted context goes on
    pc          \* "user", "pick", "long", "expire", "idle", or the end

threadVars == <<state, code, joiners, ready, cur, resched, slice>>
waitVars == <<level, armed, bound, att, attached, blocked, alive, told>>
vars == <<threadVars, waitVars, wrote, due, back, pc>>

Threads == 1..NThreads
Timers == {<<"timer", i>> : i \in 1..NTimers}
Waitables == Events \cup Lines \cup Timers
Attachment == [waiter : Waiters, oneshot : BOOLEAN]
ThreadState == {"Free", "Created", "Runnable", "Running", "Blocked", "Exited"}
Ended == {"exited", "deadlock", "fault"}
Answer == Codes \cup Waitables \cup {NoOne, "Revoked"}

Init ==
    /\ state = [t \in Threads |-> IF t = 1 THEN "Running" ELSE "Free"]
    /\ code = [t \in Threads |-> NoOne]
    /\ joiners = [t \in Threads |-> <<>>]
    /\ ready = <<>>
    /\ cur = 1
    /\ resched = FALSE
    /\ slice = SliceTicks
    /\ level = [x \in Waitables |-> FALSE]
    /\ armed = [x \in Timers |-> "off"]
    /\ bound = {}
    /\ att = [x \in Waitables |-> NoOne]
    /\ attached = [w \in Waiters |-> <<>>]
    /\ blocked = [w \in Waiters |-> <<>>]
    /\ alive = Waiters
    /\ wrote = {}
    /\ told = {}
    /\ due = {}
    /\ back = "user"
    /\ pc = "user"

\* A step that answers no caller of Join or Wait.
Quiet == wrote' = {}

(***************************************************************************)
(* The wait machinery.                                                     *)
(***************************************************************************)
Members(s) == {s[i] : i \in DOMAIN s}

\* detach_attachment's walk: x is unlinked where it is found.
Without(s, x) ==
    LET k == CHOOSE j \in DOMAIN s : s[j] = x
    IN  IF x \in Members(s)
          THEN SubSeq(s, 1, k - 1) \o SubSeq(s, k + 1, Len(s)) ELSE s

\* A mutant of ready_push: to the head.
PushesInFront(q, t) == <<t>> \o q

\* ready_push: to the tail.
ready_push(q, t) == Append(q, t)

(* waitable_consume: a delivery empties an Event's word and a Timer's       *)
(* count; an Interrupt stays pending until it is acked.                     *)
waitable_consume(x) == x \in Lines

(* deliver_attachment: what handing x's record to thread t does to the      *)
(* waitable and to its attachment.                                          *)
deliver_attachment(x, t) ==
    /\ wrote' = {<<t, x>>}
    /\ level' = [level EXCEPT ![x] = waitable_consume(x)]
    /\ told' = told \cup ({x} \cap Lines)
    /\ IF att[x].oneshot
         THEN /\ att' = [att EXCEPT ![x] = NoOne]
              /\ attached' = [attached EXCEPT ![att[x].waiter] = Without(@, x)]
         ELSE UNCHANGED <<att, attached>>

(* wake_one_waiter: the thread that parked last leaves the blocked list,    *)
(* takes the record and goes to the tail of the ready queue.                *)
wake_one_waiter(w, x) ==
    LET t == Head(blocked[w])
    IN  /\ blocked[w] # <<>>
        /\ blocked' = [blocked EXCEPT ![w] = Tail(@)]
        /\ deliver_attachment(x, t)
        /\ state' = [state EXCEPT ![t] = "Runnable"]
        /\ ready' = ready_push(ready, t)

(* notify_ready: x has just become ready.  With nobody parked on a Waiter   *)
(* it is attached to, the level is left standing for a later Wait.          *)
notify_ready(x) ==
    \/ /\ att[x] # NoOne
       /\ wake_one_waiter(att[x].waiter, x)
    \/ /\ att[x] # NoOne => blocked[att[x].waiter] = <<>>
       /\ level' = [level EXCEPT ![x] = TRUE]
       /\ told' = told \ {x}
       /\ Quiet
       /\ UNCHANGED <<state, ready, blocked, att, attached>>

notifyVars == <<state, ready, level, told, blocked, att, attached>>
otherThreadVars == <<code, joiners, cur, resched, slice>>
svcVars == <<due, back>>

(***************************************************************************)
(* System calls of the running thread, each one trap: they return to the   *)
(* user-return boundary.  A call that does not park is answered at once.   *)
(***************************************************************************)
Syscall == pc = "user" /\ pc' = "pick" /\ UNCHANGED svcVars
Park == /\ state' = [state EXCEPT ![cur] = "Blocked"]
        /\ Quiet
        /\ resched' = TRUE

\* thread_create: the lowest free slot.
ThreadCreate ==
    /\ Syscall
    /\ \E t \in Threads :
         /\ state[t] = "Free" /\ \A u \in 1..(t - 1) : state[u] # "Free"
         /\ state' = [state EXCEPT ![t] = "Created"]
    /\ Quiet
    /\ UNCHANGED <<code, joiners, ready, cur, resched, slice, waitVars>>

Start(t) ==
    /\ Syscall
    /\ state[t] = "Created"
    /\ state' = [state EXCEPT ![t] = "Runnable"]
    /\ ready' = ready_push(ready, t)
    /\ Quiet
    /\ UNCHANGED <<code, joiners, cur, resched, slice, waitVars>>

Join(t) ==
    /\ Syscall
    /\ t # cur
    /\ \/ /\ state[t] = "Exited"
          /\ wrote' = {<<cur, code[t]>>}
          /\ UNCHANGED <<state, joiners, resched>>
       \/ /\ state[t] \notin {"Exited", "Free"}
          /\ joiners' = [joiners EXCEPT ![t] = <<cur>> \o @]
          /\ Park
    /\ UNCHANGED <<code, ready, cur, slice, waitVars>>

(* exit_thread: every joiner takes the code; the last live thread (one that *)
(* was created and never started counts) ends the process.                  *)
ExitAs(c, after, results) ==
    LET woken == Members(joiners[cur])
    IN  /\ pc = "user"
        /\ code' = [code EXCEPT ![cur] = c]
        /\ state' = [t \in Threads |-> CASE t = cur -> "Exited"
                                         [] t \in woken -> "Runnable"
                                         [] OTHER -> state[t]]
        /\ wrote' = results
        /\ ready' = ready \o joiners[cur]
        /\ joiners' = after
        /\ resched' = TRUE
        /\ pc' = IF \A t \in Threads : state'[t] \in {"Free", "Exited"}
                   THEN "exited" ELSE "pick"
        /\ UNCHANGED <<cur, slice, waitVars, svcVars>>

\* Mutants of Exit: the joiner list is not cleared, the joiners not answered.
KeepsJoiners(c) == ExitAs(c, joiners, Members(joiners[cur]) \X {c})

AnswersNobody(c) == ExitAs(c, [joiners EXCEPT ![cur] = <<>>], {})

Exit(c) == ExitAs(c, [joiners EXCEPT ![cur] = <<>>], Members(joiners[cur]) \X {c})

Yield ==
    /\ Syscall
    /\ resched' = TRUE
    /\ Quiet
    /\ UNCHANGED <<state, code, joiners, ready, cur, slice, waitVars>>

\* Signal, with bits or with none: a word that is still zero notifies nobody.
Signal(e, bits) ==
    /\ Syscall
    /\ IF bits \/ level[e]
         THEN notify_ready(e)
         ELSE Quiet /\ UNCHANGED notifyVars
    /\ UNCHANGED <<otherThreadVars, armed, bound, alive>>

Receive(e) ==
    /\ Syscall
    /\ level' = [level EXCEPT ![e] = FALSE]
    /\ Quiet
    /\ UNCHANGED <<threadVars, armed, bound, att, attached, blocked, alive, told>>

\* interrupt_bind: the line is unmasked with nothing pending.
Bind(i) ==
    /\ Syscall
    /\ i \notin bound
    /\ bound' = bound \cup {i}
    /\ Quiet
    /\ UNCHANGED <<threadVars, level, armed, att, attached, blocked, alive, told>>

\* Ack: the fire is over and the line, masked since, may fire again.
Ack(i) ==
    /\ Syscall
    /\ level[i]
    /\ level' = [level EXCEPT ![i] = FALSE]
    /\ told' = told \ {i}
    /\ Quiet
    /\ UNCHANGED <<threadVars, armed, bound, att, attached, blocked, alive>>

\* timer_arm replaces the schedule and clears the count; timer_disarm too.
Schedule(x, kind) ==
    /\ Syscall
    /\ armed' = [armed EXCEPT ![x] = kind]
    /\ level' = [level EXCEPT ![x] = FALSE]
    /\ Quiet
    /\ UNCHANGED <<threadVars, bound, att, attached, blocked, alive, told>>

Arm(x) == \E kind \in {"once", "every"} : Schedule(x, kind)
Disarm(x) == Schedule(x, "off")

\* A mutant of Add: the level is not looked at.
AttachesQuietly(w, x, once) ==
    /\ Syscall
    /\ w \in alive /\ att[x] = NoOne
    /\ x \in Lines => x \in bound
    /\ att' = [att EXCEPT ![x] = [waiter |-> w, oneshot |-> once]]
    /\ attached' = [attached EXCEPT ![w] = <<x>> \o @]
    /\ Quiet
    /\ UNCHANGED <<threadVars, level, armed, bound, blocked, alive, told>>

(* waiter_add: a waitable that is already ready wakes one parked thread.    *)
(* The new attachment is read by the wake, so the two are written together. *)
Add(w, x, once) ==
    LET t == Head(blocked[w])
        wakes == level[x] /\ blocked[w] # <<>>
    IN  /\ Syscall
        /\ w \in alive /\ att[x] = NoOne
        /\ x \in Lines => x \in bound
        /\ IF wakes /\ once
             THEN UNCHANGED <<att, attached>>
             ELSE /\ att' = [att EXCEPT ![x] = [waiter |-> w, oneshot |-> once]]
                  /\ attached' = [attached EXCEPT ![w] = <<x>> \o @]
        /\ IF wakes
             THEN /\ blocked' = [blocked EXCEPT ![w] = Tail(@)]
                  /\ wrote' = {<<t, x>>}
                  /\ level' = [level EXCEPT ![x] = waitable_consume(x)]
                  /\ told' = told \cup ({x} \cap Lines)
                  /\ state' = [state EXCEPT ![t] = "Runnable"]
                  /\ ready' = ready_push(ready, t)
             ELSE /\ Quiet
                  /\ UNCHANGED <<blocked, level, told, state, ready>>
        /\ UNCHANGED <<otherThreadVars, armed, bound, alive>>

Remove(w, x) ==
    /\ Syscall
    /\ w \in alive /\ x \in Members(attached[w])
    /\ att' = [att EXCEPT ![x] = NoOne]
    /\ attached' = [attached EXCEPT ![w] = Without(@, x)]
    /\ Quiet
    /\ UNCHANGED <<threadVars, level, armed, bound, blocked, alive, told>>

(* waiter_wait: the first ready attachment of the list is delivered at      *)
(* once; with none ready the thread parks, answered by whoever wakes it.    *)
Wait(w) ==
    /\ Syscall
    /\ w \in alive
    /\ \/ /\ \E k \in DOMAIN attached[w] :
               /\ level[attached[w][k]]
               /\ \A j \in 1..(k - 1) : ~level[attached[w][j]]
               /\ deliver_attachment(attached[w][k], cur)
          /\ UNCHANGED <<state, resched, blocked>>
       \/ /\ \A x \in Waitables :
               att[x] # NoOne /\ level[x] => att[x].waiter # w
          /\ blocked' = [blocked EXCEPT ![w] = <<cur>> \o @]
          /\ Park
          /\ UNCHANGED <<level, told, att, attached>>
    /\ UNCHANGED <<code, joiners, ready, cur, slice, armed, bound, alive>>

(* RELEASE of a Waiter's last handle: free_object detaches everything it    *)
(* watches, then revoke_blocked answers everybody parked on it.             *)
ReleaseWaiter(w) ==
    LET woken == Members(blocked[w])
    IN  /\ Syscall
        /\ w \in alive
        /\ alive' = alive \ {w}
        /\ att' = [x \in Waitables |-> IF x \in Members(attached[w])
                                         THEN NoOne ELSE att[x]]
        /\ attached' = [attached EXCEPT ![w] = <<>>]
        /\ blocked' = [blocked EXCEPT ![w] = <<>>]
        /\ state' = [t \in Threads |-> IF t \in woken THEN "Runnable" ELSE state[t]]
        /\ wrote' = woken \X {"Revoked"}
        /\ ready' = ready \o blocked[w]
        /\ UNCHANGED <<otherThreadVars, level, armed, bound, told>>

(* A call the caller could have checked ends the process (fault_process):   *)
(* starting a started thread, acking what did not fire, attaching twice,    *)
(* removing what is not attached; one is always at hand, joining itself.    *)
BadCall ==
    /\ pc = "user"
    /\ pc' = "fault"
    /\ UNCHANGED <<threadVars, waitVars, svcVars>>
    /\ Quiet

\* A slab donation or an image load: long_zero or long_copy, page by page.
LongOp ==
    /\ pc = "user"
    /\ pc' = "long"
    /\ UNCHANGED <<threadVars, waitVars, svcVars>>
    /\ Quiet

LongDone ==
    /\ pc = "long"
    /\ pc' = "pick"
    /\ Quiet
    /\ UNCHANGED <<threadVars, waitVars, svcVars>>

(***************************************************************************)
(* Interrupts: taken in user mode, polled for in the idle loop and at the  *)
(* preemption points.  The idle loop leaves as soon as a thread is ready.  *)
(***************************************************************************)
Interruptible == pc \in {"user", "long"} \/ (pc = "idle" /\ ready = <<>>)
Resume(p) == IF p = "user" THEN "pick" ELSE p

\* A bound line that is not masked fires: masked, pending, notified.
ExternalIrq(i) ==
    /\ Interruptible
    /\ i \in bound /\ ~level[i]
    /\ notify_ready(i)
    /\ pc' = Resume(pc)
    /\ UNCHANGED <<otherThreadVars, armed, bound, alive, svcVars>>

\* A mutant of on_timer_tick: a slice that ran out is not refilled.
RunsDown(tick) ==
    IF tick
      THEN /\ slice' = slice - 1
           /\ resched' = (resched \/ slice = 1)
      ELSE UNCHANGED <<slice, resched>>

(* on_timer_interrupt: the tick first, then the Timers that have come due.  *)
on_timer_tick(tick) ==
    LET left == slice - 1
    IN  IF tick
          THEN /\ slice' = IF left = 0 THEN SliceTicks ELSE left
               /\ resched' = (resched \/ left = 0)
          ELSE UNCHANGED <<slice, resched>>

TimerInterrupt(tick, came) ==
    /\ Interruptible
    /\ tick => TickOn
    /\ tick \/ came # {}
    /\ on_timer_tick(tick)
    /\ due' = came
    /\ back' = pc
    /\ pc' = "expire"
    /\ UNCHANGED <<state, code, joiners, ready, cur, waitVars>>
    /\ Quiet

\* A mutant of FireTimer: the fire is counted and nobody is told.
FiresUnheard(x) ==
    /\ pc = "expire"
    /\ x \in due /\ \A y \in due : x[2] <= y[2]
    /\ due' = due \ {x}
    /\ armed' = [armed EXCEPT ![x] = IF @ = "once" THEN "off" ELSE @]
    /\ level' = [level EXCEPT ![x] = TRUE]
    /\ Quiet
    /\ UNCHANGED <<threadVars, bound, att, attached, blocked, alive, told, back, pc>>

\* fire_timer, in slot order; a one-shot disarms itself.
FireTimer(x) ==
    /\ pc = "expire"
    /\ x \in due /\ \A y \in due : x[2] <= y[2]
    /\ due' = due \ {x}
    /\ armed' = [armed EXCEPT ![x] = IF @ = "once" THEN "off" ELSE @]
    /\ notify_ready(x)
    /\ UNCHANGED <<otherThreadVars, bound, alive, back, pc>>

Served ==
    /\ pc = "expire"
    /\ due = {}
    /\ pc' = Resume(back)
    /\ UNCHANGED <<threadVars, waitVars, svcVars>>
    /\ Quiet

(***************************************************************************)
(* pick_next, the one switch point.                                        *)
(***************************************************************************)
run_thread(t) ==
    /\ cur' = t
    /\ slice' = SliceTicks
    /\ pc' = "user"

has_external_wake_source ==
    bound # {} \/ \E x \in Timers : armed[x] # "off"

stays_running == state[cur] = "Running" /\ ~resched

\* The interrupted thread goes on.
Stay ==
    /\ pc = "pick"
    /\ stays_running
    /\ pc' = "user"
    /\ UNCHANGED <<threadVars, waitVars, svcVars>>
    /\ Quiet

(* An outgoing thread that can still run goes to the tail; the head runs.   *)
Switch ==
    LET q == IF state[cur] = "Running" THEN ready_push(ready, cur) ELSE ready
        st == IF state[cur] = "Running"
                THEN [state EXCEPT ![cur] = "Runnable"] ELSE state
    IN  /\ pc = "pick"
        /\ ~stays_running
        /\ q # <<>>
        /\ ready' = Tail(q)
        /\ state' = [st EXCEPT ![Head(q)] = "Running"]
        /\ resched' = FALSE
        /\ run_thread(Head(q))
        /\ UNCHANGED <<code, joiners, waitVars, svcVars>>
        /\ Quiet

\* Nothing runnable: wait for the outside, or report the deadlock.
Nothing ==
    /\ pc = "pick"
    /\ state[cur] # "Running" /\ ready = <<>>
    /\ resched' = FALSE
    /\ pc' = IF has_external_wake_source THEN "idle" ELSE "deadlock"
    /\ UNCHANGED <<state, code, joiners, ready, cur, slice, waitVars, svcVars>>
    /\ Quiet

\* idle_until_runnable returns and its caller pops the queue.
IdleExit ==
    /\ pc = "idle"
    /\ ready # <<>>
    /\ ready' = Tail(ready)
    /\ state' = [state EXCEPT ![Head(ready)] = "Running"]
    /\ run_thread(Head(ready))
    /\ UNCHANGED <<code, joiners, resched, waitVars, svcVars>>
    /\ Quiet

Kernel == Stay \/ Switch \/ Nothing \/ IdleExit \/ Served \/ LongDone
          \/ \E x \in Timers : FireTimer(x)

\* The calls that program the comparator anew.
TimerCall == \E x \in Timers : Arm(x) \/ Disarm(x)

User ==
    \/ ThreadCreate \/ Yield \/ LongOp \/ BadCall
    \/ \E t \in Threads : Start(t) \/ Join(t)
    \/ \E c \in Codes : Exit(c)
    \/ \E e \in Events : Receive(e) \/ \E bits \in BOOLEAN : Signal(e, bits)
    \/ \E i \in Lines : Bind(i) \/ Ack(i)
    \/ TimerCall
    \/ \E w \in Waiters : Wait(w) \/ ReleaseWaiter(w)
    \/ \E w \in Waiters, x \in Waitables :
         Remove(w, x) \/ \E once \in BOOLEAN : Add(w, x, once)

Due == {x \in Timers : armed[x] # "off"}

Timer == \E tick \in BOOLEAN, came \in SUBSET Due : TimerInterrupt(tick, came)

Device == \E i \in Lines : ExternalIrq(i)

\* The machine stopped: there is one process, and it is root.
Halted == pc \in Ended /\ UNCHANGED vars

Next == Kernel \/ User \/ Timer \/ Device \/ Halted

Spec == Init /\ [][Next]_vars

(* The kernel's own steps happen.  A long operation has a fixed number of   *)
(* pages and serves one line after each.                                    *)
(*                                                                          *)
(* A tick and an armed Timer's deadline are level interrupts of the         *)
(* hardware comparator, so they are taken in the end however often the      *)
(* context in between masks them, provided that it is left alone: every     *)
(* timer call floors it at TIMER_MIN_LEAD_NS from then (reprogram_timer,    *)
(* see module Clock), and calls without end may put the line off for ever.  *)
TakesTick == \E came \in SUBSET Due : TimerInterrupt(TRUE, came)
TakesTimer(x) ==
    \E tick \in BOOLEAN, came \in SUBSET Due : x \in came /\ TimerInterrupt(tick, came)

Fairness ==
    /\ WF_vars(Kernel)
    /\ SF_vars(LongDone)
    /\ \/ []<><<TimerCall>>_vars
       \/ SF_vars(TakesTick) /\ \A x \in Timers : SF_vars(TakesTimer(x))

FairSpec == Spec /\ Fairness

-----------------------------------------------------------------------------
(* The tables hold what they are declared to hold.                          *)
TypeOK ==
    /\ state \in [Threads -> ThreadState]
    /\ code \in [Threads -> Codes \cup {NoOne}]
    /\ joiners \in [Threads -> Seq(Threads)]
    /\ ready \in Seq(Threads)
    /\ cur \in Threads
    /\ resched \in BOOLEAN
    /\ slice \in 1..SliceTicks
    /\ level \in [Waitables -> BOOLEAN]
    /\ armed \in [Timers -> {"off", "once", "every"}]
    /\ bound \subseteq Lines
    /\ att \in [Waitables -> Attachment \cup {NoOne}]
    /\ attached \in [Waiters -> Seq(Waitables)]
    /\ blocked \in [Waiters -> Seq(Threads)]
    /\ alive \subseteq Waiters
    /\ wrote \subseteq Threads \X Answer
    /\ told \subseteq Lines
    /\ due \subseteq Timers
    /\ back \in {"user", "long", "idle"}
    /\ pc \in {"user", "pick", "long", "expire", "idle"} \cup Ended

OnReady(t) == {k \in DOMAIN ready : ready[k] = t}
OnJoiners(t) == {p \in Threads \X Threads :
                   p[2] \in DOMAIN joiners[p[1]] /\ joiners[p[1]][p[2]] = t}
OnBlocked(t) == {p \in Waiters \X Threads :
                   p[2] \in DOMAIN blocked[p[1]] /\ blocked[p[1]][p[2]] = t}

(* A thread has one link field and is on at most one list: the ready queue  *)
(* holds the Runnable threads, once each, and a Blocked thread is on one    *)
(* joiner list or on one blocked list.  In user mode the current thread is  *)
(* the Running one.                                                         *)
OneList ==
    /\ \A t \in Threads :
         /\ Cardinality(OnReady(t)) = IF state[t] = "Runnable" THEN 1 ELSE 0
         /\ Cardinality(OnJoiners(t)) + Cardinality(OnBlocked(t))
              = IF state[t] = "Blocked" THEN 1 ELSE 0
         /\ state[t] = "Running" => t = cur
    /\ pc \in {"user", "long"} => state[cur] = "Running"

(* The level-triggered guarantee: a thread is never parked on a Waiter one  *)
(* of whose attached waitables is ready, whatever the order of signal,      *)
(* attach, expiry and wait.  A pending Interrupt stays ready until it is    *)
(* acked; there the guarantee is that somebody was told of this fire.       *)
NoLostWakeup ==
    \A x \in Waitables :
        (att[x] # NoOne /\ level[x]) =>
            \/ blocked[att[x].waiter] = <<>>
            \/ x \in told

(* The list a Waiter scans and the back pointer a waitable notifies through *)
(* agree, and a Waiter without a handle watches nothing.                    *)
AttachmentsAgree ==
    \A w \in Waiters :
        /\ Members(attached[w]) = {x \in Waitables : att[x] # NoOne /\ att[x].waiter = w}
        /\ Cardinality(Members(attached[w])) = Len(attached[w])
        /\ w \notin alive => attached[w] = <<>> /\ blocked[w] = <<>>

(* Nobody waits for a thread that has exited or that does not exist.        *)
NoStrandedJoin ==
    \A t \in Threads : joiners[t] # <<>> => state[t] \notin {"Exited", "Free"}

(* Every list a thread or a waitable can be on agrees with what it says of  *)
(* itself (ready_push, Join, block_current_on, detach).                     *)
ListsAgree == OneList /\ AttachmentsAgree /\ NoStrandedJoin

(* What a step does to a parked thread t: it is left alone, or woken and    *)
(* answered with what it waits for.                                         *)
Answered(t) ==
    LET mine == {p[2] : p \in {q \in wrote' : q[1] = t}}
    IN  state[t] = "Blocked" =>
          IF state'[t] = "Blocked"
            THEN mine = {}
            ELSE /\ Cardinality(mine) = 1
                 /\ \A u \in Threads : t \in Members(joiners[u]) =>
                      state'[u] = "Exited" /\ mine = {code'[u]}
                 /\ \A w \in Waiters : t \in Members(blocked[w]) =>
                      \/ mine = {"Revoked"} /\ w \notin alive'
                      \/ mine \subseteq {x \in Waitables :
                           att[x] \in {NoOne} \cup [waiter : {w}, oneshot : BOOLEAN]}

(* A parked thread is answered once, by the step that wakes it, and with    *)
(* the right thing: a joiner with the code of the thread that exited, a     *)
(* waiter with an attached waitable or with Revoked.                        *)
WokenWithTheAnswer == [][\A t \in Threads : Answered(t)]_vars

(* With the tick on, and unless threads arm and disarm Timers without end,  *)
(* a runnable thread runs, however little the others yield: round robin     *)
(* over a queue that wakes join at the tail.                                *)
RunnableRuns ==
    <>[][~TimerCall]_vars =>
        \A t \in Threads :
            (state[t] = "Runnable") ~> (state[t] = "Running" \/ pc \in Ended)

(* A sleeping process wakes: the machine does not idle for ever while a     *)
(* thread is parked on a Waiter that an armed Timer is attached to.         *)
Sleeping ==
    /\ pc \in {"idle", "expire"}
    /\ \E x \in Timers : armed[x] # "off" /\ att[x] # NoOne
                          /\ blocked[att[x].waiter] # <<>>

SleepEnds == Sleeping ~> (pc \in {"user", "pick"} \cup Ended)

=============================================================================
