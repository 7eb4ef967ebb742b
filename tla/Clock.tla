-------------------------------- MODULE Clock --------------------------------
(***************************************************************************)
(* One hardware comparator and its two customers: the scheduler tick and   *)
(* the Timer objects.  Every deadline the kernel owes is kept here, the    *)
(* comparator is programmed with the earliest of them but never less than  *)
(* TIMER_MIN_LEAD ahead of the clock, and an interrupt serves whatever is  *)
(* due out of one reading of the clock.                                    *)
(*                                                                         *)
(* The machine may be late (interrupts are masked in the kernel, so the    *)
(* clock runs on past the comparator) or as prompt as it can be: which of  *)
(* the two, prompt says once and for all.  Never stands for UInt64.max,    *)
(* the end of time, and MaxFires for UInt.max, the most a fire count       *)
(* holds.                                                                  *)
(***************************************************************************)
EXTENDS Integers

CONSTANTS
    NTimers,
    Period,         \* TICK_PERIOD_NS, 0 for a kernel without a tick
    Lead,           \* TIMER_MIN_LEAD_NS
    Never,          \* NEVER_NS
    MaxFires,       \* UInt.max
    Afters,         \* the delays a process arms a Timer with
    Intervals,      \* the intervals, 0 for a one-shot
    MaxNow          \* bound: how far the clock runs

ASSUME ClockAssumption ==
    /\ NTimers \in Nat /\ Period \in Nat /\ Lead \in Nat /\ Never \in Nat
    /\ MaxFires \in Nat \ {0} /\ MaxNow \in Nat
    /\ Afters \subseteq 0..Never /\ Intervals \subseteq 0..Never
    /\ MaxNow + Lead < Never /\ MaxNow + Period < Never

VARIABLES
    prompt,     \* TRUE: an interrupt is taken as soon as it is raised
    now,        \* timer_now_ns
    tickAt,     \* NEXT_TICK_NS
    cmp,        \* the comparator
    armed, deadline, interval, fires,   \* the fields of a TimerSlot
    since,      \* history: a Timer's deadline when its count was last zero
    called      \* history: the clock when a call last changed the schedule

vars == <<prompt, now, tickAt, cmp, armed, deadline, interval, fires, since, called>>
slots == <<armed, deadline, interval, fires, since>>

Timers == 1..NTimers
Times == 0..Never

\* A mutant of Capped: the sum runs over.
Overflows(n, cap) == n

\* saturating_add, and the sum timer_arm and fire use for a deadline.
Capped(n, cap) == IF n > cap THEN cap ELSE n

\* What the kernel owes, as the step leaves it.
Owed(tick, on, when) ==
    {when[x] : x \in {y \in Timers : on[y]}} \cup (IF Period = 0 THEN {} ELSE {tick})

\* A mutant of reprogram_timer: an earlier deadline does not move it.
LeavesTheComparator == UNCHANGED cmp

(* reprogram_timer: the earliest deadline of the whole schedule, floored.   *)
reprogram_timer ==
    \E next \in Owed(tickAt', armed', deadline') \cup {Never} :
        /\ \A d \in Owed(tickAt', armed', deadline') : next <= d
        /\ cmp' = IF next = Never \/ next >= now + Lead THEN next ELSE now + Lead

\* start_tick has run when Period # 0.
Init ==
    /\ prompt \in BOOLEAN
    /\ now = 0
    /\ tickAt = Period
    /\ cmp = IF Period = 0 THEN Never ELSE IF Period < Lead THEN Lead ELSE Period
    /\ armed = [x \in Timers |-> FALSE]
    /\ deadline = [x \in Timers |-> 0]
    /\ interval = [x \in Timers |-> 0]
    /\ fires = [x \in Timers |-> 0]
    /\ since = [x \in Timers |-> 0]
    /\ called = 0

\* On a prompt machine nothing else happens once the line is raised.
Unserved == prompt => now < cmp

Pass ==
    /\ now < MaxNow
    /\ Unserved
    /\ now' = now + 1
    /\ UNCHANGED <<prompt, tickAt, cmp, slots, called>>

(* timer_arm: the relative delay becomes a deadline, saturating at the end  *)
(* of time; the old schedule and its count are thrown away.                 *)
Arm(x, after, every) ==
    LET when == Capped(now + after, Never)
    IN  /\ Unserved
        /\ armed' = [armed EXCEPT ![x] = TRUE]
        /\ deadline' = [deadline EXCEPT ![x] = when]
        /\ interval' = [interval EXCEPT ![x] = every]
        /\ fires' = [fires EXCEPT ![x] = 0]
        /\ since' = [since EXCEPT ![x] = when]
        /\ called' = now
        /\ UNCHANGED <<prompt, now, tickAt>>
        /\ reprogram_timer

\* timer_disarm; free_object and end_process, which free a Timer and reprogram,
\* leave the same.
Disarm(x) ==
    /\ Unserved
    /\ armed' = [armed EXCEPT ![x] = FALSE]
    /\ deadline' = [deadline EXCEPT ![x] = 0]
    /\ interval' = [interval EXCEPT ![x] = 0]
    /\ fires' = [fires EXCEPT ![x] = 0]
    /\ since' = [since EXCEPT ![x] = 0]
    /\ called' = now
    /\ UNCHANGED <<prompt, now, tickAt>>
    /\ reprogram_timer

\* A wait's delivery hands the count over and empties it.
Take(x) ==
    /\ fires[x] # 0
    /\ fires' = [fires EXCEPT ![x] = 0]
    /\ since' = [since EXCEPT ![x] = deadline[x]]
    /\ UNCHANGED <<prompt, now, tickAt, cmp, armed, deadline, interval, called>>

is_due(x) == armed[x] /\ deadline[x] <= now

\* The expiries a late fire coalesces, by division.
missed(x) == ((now - deadline[x]) \div interval[x]) + 1

\* A mutant of NextDeadline: measured from the clock.
Drifts(x) == Capped(now + interval[x], Never)

\* The next deadline is measured from this one and saturates.
NextDeadline(x) == Capped(deadline[x] + missed(x) * interval[x], Never)

(* on_timer_interrupt: the tick is measured from now, then TimerSlot.fire   *)
(* runs for every Timer that is due, then the comparator is reprogrammed.   *)
Interrupt ==
    LET periodic == {x \in Timers : is_due(x) /\ interval[x] # 0}
        oneshot == {x \in Timers : is_due(x) /\ interval[x] = 0}
    IN  /\ now >= cmp
        /\ tickAt' = IF Period # 0 /\ now >= tickAt THEN now + Period ELSE tickAt
        /\ armed' = [x \in Timers |-> armed[x] /\ x \notin oneshot]
        /\ deadline' = [x \in Timers |->
                          IF x \in periodic THEN NextDeadline(x) ELSE deadline[x]]
        /\ fires' = [x \in Timers |->
                       CASE x \in periodic -> Capped(fires[x] + missed(x), MaxFires)
                         [] x \in oneshot -> Capped(fires[x] + 1, MaxFires)
                         [] OTHER -> fires[x]]
        /\ UNCHANGED <<prompt, now, interval, since, called>>
        /\ reprogram_timer

Next ==
    \/ Pass
    \/ Interrupt
    \/ \E x \in Timers : Disarm(x) \/ Take(x)
    \/ \E x \in Timers, after \in Afters, every \in Intervals : Arm(x, after, every)

Spec == Init /\ [][Next]_vars

-----------------------------------------------------------------------------
(* Times are times and counts are counts: nothing runs past UInt64.max.     *)
TypeOK ==
    /\ prompt \in BOOLEAN
    /\ now \in 0..MaxNow
    /\ tickAt \in Times
    /\ cmp \in Times
    /\ armed \in [Timers -> BOOLEAN]
    /\ deadline \in [Timers -> Times]
    /\ interval \in [Timers -> Times]
    /\ fires \in [Timers -> 0..MaxFires]
    /\ since \in [Timers -> Times]
    /\ called \in 0..MaxNow

(* Drift-free and lossless: a periodic Timer's deadline stays on the grid   *)
(* it was armed on, and the count it reports is exactly the expiries since  *)
(* it last reported, however late the kernel was and however they coalesced *)
(* (up to the most a word holds).  A one-shot reports one.                  *)
FiresExact ==
    \A x \in Timers :
        /\ interval[x] = 0 =>
             fires[x] <= 1 /\ (armed[x] => fires[x] = 0)
        /\ (interval[x] # 0 /\ deadline[x] < Never) =>
             /\ (deadline[x] - since[x]) % interval[x] = 0
             /\ fires[x] = Capped((deadline[x] - since[x]) \div interval[x], MaxFires)

(* A machine that takes its interrupts at once serves every deadline within *)
(* the lead, however Timers come due together, coalesce or move behind the  *)
(* tick; only calls of timer_arm and timer_disarm less than the lead ago    *)
(* can have put it off further.                                             *)
LateByTheLead ==
    prompt => \A d \in Owed(tickAt, armed, deadline) :
                  now <= d + Lead \/ now <= called + Lead

(* time.saw:334-336, "THE TICK IS INVIOLATE ... A Timer deadline can only   *)
(* ever move the hardware EARLIER than the tick, never later": the          *)
(* comparator never stands further behind the tick than the lead it is      *)
(* floored by, though each interrupt is taken at once.                      *)
TickIsInviolate == prompt /\ Period # 0 => cmp <= tickAt + Lead

=============================================================================
