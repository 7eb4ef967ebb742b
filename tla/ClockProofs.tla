----------------------------- MODULE ClockProofs -----------------------------
(***************************************************************************)
(* The types of module Clock and the promises of its deadlines, for every  *)
(* number of Timers, every period, lead and schedule.                      *)
(***************************************************************************)
EXTENDS Clock, TLAPS

LEMMA CappedRange ==
    ASSUME NEW n \in Nat, NEW cap \in Nat
    PROVE  Capped(n, cap) \in 0..cap
  BY DEF Capped

(* A due periodic Timer's next deadline is a time: the count of expiries is *)
(* positive and the deadline only grows, up to the end of time.             *)
LEMMA NextDeadlineIsATime ==
    ASSUME TypeOK, NEW x \in Timers, is_due(x), interval[x] # 0
    PROVE  missed(x) \in Nat /\ NextDeadline(x) \in Times
  <1> USE ClockAssumption
  <1> DEFINE late == now - deadline[x]
  <1>1. deadline[x] \in Nat /\ interval[x] \in Nat \ {0} /\ late \in Nat
    BY DEF TypeOK, Times, is_due
  <1>2. late \div interval[x] \in Nat
    BY <1>1
  <1>3. missed(x) \in Nat
    BY <1>2 DEF missed
  <1>4. missed(x) * interval[x] \in Nat
    <2> DEFINE m == missed(x)  i == interval[x]
    <2> HIDE DEF m, i
    <2>1. m \in Nat /\ i \in Nat
      BY <1>1, <1>3 DEF m, i
    <2> QED BY <2>1 DEF m, i
  <1>5. deadline[x] + missed(x) * interval[x] \in Nat
    BY <1>1, <1>4
  <1> QED BY <1>3, <1>5, CappedRange DEF NextDeadline, Times

(* What reprogram_timer leaves, whatever step it ends: a time that is not   *)
(* past, and later than a deadline only by the lead from now.               *)
LEMMA Reprogrammed ==
    ASSUME TypeOK, reprogram_timer,
           tickAt' \in Times, armed' \in [Timers -> BOOLEAN],
           deadline' \in [Timers -> Times]
    PROVE  /\ cmp' \in Times
           /\ now <= cmp'
           /\ \A d \in Owed(tickAt', armed', deadline') :
                cmp' <= d \/ cmp' <= now + Lead
  <1> USE ClockAssumption
  <1> DEFINE owed == Owed(tickAt', armed', deadline')
  <1>1. owed \subseteq Times
    BY DEF Owed
  <1>2. now \in 0..MaxNow
    BY DEF TypeOK
  <1>3. PICK next \in owed \cup {Never} :
          /\ \A d \in owed : next <= d
          /\ cmp' = IF next = Never \/ next >= now + Lead THEN next ELSE now + Lead
    BY DEF reprogram_timer
  <1>4. next \in Times
    BY <1>1, <1>3 DEF Times
  <1>5. cmp' \in Times /\ now <= cmp'
    BY <1>2, <1>3, <1>4 DEF Times
  <1>6. ASSUME NEW d \in owed
        PROVE  cmp' <= d \/ cmp' <= now + Lead
    <2>1. next <= d /\ d \in Nat /\ next \in Nat
      BY <1>1, <1>3, <1>4 DEF Times
    <2> QED BY <2>1, <1>2, <1>3
  <1> QED BY <1>5, <1>6

(* Every step keeps the types: no sum of a step runs past the end of time.  *)
LEMMA TypeStep ==
    ASSUME TypeOK, [Next]_vars
    PROVE  TypeOK'
  <1> USE ClockAssumption
  <1>1. CASE Pass
    BY <1>1 DEF TypeOK, Pass, slots, Times
  <1>2. ASSUME NEW x \in Timers, NEW after \in Afters, NEW every \in Intervals,
               Arm(x, after, every)
        PROVE  TypeOK'
    <2>1. now + after \in Nat /\ every \in Times
      BY DEF TypeOK, Times
    <2>2. Capped(now + after, Never) \in Times
      BY <2>1, CappedRange DEF Times
    <2>3. /\ armed' \in [Timers -> BOOLEAN] /\ deadline' \in [Timers -> Times]
          /\ interval' \in [Timers -> Times] /\ fires' \in [Timers -> 0..MaxFires]
          /\ since' \in [Timers -> Times] /\ now' \in 0..MaxNow /\ tickAt' \in Times
          /\ called' \in 0..MaxNow /\ prompt' \in BOOLEAN
          /\ reprogram_timer
      BY <1>2, <2>1, <2>2 DEF TypeOK, Arm, Times
    <2> QED BY <2>3, Reprogrammed DEF TypeOK
  <1>3. ASSUME NEW x \in Timers, Disarm(x)
        PROVE  TypeOK'
    <2>1. /\ armed' \in [Timers -> BOOLEAN] /\ deadline' \in [Timers -> Times]
          /\ interval' \in [Timers -> Times] /\ fires' \in [Timers -> 0..MaxFires]
          /\ since' \in [Timers -> Times] /\ now' \in 0..MaxNow /\ tickAt' \in Times
          /\ called' \in 0..MaxNow /\ prompt' \in BOOLEAN
          /\ reprogram_timer
      BY <1>3 DEF TypeOK, Disarm, Times
    <2> QED BY <2>1, Reprogrammed DEF TypeOK
  <1>4. ASSUME NEW x \in Timers, Take(x)
        PROVE  TypeOK'
    BY <1>4 DEF TypeOK, Take, Times
  <1>5. CASE Interrupt
    <2>1. tickAt' \in Times
      BY <1>5 DEF TypeOK, Interrupt, Times
    <2>2. armed' \in [Timers -> BOOLEAN]
      BY <1>5 DEF TypeOK, Interrupt
    <2>3. deadline' \in [Timers -> Times]
      <3>1. ASSUME NEW x \in Timers
            PROVE  (IF is_due(x) /\ interval[x] # 0
                      THEN NextDeadline(x) ELSE deadline[x]) \in Times
        BY NextDeadlineIsATime DEF TypeOK
      <3> QED BY <1>5, <3>1 DEF Interrupt
    <2>4. fires' \in [Timers -> 0..MaxFires]
      <3>1. ASSUME NEW x \in Timers, is_due(x), interval[x] # 0
            PROVE  Capped(fires[x] + missed(x), MaxFires) \in 0..MaxFires
        <4>1. fires[x] \in Nat /\ missed(x) \in Nat
          BY <3>1, NextDeadlineIsATime DEF TypeOK
        <4>2. fires[x] + missed(x) \in Nat /\ MaxFires \in Nat
          BY <4>1
        <4> QED BY <4>2, CappedRange
      <3>2. ASSUME NEW x \in Timers
            PROVE  Capped(fires[x] + 1, MaxFires) \in 0..MaxFires
        <4>1. fires[x] + 1 \in Nat /\ MaxFires \in Nat
          BY DEF TypeOK
        <4> QED BY <4>1, CappedRange
      <3> QED BY <1>5, <3>1, <3>2 DEF Interrupt, TypeOK
    <2>5. prompt' \in BOOLEAN /\ now' \in 0..MaxNow /\ called' \in 0..MaxNow /\ interval' \in [Timers -> Times]
          /\ since' \in [Timers -> Times] /\ reprogram_timer
      BY <1>5 DEF TypeOK, Interrupt
    <2> QED BY <2>1, <2>2, <2>3, <2>4, <2>5, Reprogrammed DEF TypeOK
  <1>6. CASE UNCHANGED vars
    BY <1>6 DEF TypeOK, vars
  <1> QED BY <1>1, <1>2, <1>3, <1>4, <1>5, <1>6 DEF Next

LEMMA TypeInit == Init => TypeOK
  BY ClockAssumption DEF Init, TypeOK, Times

(* TypeOK for every instance: whatever a process arms, at whatever time,    *)
(* timer_arm, TimerSlot.fire and reprogram_timer compute times no later     *)
(* than UInt64.max and counts that fit a word.                              *)
THEOREM TypeCorrect == Spec => []TypeOK
  BY TypeInit, TypeStep, PTL DEF Spec

(***************************************************************************)
(* How late a deadline is served.  LateByTheLead follows from where the    *)
(* comparator stands: the clock of a prompt machine never passes it, and   *)
(* it stands within the lead of every deadline, or of the last call.  An   *)
(* interrupt keeps the latter because it serves whatever is due, so what   *)
(* is owed after it lies ahead of the clock.                               *)
(***************************************************************************)
Ahead == prompt => now <= cmp
Covered ==
    \A d \in Owed(tickAt, armed, deadline) : cmp <= d + Lead \/ cmp <= called + Lead

LEMMA Distributes ==
    ASSUME NEW k \in Nat, NEW m \in Nat, NEW i \in Nat
    PROVE  /\ k * i \in Nat /\ m * i \in Nat
           /\ (k + m) * i = k * i + m * i
  BY SMT

LEMMA LessThanNextMultiple ==
    ASSUME NEW n \in Nat, NEW i \in Nat \ {0}
    PROVE  n < ((n \div i) + 1) * i
  BY SMT

(* TimerSlot.fire moves a deadline past the clock.                          *)
LEMMA NextDeadlineIsAhead ==
    ASSUME TypeOK, NEW x \in Timers, is_due(x), interval[x] # 0
    PROVE  now < NextDeadline(x)
  <1> USE ClockAssumption
  <1> DEFINE late == now - deadline[x]
  <1>1. /\ deadline[x] \in Nat /\ interval[x] \in Nat \ {0} /\ late \in Nat
        /\ now \in 0..MaxNow
    BY DEF TypeOK, Times, is_due
  <1>2. late < missed(x) * interval[x]
    BY <1>1, LessThanNextMultiple DEF missed
  <1>3. missed(x) * interval[x] \in Nat
    <2>1. missed(x) \in Nat
      BY NextDeadlineIsATime
    <2> QED BY <1>1, <2>1, Distributes
  <1> QED BY <1>1, <1>2, <1>3 DEF NextDeadline, Capped

(* Whatever is owed after an interrupt lies ahead of the clock.             *)
LEMMA InterruptServesAll ==
    ASSUME TypeOK, Interrupt, NEW d \in Owed(tickAt', armed', deadline')
    PROVE  d \in Nat /\ now < d
  <1> USE ClockAssumption
  <1>1. now \in 0..MaxNow /\ tickAt \in Times
    BY DEF TypeOK
  <1>2. CASE Period # 0 /\ d = tickAt'
    BY <1>1, <1>2 DEF Interrupt, Times
  <1>3. ASSUME NEW x \in Timers, armed'[x], d = deadline'[x]
        PROVE  d \in Nat /\ now < d
    <2>1. armed[x] /\ ~(is_due(x) /\ interval[x] = 0)
      BY <1>3 DEF Interrupt
    <2>2. CASE is_due(x)
      <3>1. interval[x] # 0 /\ d = NextDeadline(x)
        BY <1>3, <2>1, <2>2 DEF Interrupt
      <3> QED BY <2>2, <3>1, NextDeadlineIsAhead, NextDeadlineIsATime DEF Times
    <2>3. CASE ~is_due(x)
      <3>1. d = deadline[x] /\ deadline[x] \in Times
        BY <1>3, <2>3 DEF Interrupt, TypeOK
      <3> QED BY <1>1, <2>1, <2>3, <3>1 DEF is_due, Times
    <2> QED BY <2>2, <2>3
  <1> QED BY <1>2, <1>3 DEF Owed

LEMMA CoveredStep ==
    ASSUME TypeOK, Ahead, Covered, [Next]_vars
    PROVE  Ahead' /\ Covered'
  <1> USE ClockAssumption
  <1>1. TypeOK'
    BY TypeStep
  <1>2. /\ tickAt' \in Times /\ armed' \in [Timers -> BOOLEAN]
        /\ deadline' \in [Timers -> Times] /\ cmp' \in Nat /\ now \in Nat
        /\ Owed(tickAt', armed', deadline') \subseteq Nat
    BY <1>1 DEF TypeOK, Times, Owed
  <1>3. CASE Pass
    <2>1. Ahead'
      BY <1>3 DEF Pass, Unserved, Ahead, TypeOK, Times
    <2>2. Covered'
      BY <1>3 DEF Pass, slots, Covered, Owed
    <2> QED BY <2>1, <2>2
  <1>4. CASE reprogram_timer /\ now' = now /\ called' = now /\ prompt' = prompt
    <2>1. Ahead'
      BY <1>2, <1>4, Reprogrammed DEF Ahead
    <2>2. ASSUME NEW d \in Owed(tickAt', armed', deadline')
          PROVE  cmp' <= d + Lead \/ cmp' <= called' + Lead
      <3>1. d \in Nat /\ (cmp' <= d \/ cmp' <= now + Lead)
        BY <1>2, <1>4, Reprogrammed
      <3> QED BY <1>2, <1>4, <3>1
    <2> QED BY <2>1, <2>2 DEF Covered
  <1>5. CASE Interrupt
    <2>1. reprogram_timer /\ now' = now /\ prompt' = prompt
      BY <1>5 DEF Interrupt
    <2>2. Ahead'
      BY <1>2, <2>1, Reprogrammed DEF Ahead
    <2>3. ASSUME NEW d \in Owed(tickAt', armed', deadline')
          PROVE  cmp' <= d + Lead
      <3>1. d \in Nat /\ now < d
        BY <1>5, InterruptServesAll
      <3>2. cmp' <= d \/ cmp' <= now + Lead
        BY <1>2, <2>1, Reprogrammed
      <3> QED BY <1>2, <3>1, <3>2
    <2> QED BY <2>2, <2>3 DEF Covered
  <1>6. CASE UNCHANGED <<prompt, now, tickAt, cmp, armed, deadline, called>>
    BY <1>6 DEF Ahead, Covered, Owed
  <1> QED
    BY <1>3, <1>4, <1>5, <1>6 DEF Next, Arm, Disarm, Take, vars

(* LateByTheLead for every instance: on a machine that takes its interrupts *)
(* at once, reprogram_timer and on_timer_interrupt serve each deadline      *)
(* within TIMER_MIN_LEAD_NS of it, or of the last timer_arm or timer_disarm.*)
THEOREM DeadlinesKept == Spec => []LateByTheLead
  <1> USE ClockAssumption
  <1>1. Init => Ahead /\ Covered
    BY DEF Init, Ahead, Covered, Owed
  <1>2. ASSUME TypeOK, Ahead, Covered
        PROVE  LateByTheLead
    <2> SUFFICES ASSUME prompt, NEW d \in Owed(tickAt, armed, deadline)
                 PROVE  now <= d + Lead \/ now <= called + Lead
      BY DEF LateByTheLead
    <2>1. d \in Nat /\ now \in Nat /\ cmp \in Nat /\ called \in Nat
      BY <1>2 DEF Owed, TypeOK, Times
    <2>2. now <= cmp /\ (cmp <= d + Lead \/ cmp <= called + Lead)
      BY <1>2 DEF Ahead, Covered
    <2> QED BY <2>1, <2>2
  <1> QED BY <1>1, <1>2, CoveredStep, TypeCorrect, PTL DEF Spec

(***************************************************************************)
(* The count of a periodic Timer.  FiresExact speaks of remainders and     *)
(* quotients; the step is easier to take with the number of expiries       *)
(* itself, so the induction carries the grid point.                        *)
(***************************************************************************)
LEMMA Divides ==
    ASSUME NEW k \in Nat, NEW i \in Nat \ {0}
    PROVE  (k * i) \div i = k /\ (k * i) % i = 0
  BY SMT

OnGrid(x, k) ==
    /\ deadline[x] = since[x] + k * interval[x]
    /\ fires[x] = Capped(k, MaxFires)

Grid ==
    \A x \in Timers :
        /\ interval[x] = 0 =>
             fires[x] <= 1 /\ (armed[x] => fires[x] = 0)
        /\ (interval[x] # 0 /\ deadline[x] < Never) => \E k \in Nat : OnGrid(x, k)

LEMMA GridGivesFiresExact ==
    ASSUME TypeOK, Grid
    PROVE  FiresExact
  <1> SUFFICES ASSUME NEW x \in Timers, interval[x] # 0, deadline[x] < Never
               PROVE  /\ (deadline[x] - since[x]) % interval[x] = 0
                      /\ fires[x] = Capped((deadline[x] - since[x]) \div interval[x],
                                           MaxFires)
    BY DEF FiresExact, Grid
  <1>1. PICK k \in Nat : OnGrid(x, k)
    BY DEF Grid
  <1>2. interval[x] \in Nat \ {0} /\ since[x] \in Nat
    BY ClockAssumption DEF TypeOK, Times
  <1>3. k * interval[x] \in Nat
    BY <1>2, Distributes
  <1>4. deadline[x] - since[x] = k * interval[x]
    BY <1>1, <1>2, <1>3 DEF OnGrid
  <1> QED BY <1>1, <1>2, <1>4, Divides DEF OnGrid

(* The interrupt moves a due Timer as many grid points on as it counts.     *)
LEMMA InterruptKeepsGrid ==
    ASSUME TypeOK, Grid, Interrupt, NEW x \in Timers,
           interval'[x] # 0, deadline'[x] < Never
    PROVE  \E k \in Nat : OnGrid(x, k)'
  <1> USE ClockAssumption
  <1>1. interval'[x] = interval[x] /\ since'[x] = since[x]
    BY DEF Interrupt
  <1>2. CASE is_due(x)
    <2> DEFINE m == missed(x)
    <2>1. deadline'[x] = NextDeadline(x)
      BY <1>1, <1>2 DEF Interrupt
    <2>2. fires'[x] = Capped(fires[x] + m, MaxFires)
      BY <1>1, <1>2 DEF Interrupt
    <2>3. /\ m \in Nat /\ interval[x] \in Nat /\ deadline[x] \in Nat
          /\ since[x] \in Nat
      BY <1>1, <1>2, NextDeadlineIsATime DEF TypeOK, Times
    <2>4. deadline[x] < Never
      BY <1>2 DEF is_due, TypeOK, Times
    <2>5. PICK k \in Nat : OnGrid(x, k)
      BY <1>1, <2>4 DEF Grid
    <2>6. /\ k * interval[x] \in Nat /\ m * interval[x] \in Nat
          /\ (k + m) * interval[x] = k * interval[x] + m * interval[x]
      BY <2>3, Distributes
    <2>7. deadline'[x] = deadline[x] + m * interval[x]
      BY <2>1, <2>3, <2>6 DEF NextDeadline, Capped
    <2>8. deadline'[x] = since[x] + (k + m) * interval[x]
      BY <2>3, <2>5, <2>6, <2>7 DEF OnGrid
    <2>9. fires'[x] = Capped(k + m, MaxFires)
      BY <2>2, <2>3, <2>5 DEF OnGrid, Capped
    <2>10. k + m \in Nat
      BY <2>3
    <2> QED BY <1>1, <2>8, <2>9, <2>10 DEF OnGrid
  <1>3. CASE ~is_due(x)
    <2>1. deadline'[x] = deadline[x] /\ fires'[x] = fires[x]
      BY <1>3 DEF Interrupt
    <2>2. PICK k \in Nat : OnGrid(x, k)
      BY <1>1, <2>1 DEF Grid
    <2> QED BY <1>1, <2>1, <2>2 DEF OnGrid
  <1> QED BY <1>2, <1>3

LEMMA GridStep ==
    ASSUME TypeOK, Grid, [Next]_vars
    PROVE  Grid'
  <1> USE ClockAssumption
  <1>1. ASSUME NEW x \in Timers, UNCHANGED <<armed[x], deadline[x], interval[x],
                                             fires[x], since[x]>>
        PROVE  /\ interval'[x] = 0 =>
                    fires'[x] <= 1 /\ (armed'[x] => fires'[x] = 0)
               /\ (interval'[x] # 0 /\ deadline'[x] < Never) =>
                    \E k \in Nat : OnGrid(x, k)'
    BY <1>1 DEF Grid, OnGrid
  <1>2. ASSUME NEW x \in Timers, fires'[x] = 0, since'[x] = deadline'[x],
               deadline'[x] \in Nat, interval'[x] \in Nat
        PROVE  \E k \in Nat : OnGrid(x, k)'
    <2>1. deadline'[x] = since'[x] + 0 * interval'[x] /\ fires'[x] = Capped(0, MaxFires)
      BY <1>2 DEF Capped
    <2> QED BY <2>1 DEF OnGrid
  <1>3. TypeOK'
    BY TypeStep
  <1>4. \A x \in Timers : deadline'[x] \in Nat /\ interval'[x] \in Nat
    BY <1>3 DEF TypeOK, Times
  <1>5. CASE Pass \/ UNCHANGED vars
    BY <1>1, <1>5 DEF Pass, vars, slots, Grid
  <1>6. CASE Interrupt
    <2> SUFFICES ASSUME NEW x \in Timers, interval'[x] = 0
                 PROVE  fires'[x] <= 1 /\ (armed'[x] => fires'[x] = 0)
      BY <1>6, InterruptKeepsGrid DEF Grid
    <2>1. interval[x] = 0 /\ fires[x] \in Nat
      BY <1>6 DEF Interrupt, TypeOK
    <2>2. fires[x] <= 1 /\ (armed[x] => fires[x] = 0)
      BY <2>1 DEF Grid
    <2>3. CASE is_due(x)
      <3>1. fires'[x] = Capped(fires[x] + 1, MaxFires) /\ ~armed'[x]
        BY <1>6, <2>1, <2>3 DEF Interrupt
      <3>2. fires[x] = 0
        BY <2>2, <2>3 DEF is_due
      <3> QED BY <3>1, <3>2 DEF Capped
    <2>4. CASE ~is_due(x)
      BY <1>6, <2>1, <2>2, <2>4 DEF Interrupt
    <2> QED BY <2>3, <2>4
  <1>7. ASSUME NEW y \in Timers, NEW after \in Afters, NEW every \in Intervals,
               Arm(y, after, every)
        PROVE  Grid'
    <2> SUFFICES ASSUME NEW x \in Timers
                 PROVE  /\ interval'[x] = 0 =>
                             fires'[x] <= 1 /\ (armed'[x] => fires'[x] = 0)
                        /\ (interval'[x] # 0 /\ deadline'[x] < Never) =>
                             \E k \in Nat : OnGrid(x, k)'
      BY DEF Grid
    <2>1. CASE x = y
      <3>1. fires'[x] = 0 /\ since'[x] = deadline'[x]
        BY <1>7, <2>1 DEF Arm, TypeOK
      <3> QED BY <3>1, <1>2, <1>4
    <2>2. CASE x # y
      BY <1>1, <1>7, <2>2 DEF Arm, TypeOK
    <2> QED BY <2>1, <2>2
  <1>8. ASSUME NEW y \in Timers, Disarm(y) \/ Take(y)
        PROVE  Grid'
    <2> SUFFICES ASSUME NEW x \in Timers
                 PROVE  /\ interval'[x] = 0 =>
                             fires'[x] <= 1 /\ (armed'[x] => fires'[x] = 0)
                        /\ (interval'[x] # 0 /\ deadline'[x] < Never) =>
                             \E k \in Nat : OnGrid(x, k)'
      BY DEF Grid
    <2>1. CASE x = y
      <3>1. fires'[x] = 0 /\ since'[x] = deadline'[x]
        BY <1>8, <2>1 DEF Disarm, Take, TypeOK
      <3> QED BY <3>1, <1>2, <1>4
    <2>2. CASE x # y
      BY <1>1, <1>8, <2>2 DEF Disarm, Take, TypeOK
    <2> QED BY <2>1, <2>2
  <1> QED BY <1>5, <1>6, <1>7, <1>8 DEF Next

(* FiresExact for every instance: TimerSlot.fire neither loses an expiry    *)
(* nor invents one nor drifts off the grid, for every interval and however  *)
(* late each interrupt is.                                                  *)
THEOREM CountsAreExact == Spec => []FiresExact
  <1>1. Init => Grid
    BY ClockAssumption DEF Init, Grid
  <1> QED BY <1>1, GridStep, GridGivesFiresExact, TypeCorrect, PTL DEF Spec

=============================================================================
