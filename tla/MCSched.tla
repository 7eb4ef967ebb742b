------------------------------- MODULE MCSched -------------------------------
(***************************************************************************)
(* A small machine for module Sched: one Waiter. One behaviour is about    *)
(* one side of it, so that each side can be as large as it needs to be:    *)
(* three threads and a Timer, two threads with an Event and two exit       *)
(* codes, with an interrupt line and a Timer, or with two Timers that may  *)
(* come due together.                                                      *)
(*                                                                         *)
(* What a focus leaves out is only ever brought in by a call of a thread,  *)
(* so Within refuses calls, and no step the fairness is about.             *)
(***************************************************************************)
EXTENDS Sched

CONSTANTS c, e, i
VARIABLE focus

TwoThreads == \A t \in Threads : t > 2 => state[t] = "Free"
OneCode == \A t \in Threads : code[t] \in {c, NoOne}
Unused(x) == att[x] = NoOne /\ ~level[x] /\ x \notin bound
             /\ (x \in Timers => armed[x] = "off")
OneShot(x) == armed[x] # "every"
Standing(x) == att[x] # NoOne => ~att[x].oneshot
Uses(set) == \A x \in Waitables \ set : Unused(x)

Within ==
    \/ focus = "threads" /\ OneCode /\ Uses({<<"timer", 1>>})
                          /\ Standing(<<"timer", 1>>)
    \/ focus = "events" /\ TwoThreads /\ Uses({e})
    \/ focus = "lines" /\ TwoThreads /\ OneCode /\ Uses({i, <<"timer", 1>>})
                        /\ OneShot(<<"timer", 1>>)
    \/ focus = "timers" /\ TwoThreads /\ OneCode /\ Uses(Timers)
                         /\ OneShot(<<"timer", 2>>) /\ Standing(<<"timer", 2>>)

FocusInit == Init /\ focus \in {"threads", "events", "lines", "timers"}

FocusSpec ==
    /\ FocusInit
    /\ [][Next /\ UNCHANGED focus /\ Within']_<<vars, focus>>
    /\ Fairness

=============================================================================
