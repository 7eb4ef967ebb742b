------------------------------ MODULE C3Smoke ------------------------------
(***************************************************************************)
(* The ESP32-C3 smoke (tools/sos_runner.py --board esp32c3).  The emulated *)
(* machine never exits on its own, so a boot is judged by its console      *)
(* alone: the harness polls it until the kernel's halt line is in what it  *)
(* has read, drains what is still in flight for a moment, and kills the    *)
(* emulator whatever happened.                                             *)
(*                                                                         *)
(* The console is a sequence of pieces the guest may write one at a time;  *)
(* the halt marker is two of them, so that a read can end inside it.  Time *)
(* is counted in polls: a select that finds nothing takes one.             *)
(***************************************************************************)
EXTENDS Naturals, Sequences, SequencesExt

CONSTANTS
    Smokes,     \* the cases in order: sets of what each may turn out to be
    Hosts,      \* which machine-local tools the host may have
    Deadline,   \* C3_TIMEOUT_S, in polls
    Drain,      \* the drain after the halt line, in polls
    Lag         \* polls a prompt guest may let pass between two writes

TimesAssumption == Deadline \in Nat /\ Drain \in Nat /\ Lag \in Nat

\* What a case may turn out to be: whether its packages build, whether its
\* flash image begins with the direct-boot magic and fits the flash, what its
\* guest writes, whether the emulator dies afterwards, and whether the guest is
\* prompt.
SmokeKinds == [builds : BOOLEAN, magic : BOOLEAN, fits : BOOLEAN,
               writes : Seq({"line", "SOS-C3:", "halt", "pass", "fail"}),
               dies : BOOLEAN, prompt : BOOLEAN]

\* The tools of the host, and whether blade and the kernel build there.
HostKinds == [tools : BOOLEAN, kernel : BOOLEAN]

VARIABLES
    host,     \* the host
    smokes,   \* what the cases turned out to be
    case,     \* the case being run
    pc,       \* where the harness is
    now,      \* polls since the boot
    due,      \* when a prompt guest writes again, at the latest
    drained,  \* when the drain ends
    sent,     \* pieces the guest has written
    pipe,     \* pieces written and not read
    out,      \* pieces read
    alive,    \* the emulator is running
    halted,   \* the halt line was seen
    failed,   \* cases that failed
    exit      \* the exit status

guest == <<due, sent, alive>>
vars == <<host, smokes, case, pc, now, drained, pipe, out, halted, failed, exit, guest>>

Here == smokes[case]
Booting == {"poll", "drain"}

Init ==
    /\ host \in Hosts
    /\ smokes \in [DOMAIN Smokes -> UNION {Smokes[i] : i \in DOMAIN Smokes}]
    /\ \A i \in DOMAIN Smokes : smokes[i] \in Smokes[i]
    /\ case = 1 /\ pc = "tools" /\ now = 0 /\ drained = 0
    /\ due = 0 /\ sent = 0 /\ alive = FALSE
    /\ pipe = <<>> /\ out = <<>> /\ halted = FALSE
    /\ failed = 0 /\ exit = "none"

-----------------------------------------------------------------------------
\* c3_tool, then blade, the native objects and the one kernel of all the
\* cases; a ToolError of these is nobody's to catch.
Prepare ==
    /\ pc = "tools"
    /\ IF host.tools /\ host.kernel THEN pc' = "build" /\ UNCHANGED exit
         ELSE pc' = "over" /\ exit' = IF host.tools THEN "traceback" ELSE "2"
    /\ UNCHANGED <<host, smokes, case, now, drained, pipe, out, halted, failed, guest>>

\* The packages, the stubs and the flash image; a ToolError fails the case.
Build ==
    /\ pc = "build"
    /\ IF Here.builds /\ Here.magic /\ Here.fits
         THEN /\ pc' = "poll" /\ UNCHANGED failed
              /\ now' = 0 /\ due' = Lag /\ sent' = 0 /\ alive' = TRUE
              /\ pipe' = <<>> /\ out' = <<>> /\ halted' = FALSE
         ELSE /\ pc' = "next" /\ failed' = failed + 1
              /\ UNCHANGED <<now, pipe, out, halted, guest>>
    /\ UNCHANGED <<host, smokes, case, drained, exit>>

-----------------------------------------------------------------------------
(***************************************************************************)
(* The guest.                                                              *)
(***************************************************************************)
Unsent == sent < Len(Here.writes)

GuestWrites ==
    /\ pc \in Booting /\ alive /\ Unsent
    /\ sent' = sent + 1
    /\ pipe' = Append(pipe, Here.writes[sent + 1])
    /\ due' = now + Lag
    /\ UNCHANGED <<host, smokes, case, pc, now, drained, out, halted, failed, exit, alive>>

GuestDies ==
    /\ pc \in Booting /\ alive /\ Here.dies /\ ~Unsent
    /\ alive' = FALSE
    /\ UNCHANGED <<host, smokes, case, pc, now, drained, pipe, out, halted, failed, exit,
                   due, sent>>

-----------------------------------------------------------------------------
(***************************************************************************)
(* c3_run.                                                                 *)
(***************************************************************************)
\* select says the console can be read: there is something, or its end.
Ready == pipe # <<>> \/ ~alive

\* A poll passes; a prompt guest that has something to write is not late.
Tick ==
    /\ Here.prompt /\ alive /\ Unsent => now < due
    /\ now' = now + 1

\* Bug: the marker is looked for in the last read alone.
InChunk(seen, chunk) ==
    \E i \in 1..(Len(chunk) - 1) : SubSeq(chunk, i, i + 1) = <<"SOS-C3:", "halt">>

\* The marker is looked for in everything read so far.
HasHalt(seen, chunk) ==
    LET all == seen \o chunk
    IN  \E i \in 1..(Len(all) - 1) : SubSeq(all, i, i + 1) = <<"SOS-C3:", "halt">>

\* A read takes all there is; an empty one is the end.
Read(then) ==
    /\ Ready
    /\ out' = out \o pipe /\ pipe' = <<>>
    /\ then
    /\ \/ UNCHANGED now
       \/ Tick

PollRead ==
    /\ pc = "poll" /\ now < Deadline
    /\ Read(IF pipe = <<>> THEN pc' = "kill" /\ UNCHANGED drained
            ELSE IF HasHalt(out, pipe) THEN pc' = "drain" /\ drained' = now + Drain
            ELSE UNCHANGED <<pc, drained>>)
    /\ UNCHANGED <<host, smokes, case, halted, failed, exit, guest>>

\* Nothing to read for a whole poll.
PollIdle ==
    /\ pc = "poll" /\ now < Deadline /\ ~Ready
    /\ Tick
    /\ UNCHANGED <<host, smokes, case, pc, drained, pipe, out, halted, failed, exit, guest>>

TimeOut ==
    /\ pc = "poll" /\ now >= Deadline
    /\ pc' = "kill"
    /\ UNCHANGED <<host, smokes, case, now, drained, pipe, out, halted, failed, exit, guest>>

DrainRead ==
    /\ pc = "drain" /\ now < drained
    /\ Read(IF pipe = <<>> THEN pc' = "kill" /\ halted' = TRUE
            ELSE UNCHANGED <<pc, halted>>)
    /\ UNCHANGED <<host, smokes, case, drained, failed, exit, guest>>

DrainIdle ==
    /\ pc = "drain" /\ now < drained /\ ~Ready
    /\ Tick
    /\ UNCHANGED <<host, smokes, case, pc, drained, pipe, out, halted, failed, exit, guest>>

DrainDone ==
    /\ pc = "drain" /\ now >= drained
    /\ pc' = "kill" /\ halted' = TRUE
    /\ UNCHANGED <<host, smokes, case, now, drained, pipe, out, failed, exit, guest>>

\* finally: kill and wait, whatever happened.
Kill ==
    /\ pc = "kill"
    /\ alive' = FALSE
    /\ pc' = "judge"
    /\ UNCHANGED <<host, smokes, case, now, drained, pipe, out, halted, failed, exit, due, sent>>

-----------------------------------------------------------------------------
\* The expected lines of every case are in the console, in order.
Expected == <<"line", "SOS-C3:", "halt", "pass">>
FoundIn(console) ==
    \E at \in [DOMAIN Expected -> DOMAIN console] :
        \A i, j \in DOMAIN Expected :
            console[at[i]] = Expected[i] /\ (i < j => at[i] < at[j])

Judge ==
    /\ pc = "judge"
    /\ failed' = IF halted /\ FoundIn(out) THEN failed ELSE failed + 1
    /\ pc' = "next"
    /\ UNCHANGED <<host, smokes, case, now, drained, pipe, out, halted, exit, guest>>

NextCase ==
    /\ pc = "next"
    /\ IF case < Len(Smokes)
         THEN case' = case + 1 /\ pc' = "build" /\ UNCHANGED exit
         ELSE /\ pc' = "over" /\ UNCHANGED case
              /\ exit' = IF failed = 0 THEN "0" ELSE "1"
    /\ UNCHANGED <<host, smokes, now, drained, pipe, out, halted, failed, guest>>

Harness ==
    \/ Prepare \/ Build \/ PollRead \/ PollIdle \/ TimeOut \/ DrainRead \/ DrainIdle
    \/ DrainDone \/ Kill \/ Judge \/ NextCase

Over == pc = "over" /\ UNCHANGED vars

Next == Harness \/ GuestWrites \/ GuestDies \/ Over

Spec == Init /\ [][Next]_vars

\* The harness is a running thread; a guest that is due to write does.
FairSpec == Spec /\ WF_vars(Harness) /\ WF_vars(GuestWrites)

-----------------------------------------------------------------------------
TypeOK ==
    /\ host \in HostKinds
    /\ smokes \in [DOMAIN Smokes -> SmokeKinds]
    /\ case \in DOMAIN Smokes
    /\ pc \in {"tools", "build", "poll", "drain", "kill", "judge", "next", "over"}
    /\ now \in Nat /\ due \in Nat /\ drained \in Nat /\ now <= Deadline + Drain
    /\ sent \in Nat /\ (pc \in Booting => sent <= Len(Here.writes))
    /\ pipe \in Seq({"line", "SOS-C3:", "halt", "pass", "fail"})
    /\ out \in Seq({"line", "SOS-C3:", "halt", "pass", "fail"})
    /\ alive \in BOOLEAN /\ halted \in BOOLEAN
    /\ failed \in 0..Len(Smokes) /\ exit \in {"none", "0", "1", "2", "traceback"}

\* A case that deserves to pass: it builds, and a prompt guest writes all that
\* is expected early enough before the deadline.
Deserves(s) ==
    /\ s.builds /\ s.magic /\ s.fits /\ s.prompt
    /\ s.writes = Expected /\ Len(Expected) * Lag < Deadline

\* A case that must not pass.
Hopeless(s) == ~(s.builds /\ s.magic /\ s.fits) \/ s.writes # Expected

\* The exit status is the tree's: a smoke of deserving cases is green however
\* the reads cut the halt line in two and however late its tail comes within
\* the drain, and a smoke with a case that did not build, did not halt or
\* halted with a failure is not (c3_run, and the loop over c3_cases).
SmokeVerdict ==
    /\ exit = "0" => \A i \in DOMAIN Smokes : ~Hopeless(smokes[i])
    /\ exit = "1" => \E i \in DOMAIN Smokes : ~Deserves(smokes[i])

\* The machine never exits on its own, so nothing may outlive its boot: while a
\* case is judged, and after it, no emulator is left running (c3_run: QEMU is
\* killed either way).
NoEmulatorLeft == alive => pc \in Booting \cup {"kill"}

\* The smoke ends, whatever its guests do or fail to do: the drain polls,
\* "because the deadline above is no longer being consulted".
SmokeEnds == <>(exit # "none")

=============================================================================
