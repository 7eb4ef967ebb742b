----------------------------- MODULE Transcript -----------------------------
(***************************************************************************)
(* The verdict on one boot: _check of tools/sos_runner.py with the strip   *)
(* of the kernel's own lines, against a guest whose kernel and process     *)
(* share one serial port.                                                  *)
(*                                                                         *)
(* The process writes byte by byte and the kernel a whole line at a time,  *)
(* between any two of those bytes. The prefix `SOS: ' of a kernel line is  *)
(* one symbol, its text another. The process is thread-preempt's: letters  *)
(* of two workers in any interleaving, then the line that says they are    *)
(* joined.                                                                 *)
(***************************************************************************)
EXTENDS Naturals, Sequences, SequencesExt, FiniteSets

CONSTANTS
    Cases,        \* the cases: [expect, strips, overlapping, clean, status]
    AnyStatus,    \* a case that asserts no exact exit status
    MaxLetters,   \* bound on the letters of the workers
    MaxLines      \* bound on the kernel's lines

VARIABLES
    case,     \* the case under test
    out,      \* the console, as the machine wrote it
    wrote,    \* the process's own bytes, with the banner before them
    lines,    \* how many lines the kernel has put in
    ended,    \* "running", "exit" or "timeout"
    status,   \* the emulator's exit status
    verdict   \* "none", "ok", or the reason of a failure

vars == <<case, out, wrote, lines, ended, status, verdict>>

Banner == "P"
Letters == {"A", "B"}
Joined == "J"
SOS == "SOS: "
Text == "k"
CR == "\r"
LF == "\n"

KernelLines == {<<SOS, Text, LF>>, <<SOS, Text, CR, LF>>}
Statuses == {0, 1, 5}

-----------------------------------------------------------------------------
(* The guest.                                                              *)
Init ==
    /\ case \in Cases
    /\ out = <<Banner>>
    /\ wrote = <<Banner>>
    /\ lines = 0
    /\ ended = "running"
    /\ status = 0
    /\ verdict = "none"

HasJoined == Last(wrote) = Joined

WorkerWrites ==
    /\ ended = "running" /\ ~HasJoined
    /\ Len(wrote) <= MaxLetters
    /\ \E c \in Letters :
          /\ wrote' = Append(wrote, c)
          /\ out' = Append(out, c)
    /\ UNCHANGED <<case, lines, ended, status, verdict>>

RootJoins ==
    /\ ended = "running" /\ ~HasJoined
    /\ wrote' = Append(wrote, Joined)
    /\ out' = Append(out, Joined)
    /\ UNCHANGED <<case, lines, ended, status, verdict>>

\* From inside a trap handler: the line appears whole.
KernelWrites ==
    /\ ended = "running"
    /\ lines < MaxLines
    /\ \E l \in KernelLines : out' = out \o l
    /\ lines' = lines + 1
    /\ UNCHANGED <<case, wrote, ended, status, verdict>>

GuestExits ==
    /\ ended = "running"
    /\ ended' = "exit"
    /\ status' \in Statuses
    /\ UNCHANGED <<case, out, wrote, lines, verdict>>

\* QEMU_TIMEOUT_S passes first: what the guest had written is all there is.
TimesOut ==
    /\ ended = "running"
    /\ ended' = "timeout"
    /\ UNCHANGED <<case, out, wrote, lines, status, verdict>>

-----------------------------------------------------------------------------
(* _strip_kernel_diagnostics: the regular expression                       *)
(*     SOS: [^\r\n]*(?:\r?\n)?                                             *)
LineEnd(s, j) ==
    LET ends == {e \in j..Len(s) : s[e] \in {CR, LF}}
    IN IF ends = {} THEN Len(s) + 1 ELSE CHOOSE e \in ends : \A f \in ends : e <= f

InDiagnostic(s, i) ==
    \E j \in 1..i :
        /\ s[j] = SOS
        /\ LET e == LineEnd(s, j)
               crlf == e < Len(s) /\ s[e] = CR /\ s[e + 1] = LF
           IN \/ i < e
              \/ i = e /\ (s[e] = LF \/ crlf)
              \/ i = e + 1 /\ crlf

StripKernelDiagnostics(s) ==
    LET kept[i \in 0..Len(s)] ==
            IF i = 0 THEN <<>>
            ELSE IF InDiagnostic(s, i) THEN kept[i - 1] ELSE Append(kept[i - 1], s[i])
    IN kept[Len(s)]

\* str.find: the first place at or after `from', or 0.
Find(hay, want, from) ==
    LET at == {p \in from..(Len(hay) - Len(want) + 1) :
                  SubSeq(hay, p, p + Len(want) - 1) = want}
    IN IF at = {} THEN 0 ELSE CHOOSE p \in at : \A q \in at : p <= q

\* Bug: `overlapping' is ignored.
AlwaysPast(c, want) == Len(want)

\* How far the cursor moves on from a match.
Advance(c, want) == IF c.overlapping THEN 1 ELSE Len(want)

\* The cursor after the first n expectations, 0 once one was not found.
Cursor(c, hay) ==
    LET after[n \in 0..Len(c.expect)] ==
            IF n = 0 THEN 1
            ELSE LET want == c.expect[n]
                     at == IF after[n - 1] = 0 THEN 0 ELSE Find(hay, want, after[n - 1])
                 IN IF at = 0 THEN 0 ELSE at + Advance(c, want)
    IN after

\* expect_clean_exit, then expect_status.
ExitAsExpected(c, st) ==
    /\ IF c.clean THEN st = 0 ELSE st /= 0
    /\ c.status \in {AnyStatus, st}

Check ==
    /\ ended /= "running"
    /\ verdict = "none"
    /\ LET hay == IF case.strips THEN StripKernelDiagnostics(out) ELSE out
           after == Cursor(case, hay)
           missed == {n \in 1..Len(case.expect) : after[n] = 0}
           want == case.expect[CHOOSE n \in missed : \A m \in missed : n <= m]
       IN verdict' =
            CASE ended = "timeout" -> "hung"
              [] ended = "exit" /\ missed /= {} ->
                    IF Find(hay, want, 1) /= 0 THEN "out of order" ELSE "missing"
              [] ended = "exit" /\ missed = {} /\ ~ExitAsExpected(case, status) -> "exit"
              [] ended = "exit" /\ missed = {} /\ ExitAsExpected(case, status) -> "ok"
    /\ UNCHANGED <<case, out, wrote, lines, ended, status>>

Next == WorkerWrites \/ RootJoins \/ KernelWrites \/ GuestExits \/ TimesOut \/ Check

Spec == Init /\ [][Next]_vars

-----------------------------------------------------------------------------
TypeOK ==
    /\ case \in Cases
    /\ Len(wrote) <= MaxLetters + 2
    /\ lines \in 0..MaxLines
    /\ ended \in {"running", "exit", "timeout"}
    /\ status \in Statuses
    /\ verdict \in {"none", "ok", "hung", "out of order", "missing", "exit"}

\* Stripping gives back the process's bytes, all of them and in order, wherever
\* the kernel's lines fell among them.
StripIsExact == StripKernelDiagnostics(out) = wrote

\* The reference for the greedy left-to-right search: some choice of places, in
\* order and as far apart as the case demands, shows every expectation.
Shows(c, hay) ==
    \E p \in [1..Len(c.expect) -> 1..Len(hay)] :
        /\ \A n \in 1..Len(c.expect) :
              /\ p[n] + Len(c.expect[n]) - 1 <= Len(hay)
              /\ SubSeq(hay, p[n], p[n] + Len(c.expect[n]) - 1) = c.expect[n]
        /\ \A n \in 1..(Len(c.expect) - 1) :
              p[n + 1] >= p[n] + (IF c.overlapping THEN 1 ELSE Len(c.expect[n]))

\* A boot passes exactly when it ended by itself, what it wrote (the process alone,
\* for a case that strips) shows every expectation in order, and its status is the
\* case's. Neither where the kernel's lines fall nor the greedy search decides it.
VerdictIsRight ==
    verdict /= "none" =>
        (verdict = "ok" <=>
            /\ ended = "exit"
            /\ Shows(case, IF case.strips THEN wrote ELSE out)
            /\ IF case.status = AnyStatus THEN (status = 0) = case.clean
               ELSE status = case.status)

\* How often the processor went from one worker to the other.
Crossings ==
    Cardinality({i \in 1..(Len(wrote) - 1) :
        {wrote[i], wrote[i + 1]} = Letters})

\* thread_preempt passes only a run that shows three preemptions, and any run that
\* shows four and ends well passes.
ThreeCrossingsToPass ==
    verdict /= "none" /\ case.overlapping =>
        /\ verdict = "ok" => Crossings >= 3
        /\ Crossings >= 4 /\ HasJoined /\ ended = "exit" /\ status = 0 => verdict = "ok"

=============================================================================
