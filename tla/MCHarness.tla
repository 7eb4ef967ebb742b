----------------------------- MODULE MCHarness -----------------------------
(***************************************************************************)
(* The stages of the test runner (tools/sos_runner.py) on small instances. *)
(* They share no state: `stage' says which of them a behaviour goes        *)
(* through, and the variables of the others rest.                          *)
(***************************************************************************)
EXTENDS Naturals, Sequences, TLC

CONSTANTS
    Quiet, AnyStatus, MaxLine, MaxMain, MaxLetters, MaxLines,
    Jobs, FDs, Deadline, Drain, Lag,
    BlobLens, BlobOffsets, MAX_MEMORIES, MAX_IOMEMORIES, MAX_HANDLES

VARIABLES
    stage,
    \* QemuRun
    fdtab, at_work, tpc, rfd, wfd, ofd, typed, buf, machine, got, eof, result,
    \* C3Smoke
    host, smokes, smoke, pc, now, due, drained, sent, pipe, out, alive, halted, failed, exit,
    \* Transcript
    case, console, wrote, lines, ended, status, verdict,
    \* SeamScan
    tree, todo, file, word, at, bad,
    \* CaseBoot
    job, phase, rows, blobs, section, minted

-----------------------------------------------------------------------------
\* A case with input, whose guest may stop before it is typed, and a quiet one.
Feed == "driver" :> 2 @@ "silent" :> Quiet
Guests == "driver" :> "faults" @@ "silent" :> "halts"

Qemu == INSTANCE QemuRun WITH Cases <- DOMAIN Feed, Guest <- Guests,
    pc <- at_work, guest <- machine

\* Two cases of the ESP32-C3 smoke, each of which may deserve to pass or go
\* wrong in any of the ways the harness tells apart.
Good == [builds |-> TRUE, magic |-> TRUE, fits |-> TRUE, dies |-> FALSE, prompt |-> TRUE,
         writes |-> <<"line", "SOS-C3:", "halt", "pass">>]

Smokes ==
    {Good, [Good EXCEPT !.builds = FALSE], [Good EXCEPT !.magic = FALSE],
     [Good EXCEPT !.fits = FALSE], [Good EXCEPT !.prompt = FALSE],
     [Good EXCEPT !.dies = TRUE], [Good EXCEPT !.writes = <<>>],
     [Good EXCEPT !.writes = <<"line">>, !.dies = TRUE],
     [Good EXCEPT !.writes = <<"line", "SOS-C3:", "halt", "fail">>],
     [Good EXCEPT !.writes = <<"SOS-C3:", "halt", "pass", "line">>]}

C3 == INSTANCE C3Smoke WITH case <- smoke, Smokes <- <<Smokes, Smokes>>,
    Hosts <- [tools : BOOLEAN, kernel : BOOLEAN]

\* thread_preempt's case, one that wants a pair of letters twice, a fault case
\* that reads the kernel's lines, and one that asserts the failing exit alone.
Matched ==
    {[expect |-> <<<<"P">>, <<"A", "B">>, <<"B", "A">>, <<"A", "B">>, <<"J">>>>,
      strips |-> TRUE, overlapping |-> TRUE, clean |-> TRUE, status |-> AnyStatus],
     [expect |-> <<<<"A", "A">>, <<"A", "A">>>>, strips |-> FALSE, overlapping |-> FALSE,
      clean |-> TRUE, status |-> AnyStatus],
     [expect |-> <<<<"B">>, <<"SOS: ", "k">>, <<"A">>>>, strips |-> FALSE,
      overlapping |-> FALSE, clean |-> FALSE, status |-> 5],
     [expect |-> <<>>, strips |-> FALSE, overlapping |-> FALSE, clean |-> FALSE,
      status |-> AnyStatus]}

Verdict == INSTANCE Transcript WITH Cases <- Matched, out <- console

\* A token whose copies can overlap, one that is not all letters, as m-mode, and
\* one between blanks, as " svc ".
Tokens == <<<<"p", "p">>, <<"p", "-">>, <<" ", "p", " ">>>>

Seam == INSTANCE SeamScan WITH Alpha <- {"p", "x"}, Other <- {"-", " "}, Blank <- {" "},
    ARCH_WORDS <- Tokens

\* The case table itself, and every combination of children, a pool and a device
\* window up to more rows than root's handle table takes.
Made(n, pool, device) ==
    [children |-> [i \in 1..n |-> "child"], pool |-> pool, device |-> device, says |-> 0,
     arches |-> {"riscv32", "arm64", "riscv32-flat"}, tier |-> "any", name |-> "made"]

Table == INSTANCE CaseTable
TableCases == {Table!TEST_CASES[i] : i \in DOMAIN Table!TEST_CASES}
MadeCases == {Made(n, p, d) : n \in {0, 1, 2, 7}, p \in BOOLEAN, d \in BOOLEAN}

Regions == INSTANCE CaseBoot WITH Cases <- TableCases \cup MadeCases

-----------------------------------------------------------------------------
\* A stage a behaviour does not go through rests in one of its initial states.
Init ==
    /\ stage \in {"qemu", "c3", "verdict", "seam", "regions"}
    /\ Qemu!Init
    /\ stage # "c3" =>
         host = [tools |-> TRUE, kernel |-> TRUE] /\ smokes = <<Good, Good>>
    /\ C3!Init
    /\ stage # "verdict" => case = CHOOSE c \in Matched : c.expect = <<>>
    /\ Verdict!Init
    /\ stage # "seam" => tree = [f \in {1, 2} |-> [saw |-> TRUE, line |-> <<>>]]
    /\ Seam!Init
    /\ stage # "regions" => job = [case |-> Made(0, FALSE, FALSE), arch |-> Regions!RISCV32]
    /\ Regions!Init

qemu == <<fdtab, at_work, tpc, rfd, wfd, ofd, typed, buf, machine, got, eof, result>>
c3 == <<host, smokes, smoke, pc, now, due, drained, sent, pipe, out, alive, halted, failed, exit>>
judged == <<case, console, wrote, lines, ended, status, verdict>>
seam == <<tree, todo, file, word, at, bad>>
regions == <<job, phase, rows, blobs, section, minted>>
vars == <<stage, qemu, c3, judged, seam, regions>>

RunsQemu(A) ==
    stage = "qemu" /\ A /\ UNCHANGED <<stage, c3, judged, seam, regions>>
RunsC3(A) ==
    stage = "c3" /\ A /\ UNCHANGED <<stage, qemu, judged, seam, regions>>
ScansSeam ==
    stage = "seam" /\ Seam!Next
        /\ UNCHANGED <<stage, qemu, c3, judged, regions>>

Next ==
    \/ RunsQemu(Qemu!Next)
    \/ RunsC3(C3!Next)
    \/ ScansSeam
    \/ /\ stage = "verdict" /\ Verdict!Next
       /\ UNCHANGED <<stage, qemu, c3, seam, regions>>
    \/ /\ stage = "regions" /\ Regions!Next
       /\ UNCHANGED <<stage, qemu, c3, judged, seam>>

\* The fairness each stage states for itself.
Spec ==
    /\ Init /\ [][Next]_vars
    /\ \A c \in DOMAIN Feed :
         /\ WF_vars(RunsQemu(Qemu!Worker(c)))
         /\ WF_vars(RunsQemu(Qemu!TimeOut(c)))
         /\ WF_vars(RunsQemu(Qemu!Typist(c)))
    /\ WF_vars(RunsC3(C3!Harness)) /\ WF_vars(RunsC3(C3!GuestWrites))
    /\ WF_vars(ScansSeam)

-----------------------------------------------------------------------------
ASSUME StagesAssumption ==
    /\ Qemu!FeedAssumption /\ Qemu!GuestAssumption /\ Qemu!JobsAssumption
    /\ Qemu!FDsAssumption /\ C3!TimesAssumption /\ Seam!SeamAssumption

\* _run_qemu: the console of a boot is its own.  A descriptor number a thread
\* still has to use stands for its own end of its own pipe, however often numbers
\* are reused; a guest reads the bytes typed for it, in order, and no end of input
\* before the last; every open descriptor has a thread that will close it.
ConsoleIsItsOwn == Qemu!ConsoleIsItsOwn

\* _run_qemu and c3_run: every boot returns, every typist ends, every descriptor
\* comes back and the smoke ends, whatever the guests do or stop doing.
EveryStageEnds ==
    /\ stage = "qemu" => Qemu!EverythingReturns
    /\ stage = "c3" => C3!SmokeEnds

\* c3_run: a smoke is green when all its cases deserve it and not green when one
\* cannot, wherever the reads cut the halt line; no emulator outlives its boot.
SmokeIsTruth == C3!TypeOK /\ C3!SmokeVerdict /\ C3!NoEmulatorLeft

\* _check: the greedy search passes exactly the consoles that some placement of
\* the expectations shows, with the status the case asks for, among the process's
\* own bytes (_strip_kernel_diagnostics); thread_preempt, with `overlapping',
\* passes only three crossings, and any four.
TranscriptIsJudged ==
    /\ Verdict!TypeOK /\ Verdict!StripIsExact
    /\ Verdict!VerdictIsRight /\ Verdict!ThreeCrossingsToPass

\* _check_arch_free ends, reports nothing but leaks, and every leak of a token that
\* is a single word (MCSeam is about the one between blanks).
ReportsEveryWord == stage = "seam" => Seam!ReportsEveryWord

\* _region_rows, _stitch_regions, mint_boot_regions, dump_regions: the
\* capabilities minted are the rows the case asked for, under the tags root knows
\* them by and as the dump prints them; no two windows share a byte; a case is
\* refused only when its windows would, and the kernel stops only at a wall.
RegionsAsPublished ==
    /\ Regions!TypeOK /\ Regions!MintedAsPublished /\ Regions!DumpAgrees
    /\ Regions!WindowsDisjoint /\ Regions!RefusalIsNeeded /\ Regions!OnlyAWallIsFatal

\* Every case of TEST_CASES gets its regions on every profile it applies to,
\* asserts the number of them it gets, has its children loaded where their linker
\* scripts put them, and keeps the conventions _run_case relies on (see CaseBoot).
TableIsSound ==
    job.case \in TableCases =>
        /\ Regions!EveryCaseBoots /\ Regions!SaysTheCount
        /\ Regions!LinkedWhereLoaded /\ Regions!CaseIsSound

=============================================================================
