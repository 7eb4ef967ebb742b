---------------------------- MODULE SerialSuite ----------------------------
(***************************************************************************)
(* The serial harness, `-j 1`, as its console sees it: main() and          *)
(* _run_arch() of tools/sos_runner.py with every unit of work (the build   *)
(* of a package, the build and boot of a case) done in one step, by the    *)
(* thread that prints.  The report is a function of the case list and of   *)
(* what the tree under test does, "and nothing else" (_map_ordered); the   *)
(* parallel harness of module Suite implements this specification.         *)
(***************************************************************************)
EXTENDS SuitePlan

CONSTANTS
    Lines,  \* the command lines to consider
    Fates   \* the trees and hosts to consider

(***************************************************************************)
(* A fate says what the tree and the host do, whatever the order:          *)
(*   qemus      profiles whose emulator is installed                       *)
(*   lld        ld.lld is installed                                        *)
(*   clangs     the clang candidates, in the order they are tried          *)
(*   seam       the arch-free kernel names no architecture                 *)
(*   toolchain  "refused", or what the resolver handed over: a checkout    *)
(*              ("root"), executables only ("path"), or executables        *)
(*              without a blade ("bare")                                   *)
(*   blade      Blade builds from the checkout                             *)
(*   badHal     profiles whose native objects do not build                 *)
(*   badPkgs    <<profile, package>> pairs that do not build               *)
(*   cases      [<<profile, case>> -> verdict]                             *)
(***************************************************************************)
VARIABLES
    args,            \* the command line
    fate,            \* what the tree under test and the host do
    plan,            \* what the command line asks for, per profile
    at,              \* the profile being run
    phase,           \* where the harness is
    next,            \* the package or case whose line comes next
    report,          \* the lines written so far
    passed, failed,  \* total_passed, total_failed
    exit             \* the exit status, once there is one

sVars == <<args, fate, plan, at, phase, next, report, passed, failed, exit>>

Running == "none yet"

\* The verdicts of a case; the last three are failures.
Verdicts == {"pass", "build error", "wrong", "hung"}

Cases == SelectedCases(args)
Here == plan[at].arch
HereCases == plan[at].cases
HerePkgs == plan[at].pkgs

CaseFate(a, c) == fate.cases[<<a.name, c.name>>]
PkgBuilds(a, p) == <<a.name, p>> \notin fate.badPkgs

Init ==
    /\ args \in Lines
    /\ fate \in Fates
    /\ plan = <<>>
    /\ at = 1 /\ phase = "arguments" /\ next = 1
    /\ report = <<>> /\ passed = 0 /\ failed = 0
    /\ exit = Running

-----------------------------------------------------------------------------
(***************************************************************************)
(* Lines of the report, and how a step writes them.                        *)
(***************************************************************************)
Banner(a) == <<"profile", a.name>>
ImageLine(a, p) == <<"image", a.name, p>>
ExcludedLines(a, cs) == [i \in DOMAIN cs |-> <<"excluded", a.name, cs[i].name>>]
Row(a, i, c, verdict) == <<"row", a.name, i, c.name, verdict>>

Say(lines) == report' = report \o lines

\* sys.exit, or an exception that reaches the top.
Exit(status, lines) ==
    /\ exit' = status /\ phase' = "over"
    /\ Say(lines)
    /\ UNCHANGED <<at, next, passed, failed>>

Go(where, lines) ==
    /\ phase' = where /\ next' = 1
    /\ Say(lines)
    /\ UNCHANGED <<at, passed, failed, exit>>

\* _run_arch returns: on to the next profile, or to the verdict.
Return(lines, fewer) ==
    /\ IF at < Len(plan) THEN at' = at + 1 /\ phase' = "profile"
                           ELSE at' = at /\ phase' = "verdict"
    /\ next' = 1
    /\ Say(lines)
    /\ failed' = failed + fewer
    /\ UNCHANGED <<passed, exit>>

-----------------------------------------------------------------------------
(***************************************************************************)
(* main().                                                                 *)
(***************************************************************************)
ParseArgs ==
    /\ phase = "arguments"
    /\ IF BadArgs(args)
         THEN Exit("2", <<<<"usage">>>>) /\ UNCHANGED plan
         ELSE Go("probe", <<>>) /\ plan' = Plan(args)

PlanNames == {plan[i].arch.name : i \in DOMAIN plan}

\* _probe_tools: every qemu, the linker and a clang, or an install hint.
ProbeTools ==
    /\ phase = "probe"
    /\ IF PlanNames \subseteq fate.qemus /\ fate.lld /\ FindClang(fate.clangs, PlanNames) # 0
         THEN Go("seam", <<>>) ELSE Exit("2", <<<<"prerequisites">>>>)

\* _check_arch_free.
CheckSeam ==
    /\ phase = "seam"
    /\ IF fate.seam THEN Go("blade", <<<<"header">>>>) ELSE Exit("1", <<<<"seam">>>>)

\* _build_blade, when some selected case has a package.  A toolchain that came
\* with neither a blade nor a checkout has no sources to build one from: the
\* resolver's ToolchainError is not a ToolError and nothing catches it.
BuildBlade ==
    /\ phase = "blade"
    /\ IF ~NeedsBlade(Cases) THEN Go("toolchain", <<>>)
       ELSE IF fate.toolchain = "refused" THEN Exit("1", <<<<"refusal">>>>)
       ELSE IF fate.toolchain = "bare" THEN Exit("1", <<<<"traceback">>>>)
       ELSE IF fate.toolchain = "root" /\ ~fate.blade
              THEN Exit("1", <<<<"blade failed">>>>)
       ELSE Go("toolchain", <<<<"blade">>>>)

\* The eager tc() on the main thread.
ResolveToolchain ==
    /\ phase = "toolchain"
    /\ IF fate.toolchain = "refused"
         THEN Exit("1", <<<<"refusal">>>>)
         ELSE Go("profile", <<>>)

\* Bug: a profile whose native objects do not build counts no failure.
HalForgiven ==
    /\ phase = "profile"
    /\ IF Here.name \in fate.badHal
         THEN Return(<<Banner(Here), <<"hal failed", Here.name>>>>, 0)
         ELSE Go("packages", <<Banner(Here)>>)

\* The head of _run_arch: the profile's line and its native objects.
BuildShared ==
    /\ phase = "profile"
    /\ IF Here.name \in fate.badHal
         THEN Return(<<Banner(Here), <<"hal failed", Here.name>>>>, Len(HereCases))
         ELSE Go("packages", <<Banner(Here)>>)

\* A package was built: its line.  One was not: the profile is given up.
PackageLine(builds) ==
    /\ phase = "packages" /\ next <= Len(HerePkgs)
    /\ IF builds
         THEN /\ Say(<<ImageLine(Here, HerePkgs[next])>>)
              /\ next' = next + 1
              /\ UNCHANGED <<at, phase, passed, failed, exit>>
         ELSE Return(<<<<"package failed", Here.name, HerePkgs[next]>>>>,
                     Len(HereCases))

\* Every image is there; the excluded cases are named before the rows.
ImagesReady ==
    /\ phase = "packages" /\ next > Len(HerePkgs)
    /\ Go("cases", ExcludedLines(Here, plan[at].excluded))

\* The row of a case.
CaseRow(verdict) ==
    /\ phase = "cases" /\ next <= Len(HereCases)
    /\ Say(<<Row(Here, next, HereCases[next], verdict)>>)
    /\ next' = next + 1
    /\ IF verdict = "pass"
         THEN passed' = passed + 1 /\ UNCHANGED failed
         ELSE failed' = failed + 1 /\ UNCHANGED passed
    /\ UNCHANGED <<at, phase, exit>>

\* A case needs the sources of `imgformat`; without a checkout the resolver's
\* ToolchainError goes through run_case, which catches ToolError only.
CaseEscapes ==
    /\ phase = "cases" /\ next <= Len(HereCases)
    /\ Exit("1", <<<<"traceback">>>>)

RowsDone ==
    /\ phase = "cases" /\ next > Len(HereCases)
    /\ Return(<<>>, 0)

Verdict ==
    /\ phase = "verdict"
    /\ IF failed = 0 THEN Exit("0", <<<<"ALL PASSED", passed>>>>)
                     ELSE Exit("1", <<<<"FAILED", passed, failed>>>>)

-----------------------------------------------------------------------------
\* What main() does on its own thread, whatever -j says.
MainStep ==
    \/ ParseArgs
    \/ /\ \/ ProbeTools \/ CheckSeam \/ BuildBlade \/ ResolveToolchain
          \/ BuildShared \/ ImagesReady \/ RowsDone \/ Verdict
       /\ UNCHANGED plan

SerialNext ==
    /\ \/ MainStep
       \/ /\ \/ phase = "packages" /\ next <= Len(HerePkgs)
                  /\ PackageLine(PkgBuilds(Here, HerePkgs[next]))
             \/ fate.toolchain = "root" /\ phase = "cases" /\ next <= Len(HereCases)
                  /\ CaseRow(CaseFate(Here, HereCases[next]))
             \/ fate.toolchain # "root" /\ CaseEscapes
          /\ UNCHANGED plan
    /\ UNCHANGED <<args, fate>>

SerialSpec == Init /\ [][SerialNext]_sVars

=============================================================================
