------------------------------- MODULE Suite -------------------------------
(***************************************************************************)
(* The harness with `-j N` (tools/sos_runner.py): inside one profile, N    *)
(* package builds and then N cases run at a time on worker threads, and    *)
(* one thread awaits them in order and prints.  Every unit of work is a    *)
(* sequence of commands that read and write files, so the model has the    *)
(* files: a package's image, and what each case leaves in its profile's    *)
(* build directory.                                                        *)
(*                                                                         *)
(* The content of a file is who made it: of an image, the profile it was   *)
(* built for; of an object, the profile and the case.                      *)
(***************************************************************************)
EXTENDS SerialSuite, FiniteSets

VARIABLES
    st,       \* [Units -> where the unit of work is]
    res,      \* [Units -> what it returned]
    closing,  \* the pool is shutting down after its consumer left
    image,    \* [<<package, triple>> -> the profile it was built for]
    art       \* files of the build directories: [path -> content]

vars == <<args, fate, plan, at, phase, next, report, passed, failed, exit,
          st, res, closing, image, art>>

\* A unit of work is an item of one profile's package list or case list.
Packages == ToSet(RootPkgs(TEST_CASES))
MaxItems == Len(TEST_CASES) + Cardinality(Packages)
Units == [arch : DOMAIN ARCHES, kind : {"packages", "cases"}, item : 1..MaxItems]

Triples == {ARCHES[i].triple : i \in DOMAIN ARCHES}

\* The tables are tables, and every tree gives every case a verdict.
ASSUME TablesAssumption ==
    /\ ARCHES \in Seq(ToSet(ARCHES)) /\ ARCHES # <<>>
    /\ TEST_CASES \in Seq(ToSet(TEST_CASES))
    /\ IsFiniteSet(Packages)
    /\ \A i \in DOMAIN TEST_CASES : TEST_CASES[i].children \in Seq(Packages)

ASSUME FatesAssumption ==
    \A f \in Fates :
        /\ f.clangs \in Seq(SUBSET ArchNames)
        /\ \A a \in ArchNames, c \in CaseNames : f.cases[<<a, c>>] \in Verdicts

\* The cases a command line asks for, each with its profile.
Asked(line) ==
    {x \in ToSet(ARCHES) \X ToSet(SelectedCases(line)) :
        /\ line.arch \in {"", x[1].name}
        /\ Applies(x[1], x[2]) /\ RunsOn(x[1], x[2])}

\* What the lists of SuitePlan come to: a plan has the cases that were asked for
\* and no others, and for each profile every case and every package of a case
\* once.
Sound(p, line) ==
    /\ p \in Seq(ToSet(p)) /\ p # <<>> /\ Len(p) <= Len(ARCHES)
    /\ \A i \in DOMAIN p :
        LET cases == p[i].cases  pkgs == p[i].pkgs
        IN  /\ p[i].arch \in ToSet(ARCHES)
            /\ cases \in Seq(ToSet(TEST_CASES)) /\ Len(cases) <= MaxItems
            /\ pkgs \in Seq(Packages) /\ Len(pkgs) <= MaxItems
            /\ \A j, k \in DOMAIN cases : cases[j].name = cases[k].name => j = k
            /\ \A j, k \in DOMAIN pkgs : pkgs[j] = pkgs[k] => j = k
            /\ ToSet(pkgs) = UNION {ToSet(PackagesOf(cases[j])) : j \in DOMAIN cases}
    /\ Asked(line) = UNION {{p[i].arch} \X ToSet(p[i].cases) : i \in DOMAIN p}

ASSUME PlanAssumption == \A line \in Lines : ~BadArgs(line) => Sound(Plan(line), line)

\* The sosimg of a package that is not there, and one of an earlier run.
NoImage == "none"
Stale == "stale"

\* Where a unit of work can be.
PackageSteps == {"sweep", "build"}
CaseSteps == {"compile", "stage", "assemble", "regions", "link", "boot"}
Working == PackageSteps \cup CaseSteps

SuiteInit ==
    /\ Init
    /\ st = [u \in Units |-> "none"]
    /\ res = [u \in Units |-> "none"]
    /\ closing = FALSE
    /\ image = [f \in Packages \X Triples |-> Stale]
    /\ art = <<>>

-----------------------------------------------------------------------------
(***************************************************************************)
(* The pool, _map_ordered.                                                 *)
(***************************************************************************)
ItemsOf(kind) == IF kind = "packages" THEN HerePkgs ELSE HereCases
HereUnits == {u \in Units : /\ u.arch = at /\ u.kind = phase
                            /\ u.item \in DOMAIN ItemsOf(phase)}
Head1 == [arch |-> at, kind |-> phase, item |-> next]

Submitted == \A u \in HereUnits : st[u] # "none"
Busy(U) == {u \in U : st[u] \in Working}

\* -j 1, or a single item: the work is done inline, when it is asked for.
Inline == args.jobs <= 1 \/ Len(ItemsOf(phase)) <= 1

\* Every item is submitted before the first result is awaited.
Submit ==
    /\ phase \in {"packages", "cases"} /\ HereUnits # {} /\ ~Submitted
    /\ st' = [u \in Units |-> IF u \in HereUnits THEN "queued" ELSE st[u]]
    /\ UNCHANGED <<args, fate, plan, at, phase, next, report, passed, failed, exit,
                   res, closing, image, art>>

\* A worker takes the oldest item, when one is free.
StartUnit(u) ==
    /\ st[u] = "queued"
    /\ \A v \in Units : v.arch = u.arch /\ v.kind = u.kind /\ v.item < u.item
                          => st[v] # "queued"
    /\ IF Inline THEN u.item = next ELSE Cardinality(Busy(Units)) < args.jobs
    /\ st' = [st EXCEPT ![u] = IF u.kind = "packages" THEN "sweep" ELSE "compile"]
    /\ UNCHANGED <<args, fate, plan, at, phase, next, report, passed, failed, exit,
                   res, closing, image, art>>

\* The consumer is done with the generator: what has not started is cancelled.
CancelRest == st' = [u \in Units |-> IF st[u] = "queued" THEN "cancelled" ELSE st[u]]

\* The pool's shutdown waits for what is already running.
Drained == Busy(Units) = {}

-----------------------------------------------------------------------------
(***************************************************************************)
(* A package: _build_root_image.                                           *)
(***************************************************************************)
ArchOf(u) == plan[u.arch].arch
PkgOf(u) == plan[u.arch].pkgs[u.item]
CaseOf(u) == plan[u.arch].cases[u.item]

Finish(u, result) ==
    /\ st' = [st EXCEPT ![u] = "finished"]
    /\ res' = [res EXCEPT ![u] = result]

MainUnchanged ==
    UNCHANGED <<args, fate, plan, at, phase, next, report, passed, failed, exit, closing>>

\* Delete first: a build that fails must not leave the previous image.
SweepStale(u) ==
    /\ st[u] = "sweep"
    /\ image' = [image EXCEPT ![<<PkgOf(u), ArchOf(u).triple>>] = NoImage]
    /\ st' = [st EXCEPT ![u] = "build"]
    /\ UNCHANGED <<res, art>> /\ MainUnchanged

\* blade build, then exactly one image must be there.  A build that fails may
\* or may not say so with its exit status ("Blade used to exit 0 on a failed
\* build"); it leaves no image of its own either way.
BladeBuild(u) ==
    LET file == <<PkgOf(u), ArchOf(u).triple>>
    IN  /\ st[u] = "build"
        /\ IF PkgBuilds(ArchOf(u), PkgOf(u))
             THEN /\ image' = [image EXCEPT ![file] = ArchOf(u).name]
                  /\ Finish(u, "built")
             ELSE /\ UNCHANGED image
                  /\ \E exits0 \in BOOLEAN :
                        Finish(u, IF exits0 /\ image[file] # NoImage
                                    THEN "built" ELSE "error")
        /\ UNCHANGED art /\ MainUnchanged

-----------------------------------------------------------------------------
(***************************************************************************)
(* A case: run_case, which is _build_elf and _run_qemu.                    *)
(***************************************************************************)
File(u, kind) == <<ArchOf(u).build, CaseOf(u).name, kind>>

\* Bug: one staging directory for all the cases of a build directory.
SharedStage(u) == <<ArchOf(u).build, "rootimg", "stage">>

\* _stitch_root_image's staging directory is the case's own.
StageDir(u) == File(u, "stage")

Write(path, content) ==
    art' = [p \in DOMAIN art \cup {path} |-> IF p = path THEN content ELSE art[p]]

ImageOf(u, pkg) == <<pkg, image[<<pkg, ArchOf(u).triple>>]>>

AfterRoot(c) == IF c.children # <<>> THEN "regions" ELSE "link"
AfterObj(c) == IF c.root # NoPkg THEN "stage" ELSE AfterRoot(c)

\* sawc on the case's kernel source, and its own C and assembly if it has any.
\* Without a checkout the resolver refuses to name `imgformat`, and that
\* refusal is not a ToolError.
Compile(u) ==
    /\ st[u] = "compile"
    /\ IF fate.toolchain # "root"
         THEN Finish(u, "escapes") /\ UNCHANGED art
       ELSE IF CaseFate(ArchOf(u), CaseOf(u)) = "build error"
         THEN Finish(u, "build error") /\ UNCHANGED art
       ELSE /\ Write(File(u, "obj"), <<ArchOf(u).name, CaseOf(u).name>>)
            /\ st' = [st EXCEPT ![u] = AfterObj(CaseOf(u))]
            /\ UNCHANGED res
    /\ UNCHANGED image /\ MainUnchanged

\* The root image is copied to `root.sosimg` of the staging directory.
StageRoot(u) ==
    /\ st[u] = "stage"
    /\ Write(StageDir(u), ImageOf(u, CaseOf(u).root))
    /\ st' = [st EXCEPT ![u] = "assemble"]
    /\ UNCHANGED <<res, image>> /\ MainUnchanged

\* The committed stub is assembled with -I the staging directory.
AssembleRoot(u) ==
    /\ st[u] = "assemble"
    /\ Write(File(u, "rootimg"), art[StageDir(u)])
    /\ st' = [st EXCEPT ![u] = AfterRoot(CaseOf(u))]
    /\ UNCHANGED <<res, image>> /\ MainUnchanged

\* _stitch_regions: the child images and the table that names them.
StitchRegions(u) ==
    /\ st[u] = "regions"
    /\ Write(File(u, "regions"),
             [i \in DOMAIN CaseOf(u).children |-> ImageOf(u, CaseOf(u).children[i])])
    /\ st' = [st EXCEPT ![u] = "link"]
    /\ UNCHANGED <<res, image>> /\ MainUnchanged

\* What ld.lld puts into the image of a case.
Linked(u) ==
    [hal     |-> art[<<ArchOf(u).build, "hal">>],
     obj     |-> art[File(u, "obj")],
     root    |-> IF CaseOf(u).root = NoPkg THEN NoPkg ELSE art[File(u, "rootimg")],
     regions |-> IF CaseOf(u).children = <<>> THEN <<>> ELSE art[File(u, "regions")]]

Link(u) ==
    /\ st[u] = "link"
    /\ Write(File(u, "elf"), Linked(u))
    /\ st' = [st EXCEPT ![u] = "boot"]
    /\ UNCHANGED <<res, image>> /\ MainUnchanged

\* The image a case is about.
OwnElf(u) ==
    LET a == ArchOf(u)  c == CaseOf(u)
    IN  [hal |-> a.name, obj |-> <<a.name, c.name>>,
         root |-> IF c.root = NoPkg THEN NoPkg ELSE <<c.root, a.name>>,
         regions |-> [i \in DOMAIN c.children |-> <<c.children[i], a.name>>]]

\* Bug: a guest that hangs is booted again.
BootAgain(u) ==
    /\ st[u] = "boot"
    /\ IF CaseFate(ArchOf(u), CaseOf(u)) = "hung"
         THEN UNCHANGED <<st, res>>
         ELSE Finish(u, CaseFate(ArchOf(u), CaseOf(u)))
    /\ UNCHANGED <<image, art>> /\ MainUnchanged

\* _run_qemu and _check: the verdict is the tree's if the image is the case's.
Boot(u) ==
    /\ st[u] = "boot"
    /\ Finish(u, IF art[File(u, "elf")] = OwnElf(u)
                   THEN CaseFate(ArchOf(u), CaseOf(u)) ELSE "not this case")
    /\ UNCHANGED <<image, art>> /\ MainUnchanged

-----------------------------------------------------------------------------
(***************************************************************************)
(* The thread that prints.                                                 *)
(***************************************************************************)
WorkUnchanged == UNCHANGED <<st, res, image, art>>

\* Steps that involve no worker; the native objects are files too.
Main ==
    /\ MainStep
    /\ phase = "packages" \/ phase = "cases" => Drained
    /\ IF phase = "profile" /\ Here.name \notin fate.badHal
         THEN Write(<<Here.build, "hal">>, Here.name) ELSE UNCHANGED art
    /\ UNCHANGED <<args, fate, st, res, closing, image>>

\* Bug: results are taken as they complete.
AnyFinished == \E u \in HereUnits : st[u] = "finished"

\* The result the consumer waits for is there.
HeadReady ==
    next <= Len(ItemsOf(phase)) /\ st[Head1] = "finished" /\ ~closing

\* A built package's line is printed.
AwaitPackage ==
    /\ phase = "packages" /\ HeadReady /\ res[Head1] = "built"
    /\ PackageLine(TRUE)
    /\ UNCHANGED <<args, fate, plan, closing>> /\ WorkUnchanged

\* A result that ends the loop: a package that did not build, or a case that
\* raised.  The generator is closed: cancel, then wait.
LeavePool ==
    /\ phase \in {"packages", "cases"} /\ HeadReady
    /\ res[Head1] \in {"error", "escapes"}
    /\ closing' = TRUE
    /\ CancelRest
    /\ UNCHANGED <<args, fate, plan, at, phase, next, report, passed, failed, exit,
                   res, image, art>>

\* The pool is down: the failure is reported.
GiveUp ==
    /\ closing /\ Drained
    /\ closing' = FALSE
    /\ \/ PackageLine(FALSE)
       \/ CaseEscapes
    /\ UNCHANGED <<args, fate, plan>> /\ WorkUnchanged

\* A case's row is printed.
AwaitCase ==
    /\ phase = "cases" /\ HeadReady /\ res[Head1] # "escapes"
    /\ CaseRow(res[Head1])
    /\ UNCHANGED <<args, fate, plan, closing>> /\ WorkUnchanged

Work(u) ==
    \/ StartUnit(u) \/ SweepStale(u) \/ BladeBuild(u) \/ Compile(u) \/ StageRoot(u)
    \/ AssembleRoot(u) \/ StitchRegions(u) \/ Link(u) \/ Boot(u)

Console == Main \/ Submit \/ AwaitPackage \/ LeavePool \/ GiveUp \/ AwaitCase

\* The process has exited.
Over == phase = "over" /\ UNCHANGED vars

Next == Console \/ (\E u \in Units : Work(u)) \/ Over

Spec == SuiteInit /\ [][Next]_vars

\* The operating system runs every thread, and every command ends: a boot by
\* the hard timeout of _run_qemu.
FairSpec == Spec /\ WF_vars(Console) /\ \A u \in Units : WF_vars(Work(u))

-----------------------------------------------------------------------------
TypeOK ==
    /\ args \in Lines /\ fate \in Fates
    /\ at \in DOMAIN ARCHES
    /\ next \in 1..(MaxItems + 1)
    /\ st \in [Units -> {"none", "queued", "cancelled", "finished"} \cup Working]
    /\ res \in [Units -> {"none", "built", "error", "escapes"} \cup Verdicts]
    /\ exit \in {Running, "0", "1", "2"}

\* The image a case boots is its own: its kernel, its profile's native objects,
\* and the root and child images built in this run for this profile, whatever
\* the other workers copy, assemble and link meanwhile (_stitch_root_image: one
\* of them would "boot the other's image").
BootsItsOwn ==
    \A u \in Units : st[u] = "boot" => art[File(u, "elf")] = OwnElf(u)

\* No work outlives the pool it was submitted to: while a profile is built and
\* run, nothing of an earlier profile or phase still touches a package's build
\* directory (_run_arch: the architectures stay sequential).
NoStragglers ==
    \A u \in Units : st[u] \in Working => u.arch = at /\ u.kind = phase

\* A worker works for its own profile, phase and case (_run_arch, _map_ordered).
OwnWork == BootsItsOwn /\ NoStragglers

\* What the tree under test deserves, from the tables alone.
GoodTree ==
    /\ fate.seam /\ fate.lld
    /\ \E k \in DOMAIN fate.clangs : PlanNames \subseteq fate.clangs[k] \cap fate.qemus
    /\ fate.toolchain = "root" /\ (NeedsBlade(Cases) => fate.blade)
    /\ \A i \in DOMAIN ARCHES, j \in DOMAIN Cases :
         LET a == ARCHES[i]  c == Cases[j]
         IN  (args.arch \in {"", a.name} /\ Applies(a, c) /\ RunsOn(a, c)) =>
               /\ \A p \in ToSet(PackagesOf(c)) : PkgBuilds(a, p)
               /\ CaseFate(a, c) = "pass"
               /\ a.name \notin fate.badHal

\* Green means green and red means red: the exit status is 0 exactly when every
\* selected case that runs on a profile builds, boots and passes there.
VerdictIsTruth ==
    exit # Running /\ (\E i \in DOMAIN plan : plan[i].cases # <<>>)
      => (exit = "0" <=> GoodTree)

\* The rows that were to be printed for the first n profiles.
RowsOf(n) == {x \in (1..n) \X (1..MaxItems) : x[2] \in DOMAIN plan[x[1]].cases}

\* The counts of the last line add up to the cases that were to run, profiles
\* that were given up included.
CountsAddUp == phase = "verdict" => passed + failed = Cardinality(RowsOf(Len(plan)))

\* What the run reports, by its exit status and by its counts, is what happened
\* (run_suite, _run_arch).
ReportIsTruth == TypeOK /\ VerdictIsTruth /\ CountsAddUp

\* Whatever the workers do, the console shows the serial harness: "a parallel
\* run's output is byte-identical to a serial one's".
ParallelIsSerial == SerialSpec

\* The run ends.
Terminates == <>(exit # Running)

=============================================================================
