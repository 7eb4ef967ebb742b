----------------------------- MODULE SuitePlan -----------------------------
(***************************************************************************)
(* What one run of the QEMU harness (tools/sos_runner.py) has to do, as a  *)
(* function of its two tables and its command line: which profiles, which  *)
(* cases on each of them, which are left out for the profile's protection  *)
(* tier, and which Blade packages have to be built first.                  *)
(*                                                                         *)
(* A profile is a record of its name, its target triple (the directory a   *)
(* package's image is built in), its own build directory and its tier; a   *)
(* case is a record of its name, its root package (or NoPkg), its child    *)
(* packages, the profiles it applies to and the tier it needs (or AnyTier).*)
(***************************************************************************)
EXTENDS Naturals, Sequences, SequencesExt

CONSTANTS
    ARCHES,      \* the profile table, a sequence
    TEST_CASES,  \* the case table, a sequence
    NoPkg,       \* no root package
    AnyTier      \* the case runs on every tier

\* A sequence without its later repetitions.
Distinct(s) ==
    LET firsts == SetToSortSeq({i \in DOMAIN s : \A j \in 1..(i - 1) : s[j] # s[i]}, <)
    IN  [k \in DOMAIN firsts |-> s[firsts[k]]]

CaseNames == {TEST_CASES[i].name : i \in DOMAIN TEST_CASES}
ArchNames == {ARCHES[i].name : i \in DOMAIN ARCHES}

\* The table entry with a name.
ByName(table, name) == SelectInSeq(table, LAMBDA e : e.name = name)

\* --arch and --case: one profile or all of them; the named cases, each once
\* and in the order they were named, or all of them in table order.
SelectedArches(args) ==
    IF args.arch = "" THEN ARCHES ELSE SelectSeq(ARCHES, LAMBDA a : a.name = args.arch)

SelectedCases(args) ==
    IF args.cases = <<>>
      THEN TEST_CASES
      ELSE LET names == Distinct(args.cases)
           IN  [i \in DOMAIN names |-> TEST_CASES[ByName(TEST_CASES, names[i])]]

\* The command line is refused: -j below one, an unknown profile or case.
BadArgs(args) ==
    \/ args.jobs < 1
    \/ args.arch # "" /\ args.arch \notin ArchNames
    \/ \E i \in DOMAIN args.cases : args.cases[i] \notin CaseNames

\* The two-list partition of _run_arch: a case that applies to the profile runs
\* there, or is excluded for its tier.
Applies(arch, case) == arch.name \in case.arches
RunsOn(arch, case) == case.tier \in {AnyTier, arch.tier}

Runnable(arch, cases) ==
    SelectSeq(cases, LAMBDA c : Applies(arch, c) /\ RunsOn(arch, c))
Excluded(arch, cases) ==
    SelectSeq(cases, LAMBDA c : Applies(arch, c) /\ ~RunsOn(arch, c))

\* The packages of a case: its root server, then its children.
PackagesOf(case) ==
    (IF case.root = NoPkg THEN <<>> ELSE <<case.root>>) \o case.children

\* Every package the cases need, each once, in the order they are met.
RootPkgs(cases) ==
    Distinct(FlattenSeq([i \in DOMAIN cases |-> PackagesOf(cases[i])]))

\* The work of one profile, and of a whole run.
ArchPlan(arch, cases) ==
    LET runs == Runnable(arch, cases)
    IN  [arch |-> arch, cases |-> runs, pkgs |-> RootPkgs(runs),
         excluded |-> Excluded(arch, cases)]
Plan(args) ==
    LET arches == SelectedArches(args)  cases == SelectedCases(args)
    IN  [i \in DOMAIN arches |-> ArchPlan(arches[i], cases)]

\* _find_clang: the first candidate that assembles the boot code of every
\* selected profile (0 when there is none).  A candidate is the set of the
\* profiles it can target.
FindClang(clangs, names) == SelectInSeq(clangs, LAMBDA c : names \subseteq c)

\* Blade is needed when some selected case, on any profile, has a package.
NeedsBlade(cases) == \E i \in DOMAIN cases : PackagesOf(cases[i]) # <<>>

=============================================================================
