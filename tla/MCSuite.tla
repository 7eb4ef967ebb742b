------------------------------ MODULE MCSuite ------------------------------
(***************************************************************************)
(* Instances of Suite for TLC.                                             *)
(*                                                                         *)
(* The two profiles are the two that share a target triple, riscv32 and    *)
(* riscv32-flat: they share every package's build directory, and differ in *)
(* their own build directory and in their tier.                            *)
(***************************************************************************)
EXTENDS Suite

TwoProfiles ==
    <<[name |-> "riscv32", triple |-> "rv32", build |-> "rv32", tier |-> "isolated"],
      [name |-> "riscv32-flat", triple |-> "rv32", build |-> "rv32-flat", tier |-> "flat"]>>

Both == {"riscv32", "riscv32-flat"}

\* A kernel-only case, a root server that an isolation proof shares, and a root
\* with a child image, which is another case's root package.
FourCases ==
    <<[name |-> "alone", root |-> NoPkg, children |-> <<>>, arches |-> Both, tier |-> AnyTier],
      [name |-> "server", root |-> "pkgA", children |-> <<>>, arches |-> Both, tier |-> AnyTier],
      [name |-> "denied", root |-> "pkgA", children |-> <<>>, arches |-> Both, tier |-> "isolated"],
      [name |-> "parent", root |-> "pkgB", children |-> <<"pkgA">>, arches |-> Both, tier |-> AnyTier]>>

Line(jobs, arch, cases) == [jobs |-> jobs, arch |-> arch, cases |-> cases]

\* What an operator may type.
AllLines ==
    {Line(2, "", <<>>), Line(3, "", <<>>), Line(0, "", <<>>), Line(2, "riscv32-flat", <<>>), Line(2, "mips", <<>>),
     Line(2, "", <<"parent", "server", "parent">>), Line(2, "", <<"absent">>),
     Line(2, "riscv32-flat", <<"denied">>), Line(1, "", <<"server", "denied">>)}

Good ==
    [qemus |-> Both, lld |-> TRUE, clangs |-> <<{"riscv32"}, Both>>, seam |-> TRUE, toolchain |-> "root", blade |-> TRUE,
     badHal |-> {}, badPkgs |-> {},
     cases |-> [ac \in ArchNames \X CaseNames |-> "pass"]]

\* One thing goes wrong, or two.
OneWrong ==
    {[Good EXCEPT !.qemus = {"riscv32"}], [Good EXCEPT !.lld = FALSE],
     [Good EXCEPT !.clangs = <<{"riscv32"}, {"riscv32-flat"}>>], [Good EXCEPT !.seam = FALSE],
     [Good EXCEPT !.toolchain = "refused"], [Good EXCEPT !.toolchain = "path"],
     [Good EXCEPT !.toolchain = "bare"], [Good EXCEPT !.blade = FALSE],
     [Good EXCEPT !.badHal = {"riscv32"}]}
BadCases ==
    {[Good EXCEPT !.cases[ac] = v] :
        ac \in ArchNames \X CaseNames, v \in Verdicts \ {"pass"}}
BadPackages ==
    {[Good EXCEPT !.badPkgs = {<<a, p>>}] : a \in ArchNames, p \in {"pkgA", "pkgB"}}

TwoBad ==
    {[Good EXCEPT !.cases[<<"riscv32", "server">>] = "build error",
                  !.cases[<<"riscv32-flat", "parent">>] = "hung"]}

AllFates == {Good} \cup OneWrong \cup BadPackages \cup BadCases \cup TwoBad

=============================================================================
