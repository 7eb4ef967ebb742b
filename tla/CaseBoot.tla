------------------------------ MODULE CaseBoot ------------------------------
(***************************************************************************)
(* The harness's own case table taken through the region table pipeline:   *)
(* each case of TEST_CASES, on each profile it applies to.                 *)
(***************************************************************************)
EXTENDS RegionTable, CaseTable

\* The stems of the objects every image of a profile links, and of the probe.
SharedStems == {"boot", "sink", "support", "trap", "_probe"}

\* The address the linker script of a child package gives it. On arm64 every
\* program is linked at one virtual base and the kernel places it.
LinkedAt(arch, pkg) ==
    IF arch.name = "arm64" THEN arch.root_entry
    ELSE CASE pkg \in SecondChildren -> <<0, \h8028, 0, 0>>
           [] pkg \in ThirdChildren -> <<0, \h802C, 0, 0>>
           [] OTHER -> <<0, \h8024, 0, 0>>

\* The keys of expectations(arch).
Placeholders == {"banner", "tier", "entry", "zero", "one", "two", "three", "four", "five",
    "six", "seven", "eight", "nine", "ten", "prio", "irq_line", "touch_mark",
    "pingpong_mark", "caller_mark", "orphan_mark", "resolve_orphan_mark", "share_mark"}

-----------------------------------------------------------------------------
\* Every case of the table gets to user mode as far as its regions go: none is
\* refused by the stitcher and none stops the kernel in mint_boot_regions.
EveryCaseBoots == phase \notin {"refused", "fatal"}

\* A case that asserts the kernel's `boot regions=' line asserts the number of
\* rows its own keys produce.
SaysTheCount ==
    phase = "booted" /\ job.case.says > 0 => Len(minted) = job.case.says

\* A riscv32 child runs at the address its package was linked for: the window the
\* table publishes for the i-th child is the one the i-th package's linker script
\* names, although the two are written in different files. An arm64 window stays
\* inside the four megabytes a process can be granted.
LinkedWhereLoaded ==
    phase = "booted" =>
        \A i \in 1..Len(job.case.children) :
            LET window == minted[Len(job.case.children) + i]
            IN IF job.arch.name = "arm64"
               THEN ~Less(<<0, \h4040, 0, 0>>, Plus(window.base, Nat32(window.len)))
               ELSE window.base = LinkedAt(job.arch, job.case.children[i])

\* What the harness takes for granted of a case: no other case leaves files under
\* its name, nor do the shared objects; every placeholder of its lines has a value;
\* a case matched without the kernel's lines asserts none; and its packages are
\* built for the profile's target.
CaseIsSound ==
    LET c == job.case
        pkgs == {c.root} \cup {c.children[i] : i \in DOMAIN c.children}
    IN /\ c.name \notin SharedStems
       /\ Cardinality({i \in DOMAIN TEST_CASES : TEST_CASES[i].name = c.name}) = 1
       /\ c.words \subseteq Placeholders
       /\ c.strips => c.kernel = 0
       /\ pkgs \cap (IF job.arch.name = "arm64" THEN RiscvPackages ELSE ArmPackages) = {}

=============================================================================
