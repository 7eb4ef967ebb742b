---------------------------- MODULE SuiteProofs ----------------------------
(* Proofs about Suite, for every profile table, case table, command line,    *)
(* tree under test and number of workers: what a worker touches is its own,  *)
(* the parallel harness implements the serial one, and the exit status and   *)
(* the counts say what happened.                                             *)
EXTENDS Suite, FiniteSetTheorems, WellFoundedInduction, TLAPS

-----------------------------------------------------------------------------
(* The invariant.                                                          *)

Phases == {"arguments", "probe", "seam", "blade", "toolchain",
           "profile", "packages", "cases", "verdict", "over"}
Early == {"arguments", "probe", "seam", "blade", "toolchain"}
InProfile == {"profile", "packages", "cases"}
Pooled == phase \in {"packages", "cases"}

\* Where the printing thread can be.
WhereOK ==
  /\ args \in Lines /\ fate \in Fates
  /\ phase \in Phases
  /\ exit \in {Running, "0", "1", "2"}
  /\ exit = Running <=> phase # "over"
  /\ phase = "arguments" => plan = <<>>
  /\ plan # <<>> => plan = Plan(args) /\ ~BadArgs(args)
  /\ phase \notin {"arguments", "over"} => plan # <<>> /\ at \in DOMAIN plan
  /\ phase \in Early => at = 1
  /\ phase = "verdict" => at = Len(plan)
  /\ at \in DOMAIN ARCHES
  /\ next \in 1..(MaxItems + 1)
  /\ phase = "packages" => next <= Len(HerePkgs) + 1
  /\ phase = "cases" => next <= Len(HereCases) + 1

\* Every case of a profile before this one has its row or its failure.
Counted ==
  /\ passed \in Nat /\ failed \in Nat
  /\ phase \in Early => passed = 0 /\ failed = 0
  /\ phase \in {"profile", "packages"} =>
       passed + failed = Cardinality(RowsOf(at - 1))
  /\ phase = "cases" =>
       passed + failed = Cardinality(RowsOf(at - 1)) + (next - 1)
  /\ phase = "verdict" => passed + failed = Cardinality(RowsOf(at))

\* What a case needs to pass on the i-th profile of the plan.
GoodRow(i, j) ==
  /\ plan[i].arch.name \notin fate.badHal
  /\ \A p \in ToSet(PackagesOf(plan[i].cases[j])) : PkgBuilds(plan[i].arch, p)
  /\ CaseFate(plan[i].arch, plan[i].cases[j]) = "pass"
  /\ fate.toolchain = "root"

\* What the host and the tree passed on the way to the profiles.
ToolsOK ==
  /\ fate.lld
  /\ \E k \in DOMAIN fate.clangs : PlanNames \subseteq fate.clangs[k] \cap fate.qemus
BladeOK == NeedsBlade(Cases) /\ fate.toolchain = "root" => fate.blade

PassedSoFar ==
  /\ phase \notin {"arguments", "probe", "over"} => ToolsOK
  /\ phase \notin {"arguments", "probe", "seam", "over"} => fate.seam
  /\ phase \in {"toolchain", "profile", "packages", "cases", "verdict"} => BladeOK

\* No failure means that all so far are good, and a failure that one is not.
Judged ==
  /\ phase \in {"packages", "cases"} => Here.name \notin fate.badHal
  /\ phase = "packages" =>
       \A k \in DOMAIN HerePkgs : k < next => PkgBuilds(Here, HerePkgs[k])
  /\ phase = "cases" => \A k \in DOMAIN HerePkgs : PkgBuilds(Here, HerePkgs[k])
  /\ failed = 0 =>
       /\ phase \in InProfile \cup {"verdict"} =>
            \A i \in 1..(at - 1) : \A j \in DOMAIN plan[i].cases : GoodRow(i, j)
       /\ phase = "cases" => \A j \in DOMAIN HereCases : j < next => GoodRow(at, j)
       /\ phase = "verdict" => \A j \in DOMAIN HereCases : GoodRow(at, j)
  /\ failed > 0 => \E i \in DOMAIN plan : \E j \in DOMAIN plan[i].cases : ~GoodRow(i, j)

SerialInv == WhereOK /\ Counted /\ PassedSoFar /\ Judged /\ VerdictIsTruth

\* Units whose pool has been reached.
Reached(u) ==
  \/ u.arch < at
  \/ u.arch = at /\ u.kind = "packages" /\ phase \in {"packages", "cases"}
  \/ u.arch = at /\ u.kind = "cases" /\ phase = "cases"
  \/ phase \in {"verdict", "over"}

\* Who is in the pool.
UnitsOK ==
  /\ st \in [Units -> {"none", "queued", "cancelled", "finished"} \cup Working]
  /\ res \in [Units -> {"none", "built", "error", "escapes"} \cup Verdicts]
  /\ closing \in BOOLEAN
  /\ \A u \in Units :
       /\ ~Reached(u) => st[u] = "none"
       /\ st[u] \in Working \cup {"queued"} => u \in HereUnits
       /\ st[u] \in PackageSteps => u.kind = "packages"
       /\ st[u] \in CaseSteps => u.kind = "cases"
  /\ Submitted \/ \A u \in HereUnits : st[u] = "none"
  /\ \A u \in HereUnits : u.item < next => st[u] = "finished"
  /\ closing =>
       /\ Pooled /\ Head1 \in HereUnits
       /\ st[Head1] = "finished" /\ res[Head1] \in {"error", "escapes"}
       /\ \A u \in Units : st[u] # "queued"

\* What a unit returned is what the tree deserves.
ResultsOK ==
  \A u \in HereUnits :
    /\ st[u] = "finished" /\ u.kind = "packages" =>
         res[u] = IF PkgBuilds(Here, PkgOf(u)) THEN "built" ELSE "error"
    /\ st[u] = "finished" /\ u.kind = "cases" =>
         res[u] = IF fate.toolchain = "root" THEN CaseFate(Here, CaseOf(u))
                                             ELSE "escapes"
    /\ st[u] \in CaseSteps \ {"compile"} => fate.toolchain = "root"

\* A file is there with this content.
Has(path, content) == path \in DOMAIN art /\ art[path] = content

ImagePath(p) == <<p, Here.triple>>

\* The images of this profile's packages.
ImagesOK ==
  /\ image \in [Packages \X Triples -> {NoImage, Stale} \cup ArchNames]
  /\ phase = "packages" => \A u \in HereUnits :
       /\ st[u] = "build" => image[ImagePath(PkgOf(u))] = NoImage
       /\ st[u] = "finished" /\ PkgBuilds(Here, PkgOf(u)) =>
            image[ImagePath(PkgOf(u))] = Here.name
  /\ phase = "cases" => \A k \in DOMAIN HerePkgs : image[ImagePath(HerePkgs[k])] = Here.name

OwnRoot(u) == <<CaseOf(u).root, ArchOf(u).name>>
OwnRegions(u) == [i \in DOMAIN CaseOf(u).children |-> <<CaseOf(u).children[i], ArchOf(u).name>>]

\* The files of a case, as far as it has come.
FilesOf(u) ==
  /\ st[u] \in {"stage", "assemble", "regions", "link"} =>
       Has(File(u, "obj"), <<ArchOf(u).name, CaseOf(u).name>>)
  /\ st[u] \in {"stage", "assemble"} => CaseOf(u).root # NoPkg
  /\ st[u] = "assemble" => Has(StageDir(u), OwnRoot(u))
  /\ st[u] \in {"regions", "link"} /\ CaseOf(u).root # NoPkg =>
       Has(File(u, "rootimg"), OwnRoot(u))
  /\ st[u] = "link" /\ CaseOf(u).children # <<>> =>
       Has(File(u, "regions"), OwnRegions(u))
  /\ st[u] = "boot" => Has(File(u, "elf"), OwnElf(u))

FilesOK ==
  /\ Pooled => Has(<<Here.build, "hal">>, Here.name)
  /\ phase = "cases" => \A u \in HereUnits : FilesOf(u)

WorkInv == UnitsOK /\ ResultsOK /\ ImagesOK /\ FilesOK

IInv == SerialInv /\ WorkInv

-----------------------------------------------------------------------------
(* The tables and the plan.                                                *)

LEMMA Tables ==
  /\ Len(ARCHES) \in Nat /\ Len(ARCHES) >= 1 /\ DOMAIN ARCHES = 1..Len(ARCHES)
  /\ MaxItems \in Nat
<1>1. Cardinality(Packages) \in Nat
  BY TablesAssumption, FS_CardinalityType
<1>2. Len(TEST_CASES) \in Nat
  BY TablesAssumption
<1>3. MaxItems \in Nat
  BY <1>1, <1>2 DEF MaxItems
<1>4. Len(ARCHES) \in Nat /\ Len(ARCHES) >= 1 /\ DOMAIN ARCHES = 1..Len(ARCHES)
  BY TablesAssumption
<1> QED BY <1>3, <1>4

\* One is a place in every list.
LEMMA First == 1 \in 1..(MaxItems + 1) /\ 1 \in DOMAIN ARCHES
BY Tables

LEMMA PlanIsSound ==
  ASSUME WhereOK, plan # <<>>
  PROVE  Sound(plan, args)
BY PlanAssumption DEF WhereOK

\* The lists of one profile.
ListsOK(i) ==
  /\ plan[i].arch \in ToSet(ARCHES)
  /\ plan[i].cases \in Seq(ToSet(TEST_CASES)) /\ Len(plan[i].cases) <= MaxItems
  /\ plan[i].pkgs \in Seq(Packages) /\ Len(plan[i].pkgs) <= MaxItems
  /\ \A j, k \in DOMAIN plan[i].cases :
       plan[i].cases[j].name = plan[i].cases[k].name => j = k
  /\ \A j, k \in DOMAIN plan[i].pkgs : plan[i].pkgs[j] = plan[i].pkgs[k] => j = k

LEMMA Lists ==
  ASSUME Sound(plan, args), NEW i \in DOMAIN plan
  PROVE  ListsOK(i)
BY DEF Sound, ListsOK

LEMMA PlanLength ==
  ASSUME Sound(plan, args)
  PROVE  /\ Len(plan) \in Nat /\ Len(plan) >= 1 /\ Len(plan) <= Len(ARCHES)
         /\ DOMAIN plan = 1..Len(plan)
         /\ DOMAIN plan \subseteq DOMAIN ARCHES
<1>1. plan \in Seq(ToSet(plan)) /\ plan # <<>> /\ Len(plan) <= Len(ARCHES)
  BY DEF Sound
<1> QED BY <1>1, Tables

LEMMA ListLengths ==
  ASSUME NEW i, ListsOK(i)
  PROVE  /\ Len(plan[i].cases) \in Nat /\ DOMAIN plan[i].cases = 1..Len(plan[i].cases)
         /\ Len(plan[i].pkgs) \in Nat /\ DOMAIN plan[i].pkgs = 1..Len(plan[i].pkgs)
         /\ Len(plan[i].cases) <= MaxItems /\ Len(plan[i].pkgs) <= MaxItems
         /\ MaxItems \in Nat
BY Tables DEF ListsOK

\* The packages of the cases of a profile are its packages.
LEMMA PackagesListed ==
  ASSUME Sound(plan, args), NEW i \in DOMAIN plan
  PROVE  /\ \A j \in DOMAIN plan[i].cases : \A p \in ToSet(PackagesOf(plan[i].cases[j])) :
              \E k \in DOMAIN plan[i].pkgs : p = plan[i].pkgs[k]
         /\ \A k \in DOMAIN plan[i].pkgs : \E j \in DOMAIN plan[i].cases :
              plan[i].pkgs[k] \in ToSet(PackagesOf(plan[i].cases[j]))
<1>1. ToSet(plan[i].pkgs) = UNION {ToSet(PackagesOf(plan[i].cases[j])) : j \in DOMAIN plan[i].cases}
  BY DEF Sound
<1>2. \A p : p \in ToSet(plan[i].pkgs) <=> \E k \in DOMAIN plan[i].pkgs : p = plan[i].pkgs[k]
  BY DEF ToSet
<1> QED BY <1>1, <1>2

\* The rows of the plan are what was asked for.
LEMMA RowsAsked ==
  ASSUME Sound(plan, args)
  PROVE  /\ \A i \in DOMAIN plan : \A j \in DOMAIN plan[i].cases :
              <<plan[i].arch, plan[i].cases[j]>> \in Asked(args)
         /\ \A x \in Asked(args) : \E i \in DOMAIN plan : \E j \in DOMAIN plan[i].cases :
              x[1] = plan[i].arch /\ x[2] = plan[i].cases[j]
<1>1. Asked(args) = UNION {{plan[i].arch} \X ToSet(plan[i].cases) : i \in DOMAIN plan}
  BY DEF Sound
<1>2. ASSUME NEW i \in DOMAIN plan, NEW j \in DOMAIN plan[i].cases
      PROVE  <<plan[i].arch, plan[i].cases[j]>> \in Asked(args)
  <2>1. plan[i].cases[j] \in ToSet(plan[i].cases)
    BY DEF ToSet
  <2>2. <<plan[i].arch, plan[i].cases[j]>> \in {plan[i].arch} \X ToSet(plan[i].cases)
    BY <2>1
  <2> QED BY <1>1, <2>2
<1>3. ASSUME NEW x \in Asked(args)
      PROVE  \E i \in DOMAIN plan : \E j \in DOMAIN plan[i].cases :
               x[1] = plan[i].arch /\ x[2] = plan[i].cases[j]
  <2>1. PICK i \in DOMAIN plan : x \in {plan[i].arch} \X ToSet(plan[i].cases)
    BY <1>1
  <2>2. x[1] = plan[i].arch /\ x[2] \in ToSet(plan[i].cases)
    BY <2>1
  <2> QED BY <2>2 DEF ToSet
<1> QED BY <1>2, <1>3

AllGood == \A i \in DOMAIN plan : \A j \in DOMAIN plan[i].cases : GoodRow(i, j)

\* A good tree, by the rows of the plan.
LEMMA GoodTreeIs ==
  ASSUME Sound(plan, args), \E i \in DOMAIN plan : plan[i].cases # <<>>
  PROVE  GoodTree <=> fate.seam /\ ToolsOK /\ BladeOK /\ AllGood
<1> DEFINE Deserves(a, c) ==
             /\ \A p \in ToSet(PackagesOf(c)) : PkgBuilds(a, p)
             /\ CaseFate(a, c) = "pass"
             /\ a.name \notin fate.badHal
           Each == \A i \in DOMAIN ARCHES, j \in DOMAIN Cases :
                     (/\ args.arch \in {"", ARCHES[i].name}
                      /\ Applies(ARCHES[i], Cases[j]) /\ RunsOn(ARCHES[i], Cases[j]))
                       => Deserves(ARCHES[i], Cases[j])
<1>1. GoodTree <=> /\ fate.seam /\ ToolsOK /\ fate.toolchain = "root"
                   /\ (NeedsBlade(Cases) => fate.blade) /\ Each
  BY Zenon DEF GoodTree, ToolsOK
<1>2. Each <=> \A x \in Asked(args) : Deserves(x[1], x[2])
  <2> HIDE DEF Deserves
  <2>1. ASSUME Each, NEW x \in Asked(args) PROVE Deserves(x[1], x[2])
    <3>1. PICK i \in DOMAIN ARCHES, j \in DOMAIN SelectedCases(args) :
            x[1] = ARCHES[i] /\ x[2] = SelectedCases(args)[j]
      BY DEF Asked, ToSet
    <3>2. args.arch \in {"", x[1].name} /\ Applies(x[1], x[2]) /\ RunsOn(x[1], x[2])
      BY DEF Asked
    <3> QED BY <2>1, <3>1, <3>2 DEF Cases
  <2>2. ASSUME \A x \in Asked(args) : Deserves(x[1], x[2]),
               NEW i \in DOMAIN ARCHES, NEW j \in DOMAIN Cases,
               args.arch \in {"", ARCHES[i].name},
               Applies(ARCHES[i], Cases[j]), RunsOn(ARCHES[i], Cases[j])
        PROVE  Deserves(ARCHES[i], Cases[j])
    <3>1. <<ARCHES[i], Cases[j]>> \in Asked(args)
      BY <2>2 DEF Asked, ToSet, Cases
    <3> QED BY <2>2, <3>1
  <2> QED BY <2>1, <2>2
<1>3. (\A x \in Asked(args) : Deserves(x[1], x[2]))
        <=> \A i \in DOMAIN plan : \A j \in DOMAIN plan[i].cases :
              Deserves(plan[i].arch, plan[i].cases[j])
  <2> HIDE DEF Deserves
  <2> QED BY RowsAsked
<1>4. PICK m \in DOMAIN plan : plan[m].cases # <<>>
  OBVIOUS
<1>5. 1 \in DOMAIN plan[m].cases
  <2>1. ListsOK(m)
    BY Lists
  <2> QED BY <1>4, <2>1 DEF ListsOK
<1>6. AllGood <=> /\ fate.toolchain = "root"
                  /\ \A i \in DOMAIN plan : \A j \in DOMAIN plan[i].cases :
                       Deserves(plan[i].arch, plan[i].cases[j])
  BY <1>5, Zenon DEF AllGood, GoodRow
<1> HIDE DEF Each, Deserves
<1> QED BY <1>1, <1>2, <1>3, <1>6 DEF BladeOK

-----------------------------------------------------------------------------
(* The thread that prints.                                                 *)

\* The rows of one more profile.
LEMMA RowsOfNext ==
  ASSUME Sound(plan, args), NEW n \in DOMAIN plan
  PROVE  /\ Cardinality(RowsOf(n - 1)) \in Nat
         /\ Cardinality(RowsOf(n)) = Cardinality(RowsOf(n - 1)) + Len(plan[n].cases)
<1> DEFINE Own == {n} \X (1..Len(plan[n].cases))
<1>1. ListsOK(n)
  BY Lists
<1>2. PICK k : k = Len(plan[n].cases)
  OBVIOUS
<1>3. k \in Nat /\ k <= MaxItems /\ DOMAIN plan[n].cases = 1..k /\ MaxItems \in Nat
  BY <1>1, <1>2, ListLengths
<1>4. n \in Nat /\ n >= 1 /\ n - 1 \in Nat
  BY PlanLength
<1>5. RowsOf(n) = RowsOf(n - 1) \cup Own
  BY <1>2, <1>3, <1>4 DEF RowsOf
<1>6. RowsOf(n - 1) \cap Own = {}
  BY <1>4 DEF RowsOf
<1>7. IsFiniteSet(RowsOf(n - 1))
  <2>1. IsFiniteSet(1..(n - 1)) /\ IsFiniteSet(1..MaxItems)
    BY <1>3, <1>4, FS_Interval
  <2>2. IsFiniteSet((1..(n - 1)) \X (1..MaxItems))
    BY <2>1, FS_Product
  <2> QED BY <2>2, FS_Subset DEF RowsOf
<1>8. IsFiniteSet(Own) /\ Cardinality(Own) = k
  <2>1. IsFiniteSet({n}) /\ Cardinality({n}) = 1
    BY FS_Singleton
  <2>2. IsFiniteSet(1..k) /\ Cardinality(1..k) = k
    BY <1>3, FS_Interval
  <2>3. IsFiniteSet({n} \X (1..k)) /\ Cardinality({n} \X (1..k)) = 1 * k
    BY <2>1, <2>2, FS_Product, ZenonT(60)
  <2> QED BY <1>2, <1>3, <2>3
<1> HIDE DEF Own
<1>9. Cardinality(RowsOf(n)) = Cardinality(RowsOf(n - 1)) + Cardinality(Own) - Cardinality({})
  BY <1>5, <1>6, <1>7, <1>8, FS_Union
<1>10. Cardinality(RowsOf(n - 1)) \in Nat
  BY <1>7, FS_CardinalityType
<1> QED BY <1>2, <1>3, <1>8, <1>9, <1>10, FS_EmptySet

LEMMA RowsOfNone == Cardinality(RowsOf(0)) = 0
<1>1. RowsOf(0) = {}
  BY DEF RowsOf
<1> QED BY <1>1, FS_EmptySet

\* While the plan stands, so does what the tree deserves.
LEMMA Steady ==
  ASSUME UNCHANGED <<args, fate, plan>>
  PROVE  /\ GoodTree' <=> GoodTree
         /\ ToolsOK' <=> ToolsOK
         /\ BladeOK' <=> BladeOK
         /\ \A i, j : GoodRow(i, j)' <=> GoodRow(i, j)
         /\ \A n : RowsOf(n)' = RowsOf(n)
<1>1. PlanNames' = PlanNames /\ Cases' = Cases
  BY DEF PlanNames, Cases
<1>2. GoodTree' <=> GoodTree
  BY <1>1 DEF GoodTree, PkgBuilds, CaseFate
<1>3. (ToolsOK' <=> ToolsOK) /\ (BladeOK' <=> BladeOK)
  BY <1>1 DEF ToolsOK, BladeOK
<1>4. \A i, j : GoodRow(i, j)' <=> GoodRow(i, j)
  BY DEF GoodRow, PkgBuilds, CaseFate
<1>5. \A n : RowsOf(n)' = RowsOf(n)
  BY DEF RowsOf
<1> QED BY <1>2, <1>3, <1>4, <1>5

\* The harness ends, with the status the tree deserves.
LEMMA ExitStep ==
  ASSUME SerialInv, NEW status \in {"0", "1", "2"}, NEW lines,
         Exit(status, lines), UNCHANGED <<args, fate, plan>>,
         (\E i \in DOMAIN plan : plan[i].cases # <<>>) => (status = "0" <=> GoodTree)
  PROVE  SerialInv'
<1>1. exit' = status /\ phase' = "over"
      /\ UNCHANGED <<at, next, passed, failed, args, fate, plan>>
  BY DEF Exit
<1>2. WhereOK'
  BY <1>1 DEF SerialInv, WhereOK, Running, Phases, Early
<1>3. Counted'
  BY <1>1 DEF SerialInv, Counted, Early
<1>4. PassedSoFar'
  BY <1>1 DEF PassedSoFar
<1>5. Judged'
  <2>1. \A i, j : GoodRow(i, j)' <=> GoodRow(i, j)
    BY Steady
  <2> QED BY <1>1, <2>1 DEF SerialInv, Judged, InProfile
<1>6. VerdictIsTruth'
  <2>1. GoodTree' <=> GoodTree
    BY Steady
  <2> QED BY <1>1, <2>1 DEF VerdictIsTruth
<1> QED BY <1>2, <1>3, <1>4, <1>5, <1>6 DEF SerialInv

\* On to the next check.
LEMMA EarlyStep ==
  ASSUME SerialInv, phase \in Early \ {"arguments"},
         NEW where \in {"seam", "blade", "toolchain", "profile"}, NEW lines,
         Go(where, lines), UNCHANGED <<args, fate, plan>>, PassedSoFar'
  PROVE  SerialInv'
<1>1. phase' = where /\ next' = 1
      /\ UNCHANGED <<at, passed, failed, exit, args, fate, plan>>
  BY DEF Go
<1>2. WhereOK'
  BY <1>1, First DEF SerialInv, WhereOK, Running, Phases, Early
<1>3. Counted'
  <2>1. passed = 0 /\ failed = 0 /\ at = 1
    BY DEF SerialInv, Counted, WhereOK
  <2>2. RowsOf(0)' = RowsOf(0)
    BY Steady
  <2>3. Cardinality(RowsOf(at - 1))' = 0
    BY <1>1, <2>1, <2>2, RowsOfNone
  <2> QED BY <1>1, <2>1, <2>3 DEF Counted, Early
<1>4. Judged'
  <2>1. failed = 0 /\ at = 1
    BY DEF SerialInv, Counted, WhereOK
  <2> QED BY <1>1, <2>1 DEF Judged, InProfile
<1>5. VerdictIsTruth'
  BY <1>1, <1>2 DEF VerdictIsTruth, WhereOK
<1> QED BY <1>2, <1>3, <1>4, <1>5 DEF SerialInv

LEMMA ParseArgsStep ==
  ASSUME SerialInv, ParseArgs, UNCHANGED <<args, fate>>
  PROVE  SerialInv'
<1>1. phase = "arguments" /\ plan = <<>>
  BY DEF SerialInv, WhereOK, ParseArgs
<1>2. CASE BadArgs(args)
  <2>1. Exit("2", <<<<"usage">>>>) /\ plan' = plan
    BY <1>2 DEF ParseArgs
  <2> QED BY <1>1, <2>1, ExitStep
<1>3. CASE ~BadArgs(args)
  <2>1. phase' = "probe" /\ next' = 1 /\ plan' = Plan(args)
        /\ UNCHANGED <<at, passed, failed, exit, args, fate>>
    BY <1>3 DEF ParseArgs, Go
  <2>2. Sound(Plan(args), args)
    BY <1>3, PlanAssumption DEF SerialInv, WhereOK
  <2>3. Plan(args) # <<>> /\ 1 \in DOMAIN Plan(args)
    BY <2>2 DEF Sound
  <2>4. WhereOK'
    BY <1>1, <1>3, <2>1, <2>3, First DEF SerialInv, WhereOK, Running, Phases, Early
  <2>5. passed = 0 /\ failed = 0
    BY <1>1 DEF SerialInv, Counted, Early
  <2>6. Counted'
    BY <2>1, <2>5 DEF Counted, Early
  <2>7. PassedSoFar'
    BY <2>1 DEF PassedSoFar
  <2>8. Judged'
    BY <2>1, <2>5 DEF Judged, InProfile
  <2>9. VerdictIsTruth'
    BY <2>1, <2>4 DEF VerdictIsTruth, WhereOK
  <2> QED BY <2>4, <2>6, <2>7, <2>8, <2>9 DEF SerialInv
<1> QED BY <1>2, <1>3

\* A nonempty set of numbers has a least one.
LEMMA LeastOf ==
  ASSUME NEW S \in SUBSET Nat, S # {}
  PROVE  Min(S) \in S
<1> DEFINE Less == {ss \in Nat \X Nat : ss[1] < ss[2]}
<1>1. IsWellFoundedOn(Less, Nat)
  BY NatLessThanWellFounded DEF OpToRel
<1>2. PICK n \in S : \A m \in S : <<m, n>> \notin Less
  BY <1>1, WFMin
<1>3. ASSUME NEW m \in S PROVE n <= m
  <2>1. m \in Nat /\ n \in Nat /\ <<m, n>> \in Nat \X Nat
    OBVIOUS
  <2>2. ~(m < n)
    BY <1>2, <2>1
  <2> QED BY <2>1, <2>2
<1> QED BY <1>3 DEF Min

\* The search for a clang finds one when there is one.
LEMMA ClangFound ==
  ASSUME fate \in Fates, NEW names
  PROVE  FindClang(fate.clangs, names) # 0
           <=> \E k \in DOMAIN fate.clangs : names \subseteq fate.clangs[k]
<1> DEFINE I == {i \in 1..Len(fate.clangs) : names \subseteq fate.clangs[i]}
<1>1. FindClang(fate.clangs, names) = IF I # {} THEN Min(I) ELSE 0
  BY DEF FindClang, SelectInSeq
<1>2. DOMAIN fate.clangs = 1..Len(fate.clangs)
  BY FatesAssumption
<1>3. I # {} => Min(I) \in I
  <2>1. I \in SUBSET Nat
    OBVIOUS
  <2> QED BY <2>1, LeastOf
<1>4. I # {} => Min(I) # 0
  BY <1>3
<1>5. I # {} <=> \E k \in DOMAIN fate.clangs : names \subseteq fate.clangs[k]
  BY <1>2
<1> HIDE DEF I
<1> QED BY <1>1, <1>4, <1>5

\* A tree that is not good, and why.
LEMMA NotGood ==
  ASSUME Sound(plan, args), \E i \in DOMAIN plan : plan[i].cases # <<>>
  PROVE  /\ ~ToolsOK => ~GoodTree
         /\ ~fate.seam => ~GoodTree
         /\ ~BladeOK => ~GoodTree
         /\ fate.toolchain # "root" => ~GoodTree
         /\ (\E i \in DOMAIN plan : \E j \in DOMAIN plan[i].cases : ~GoodRow(i, j)) => ~GoodTree
<1>1. GoodTree <=> fate.seam /\ ToolsOK /\ BladeOK /\ AllGood
  BY GoodTreeIs
<1>2. GoodTree => fate.toolchain = "root"
  BY DEF GoodTree
<1>3. AllGood => ~\E i \in DOMAIN plan : \E j \in DOMAIN plan[i].cases : ~GoodRow(i, j)
  BY DEF AllGood
<1> QED BY <1>1, <1>2, <1>3

LEMMA ProbeToolsStep ==
  ASSUME SerialInv, ProbeTools, UNCHANGED <<args, fate, plan>>
  PROVE  SerialInv'
<1>1. phase = "probe" /\ plan # <<>> /\ fate \in Fates
  BY DEF SerialInv, WhereOK, ProbeTools
<1>2. Sound(plan, args)
  BY <1>1, PlanIsSound DEF SerialInv
<1>3. ToolsOK <=> PlanNames \subseteq fate.qemus /\ fate.lld /\ FindClang(fate.clangs, PlanNames) # 0
  <2>1. FindClang(fate.clangs, PlanNames) # 0
          <=> \E k \in DOMAIN fate.clangs : PlanNames \subseteq fate.clangs[k]
    BY <1>1, ClangFound
  <2> QED BY <2>1 DEF ToolsOK
<1>4. CASE ToolsOK
  <2>1. Go("seam", <<>>)
    BY <1>3, <1>4 DEF ProbeTools
  <2>2. phase' = "seam"
    BY <2>1 DEF Go
  <2>3. PassedSoFar'
    BY <1>4, <2>2, Steady DEF PassedSoFar
  <2> QED BY <1>1, <2>1, <2>3, EarlyStep DEF Early
<1>5. CASE ~ToolsOK
  <2>1. Exit("2", <<<<"prerequisites">>>>)
    BY <1>3, <1>5 DEF ProbeTools
  <2>2. (\E i \in DOMAIN plan : plan[i].cases # <<>>) => ("2" = "0" <=> GoodTree)
    BY <1>2, <1>5, NotGood
  <2> QED BY <2>1, <2>2, ExitStep
<1> QED BY <1>4, <1>5

LEMMA CheckSeamStep ==
  ASSUME SerialInv, CheckSeam, UNCHANGED <<args, fate, plan>>
  PROVE  SerialInv'
<1>1. phase = "seam" /\ plan # <<>> /\ ToolsOK
  BY DEF SerialInv, WhereOK, CheckSeam, PassedSoFar
<1>2. Sound(plan, args)
  BY <1>1, PlanIsSound DEF SerialInv
<1>3. CASE fate.seam
  <2>1. Go("blade", <<<<"header">>>>)
    BY <1>3 DEF CheckSeam
  <2>2. phase' = "blade"
    BY <2>1 DEF Go
  <2>3. PassedSoFar'
    BY <1>1, <1>3, <2>2, Steady DEF PassedSoFar
  <2> QED BY <1>1, <2>1, <2>3, EarlyStep DEF Early
<1>4. CASE ~fate.seam
  <2>1. Exit("1", <<<<"seam">>>>)
    BY <1>4 DEF CheckSeam
  <2>2. (\E i \in DOMAIN plan : plan[i].cases # <<>>) => ("1" = "0" <=> GoodTree)
    BY <1>2, <1>4, NotGood
  <2> QED BY <2>1, <2>2, ExitStep
<1> QED BY <1>3, <1>4

LEMMA BuildBladeStep ==
  ASSUME SerialInv, BuildBlade, UNCHANGED <<args, fate, plan>>
  PROVE  SerialInv'
<1>1. phase = "blade" /\ plan # <<>> /\ ToolsOK /\ fate.seam
  BY DEF SerialInv, WhereOK, BuildBlade, PassedSoFar
<1>2. Sound(plan, args)
  BY <1>1, PlanIsSound DEF SerialInv
<1>3. ASSUME NEW lines, Go("toolchain", lines), BladeOK
      PROVE  SerialInv'
  <2>1. phase' = "toolchain"
    BY <1>3 DEF Go
  <2>2. PassedSoFar'
    BY <1>1, <1>3, <2>1, Steady DEF PassedSoFar
  <2> QED BY <1>1, <1>3, <2>2, EarlyStep DEF Early
<1>4. ASSUME NEW lines, Exit("1", lines), ~BladeOK \/ fate.toolchain # "root"
      PROVE  SerialInv'
  <2>1. (\E i \in DOMAIN plan : plan[i].cases # <<>>) => ("1" = "0" <=> GoodTree)
    BY <1>2, <1>4, NotGood
  <2> QED BY <1>4, <2>1, ExitStep
<1>5. CASE ~NeedsBlade(Cases)
  BY <1>3, <1>5 DEF BuildBlade, BladeOK
<1>6. CASE NeedsBlade(Cases) /\ fate.toolchain = "refused"
  BY <1>4, <1>6 DEF BuildBlade
<1>7. CASE NeedsBlade(Cases) /\ fate.toolchain = "bare"
  BY <1>4, <1>7 DEF BuildBlade
<1>8. CASE NeedsBlade(Cases) /\ fate.toolchain = "root" /\ ~fate.blade
  BY <1>4, <1>8 DEF BuildBlade, BladeOK
<1>9. CASE /\ NeedsBlade(Cases) /\ fate.toolchain \notin {"refused", "bare"}
           /\ ~(fate.toolchain = "root" /\ ~fate.blade)
  BY <1>3, <1>9 DEF BuildBlade, BladeOK
<1> QED BY <1>5, <1>6, <1>7, <1>8, <1>9

LEMMA ResolveToolchainStep ==
  ASSUME SerialInv, ResolveToolchain, UNCHANGED <<args, fate, plan>>
  PROVE  SerialInv'
<1>1. phase = "toolchain" /\ plan # <<>> /\ ToolsOK /\ fate.seam /\ BladeOK
  BY DEF SerialInv, WhereOK, ResolveToolchain, PassedSoFar
<1>2. Sound(plan, args)
  BY <1>1, PlanIsSound DEF SerialInv
<1>3. CASE fate.toolchain # "refused"
  <2>1. Go("profile", <<>>)
    BY <1>3 DEF ResolveToolchain
  <2>2. phase' = "profile"
    BY <2>1 DEF Go
  <2>3. PassedSoFar'
    BY <1>1, <2>2, Steady DEF PassedSoFar
  <2> QED BY <1>1, <2>1, <2>3, EarlyStep DEF Early
<1>4. CASE fate.toolchain = "refused"
  <2>1. Exit("1", <<<<"refusal">>>>)
    BY <1>4 DEF ResolveToolchain
  <2>2. (\E i \in DOMAIN plan : plan[i].cases # <<>>) => ("1" = "0" <=> GoodTree)
    BY <1>2, <1>4, NotGood
  <2> QED BY <2>1, <2>2, ExitStep
<1> QED BY <1>3, <1>4

\* The printing thread is inside a profile of a sound plan.
LEMMA InsideProfile ==
  ASSUME SerialInv, phase \in InProfile \cup {"verdict"}
  PROVE  /\ Sound(plan, args) /\ at \in DOMAIN plan /\ ListsOK(at)
         /\ plan # <<>> /\ exit = Running
         /\ at \in Nat /\ at >= 1 /\ at <= Len(plan)
         /\ Len(plan) \in Nat /\ DOMAIN plan = 1..Len(plan)
         /\ ToolsOK /\ fate.seam /\ BladeOK
         /\ passed \in Nat /\ failed \in Nat /\ next \in Nat /\ next >= 1
<1>1. WhereOK /\ PassedSoFar /\ Counted
  BY DEF SerialInv
<1>2. plan # <<>> /\ at \in DOMAIN plan /\ exit = Running
  BY <1>1 DEF WhereOK, InProfile
<1>3. Sound(plan, args)
  BY <1>1, <1>2, PlanIsSound
<1>4. ToolsOK /\ fate.seam /\ BladeOK
  BY <1>1 DEF PassedSoFar, InProfile
<1>5. ListsOK(at)
  BY <1>2, <1>3, Lists
<1>6. Len(plan) \in Nat /\ DOMAIN plan = 1..Len(plan)
  BY <1>3, PlanLength
<1>7. at \in Nat /\ at >= 1 /\ at <= Len(plan)
  BY <1>2, <1>6
<1>8. next \in Nat /\ next >= 1
  BY <1>1, Tables DEF WhereOK
<1>9. passed \in Nat /\ failed \in Nat
  BY <1>1 DEF Counted
<1> QED BY <1>2, <1>3, <1>4, <1>5, <1>6, <1>7, <1>8, <1>9

\* _run_arch returns with every case of the profile counted and judged.
LEMMA ReturnStep ==
  ASSUME SerialInv, phase \in InProfile, NEW fewer \in Nat, NEW lines,
         Return(lines, fewer), UNCHANGED <<args, fate, plan>>,
         passed + failed + fewer = Cardinality(RowsOf(at)),
         failed + fewer = 0 => \A j \in DOMAIN HereCases : GoodRow(at, j),
         failed + fewer > 0 =>
           \E i \in DOMAIN plan : \E j \in DOMAIN plan[i].cases : ~GoodRow(i, j)
  PROVE  SerialInv'
<1>1. /\ Sound(plan, args) /\ at \in DOMAIN plan /\ plan # <<>> /\ exit = Running
      /\ at \in Nat /\ at >= 1 /\ at <= Len(plan)
      /\ Len(plan) \in Nat /\ DOMAIN plan = 1..Len(plan)
      /\ ToolsOK /\ fate.seam /\ BladeOK
      /\ passed \in Nat /\ failed \in Nat
  BY InsideProfile
<1>2. next' = 1 /\ failed' = failed + fewer
      /\ UNCHANGED <<passed, exit, args, fate, plan>>
  BY DEF Return
<1>3. \/ at < Len(plan) /\ at' = at + 1 /\ phase' = "profile"
      \/ at = Len(plan) /\ at' = at /\ phase' = "verdict"
  BY <1>1 DEF Return
<1>4. at' \in DOMAIN plan
  BY <1>1, <1>3
<1>5. WhereOK'
  <2>1. at' \in DOMAIN ARCHES
    BY <1>1, <1>4, PlanLength
  <2>2. at' = Len(plan) \/ phase' = "profile"
    BY <1>3
  <2> QED BY <1>1, <1>2, <1>3, <1>4, <2>1, <2>2, First
          DEF SerialInv, WhereOK, Running, Phases, Early
<1>6. \A n : RowsOf(n)' = RowsOf(n)
  BY <1>2, Steady
<1>7. Counted'
  <2>1. CASE at' = at + 1 /\ phase' = "profile"
    <3>1. at' - 1 = at
      BY <1>1, <2>1
    <3>2. passed' + failed' = Cardinality(RowsOf(at' - 1))
      BY <1>1, <1>2, <3>1
    <3> QED BY <1>1, <1>2, <1>6, <2>1, <3>2 DEF Counted, Early
  <2>2. CASE at' = at /\ phase' = "verdict"
    <3>1. passed' + failed' = Cardinality(RowsOf(at'))
      BY <1>1, <1>2, <2>2
    <3> QED BY <1>1, <1>2, <1>6, <2>2, <3>1 DEF Counted, Early
  <2> QED BY <1>3, <2>1, <2>2
<1>8. PassedSoFar'
  BY <1>1, <1>2, <1>3, Steady DEF PassedSoFar
<1>9. Judged'
  <2>1. \A i, j : GoodRow(i, j)' <=> GoodRow(i, j)
    BY <1>2, Steady
  <2>2. ASSUME failed' = 0
        PROVE  \A i \in 1..at : \A j \in DOMAIN plan[i].cases : GoodRow(i, j)
    <3>1. failed = 0 /\ failed + fewer = 0
      BY <1>1, <1>2, <2>2
    <3>2. \A i \in 1..(at - 1) : \A j \in DOMAIN plan[i].cases : GoodRow(i, j)
      BY <3>1 DEF SerialInv, Judged
    <3>3. \A j \in DOMAIN plan[at].cases : GoodRow(at, j)
      BY <3>1 DEF HereCases
    <3>4. \A i \in 1..at : i = at \/ i \in 1..(at - 1)
      BY <1>1
    <3> QED BY <3>2, <3>3, <3>4
  <2>3. failed' = 0 => /\ \A i \in 1..(at' - 1) : \A j \in DOMAIN plan[i].cases : GoodRow(i, j)
                       /\ phase' = "verdict" => \A j \in DOMAIN plan[at'].cases : GoodRow(at', j)
    <3>1. \A i \in 1..(at' - 1) : i \in 1..at
      BY <1>1, <1>3
    <3>2. phase' = "verdict" => at' \in 1..at
      BY <1>1, <1>3
    <3> QED BY <2>2, <3>1, <3>2
  <2>4. failed' > 0 => \E i \in DOMAIN plan : \E j \in DOMAIN plan[i].cases : ~GoodRow(i, j)
    BY <1>2
  <2> QED BY <1>2, <1>3, <2>1, <2>3, <2>4 DEF Judged, HereCases
<1>10. VerdictIsTruth'
  BY <1>1, <1>2 DEF VerdictIsTruth
<1> QED BY <1>5, <1>7, <1>8, <1>9, <1>10 DEF SerialInv

\* The profile is given up: all its cases fail, and one of them is not good.
LEMMA GiveUpProfile ==
  ASSUME SerialInv, phase \in {"profile", "packages"}, NEW lines,
         Return(lines, Len(HereCases)), UNCHANGED <<args, fate, plan>>,
         HereCases # <<>> => \E j \in DOMAIN HereCases : ~GoodRow(at, j)
  PROVE  SerialInv'
<1>1. /\ Sound(plan, args) /\ at \in DOMAIN plan /\ ListsOK(at)
      /\ passed \in Nat /\ failed \in Nat
  BY InsideProfile DEF InProfile
<1>2. PICK k : k = Len(HereCases)
  OBVIOUS
<1>3. k \in Nat /\ (k > 0 => HereCases # <<>>) /\ DOMAIN HereCases = 1..k
  BY <1>1, <1>2 DEF HereCases, ListsOK
<1>4. passed + failed + k = Cardinality(RowsOf(at))
  <2>1. passed + failed = Cardinality(RowsOf(at - 1))
    BY DEF SerialInv, Counted
  <2>2. Cardinality(RowsOf(at)) = Cardinality(RowsOf(at - 1)) + k
    BY <1>1, <1>2, RowsOfNext DEF HereCases
  <2> QED BY <2>1, <2>2
<1>5. failed + k = 0 => \A j \in DOMAIN HereCases : GoodRow(at, j)
  BY <1>1, <1>3
<1>6. failed + k > 0 => \E i \in DOMAIN plan : \E j \in DOMAIN plan[i].cases : ~GoodRow(i, j)
  <2>1. CASE k > 0
    BY <1>1, <1>3, <2>1 DEF HereCases
  <2>2. CASE failed > 0
    BY <2>2 DEF SerialInv, Judged
  <2> QED BY <1>1, <1>3, <2>1, <2>2
<1>7. Return(lines, k)
  BY <1>2
<1> QED BY <1>3, <1>4, <1>5, <1>6, <1>7, ReturnStep DEF InProfile

LEMMA BuildSharedStep ==
  ASSUME SerialInv, BuildShared, UNCHANGED <<args, fate, plan>>
  PROVE  SerialInv'
<1>1. phase = "profile"
  BY DEF BuildShared
<1>2. /\ Sound(plan, args) /\ at \in DOMAIN plan /\ plan # <<>> /\ exit = Running
      /\ ListsOK(at) /\ ToolsOK /\ fate.seam /\ BladeOK
  BY <1>1, InsideProfile DEF InProfile
<1>3. CASE Here.name \in fate.badHal
  <2>1. Return(<<Banner(Here), <<"hal failed", Here.name>>>>, Len(HereCases))
    BY <1>3 DEF BuildShared
  <2>2. HereCases # <<>> => \E j \in DOMAIN HereCases : ~GoodRow(at, j)
    <3>1. HereCases # <<>> => 1 \in DOMAIN HereCases
      BY <1>2 DEF HereCases, ListsOK
    <3>2. \A j : ~GoodRow(at, j)
      BY <1>3 DEF GoodRow, Here
    <3> QED BY <3>1, <3>2
  <2> QED BY <1>1, <2>1, <2>2, GiveUpProfile
<1>4. CASE Here.name \notin fate.badHal
  <2>1. phase' = "packages" /\ next' = 1
        /\ UNCHANGED <<at, passed, failed, exit, args, fate, plan>>
    BY <1>4 DEF BuildShared, Go
  <2>2. WhereOK'
    <3>1. 1 <= Len(plan[at].pkgs) + 1
      BY <1>2, ListLengths
    <3> QED BY <1>1, <1>2, <2>1, <3>1, First DEF SerialInv, WhereOK, Running, Phases, Early, HerePkgs
  <2>3. Counted'
    BY <1>1, <2>1, Steady DEF SerialInv, Counted, Early
  <2>4. PassedSoFar'
    BY <1>2, <2>1, Steady DEF PassedSoFar
  <2>5. Judged'
    <3>1. \A k \in DOMAIN plan[at].pkgs : ~(k < 1)
      BY <1>2, ListLengths
    <3>2. \A i, j : GoodRow(i, j)' <=> GoodRow(i, j)
      BY <2>1, Steady
    <3> QED BY <1>1, <1>4, <2>1, <3>1, <3>2 DEF SerialInv, Judged, Here, HerePkgs, HereCases, InProfile
  <2>6. VerdictIsTruth'
    BY <1>2, <2>1 DEF VerdictIsTruth
  <2> QED BY <2>2, <2>3, <2>4, <2>5, <2>6 DEF SerialInv
<1> QED BY <1>3, <1>4

LEMMA PackageLineStep ==
  ASSUME SerialInv, phase = "packages", next <= Len(HerePkgs),
         PackageLine(PkgBuilds(Here, HerePkgs[next])), UNCHANGED <<args, fate, plan>>
  PROVE  SerialInv'
<1>1. /\ Sound(plan, args) /\ at \in DOMAIN plan /\ plan # <<>> /\ exit = Running
      /\ ListsOK(at) /\ ToolsOK /\ fate.seam /\ BladeOK
      /\ next \in Nat /\ next >= 1
  BY InsideProfile DEF InProfile
<1>2. next \in DOMAIN HerePkgs /\ DOMAIN HerePkgs = 1..Len(HerePkgs)
      /\ Len(HerePkgs) \in Nat /\ Len(HerePkgs) <= MaxItems /\ MaxItems \in Nat
  BY <1>1, ListLengths DEF HerePkgs
<1>3. CASE ~PkgBuilds(Here, HerePkgs[next])
  <2>1. Return(<<<<"package failed", Here.name, HerePkgs[next]>>>>, Len(HereCases))
    BY <1>3 DEF PackageLine
  <2>2. PICK j \in DOMAIN plan[at].cases :
          plan[at].pkgs[next] \in ToSet(PackagesOf(plan[at].cases[j]))
    BY <1>1, <1>2, PackagesListed DEF HerePkgs
  <2>3. ~GoodRow(at, j)
    BY <1>3, <2>2 DEF GoodRow, Here, HerePkgs
  <2> QED BY <2>1, <2>2, <2>3, GiveUpProfile DEF HereCases
<1>4. CASE PkgBuilds(Here, HerePkgs[next])
  <2>1. next' = next + 1
        /\ UNCHANGED <<at, phase, passed, failed, exit, args, fate, plan>>
    BY <1>4 DEF PackageLine
  <2>2. next + 1 \in 1..(MaxItems + 1) /\ next + 1 <= Len(HerePkgs) + 1
    BY <1>1, <1>2
  <2>3. WhereOK'
    BY <1>1, <2>1, <2>2 DEF SerialInv, WhereOK, Running, Phases, Early, HerePkgs
  <2>4. Counted'
    BY <2>1, Steady DEF SerialInv, Counted, Early
  <2>5. PassedSoFar'
    BY <1>1, <2>1, Steady DEF PassedSoFar
  <2>6. Judged'
    <3>1. \A k \in DOMAIN plan[at].pkgs : k < next + 1 => k = next \/ k < next
      BY <1>1, <1>2 DEF HerePkgs
    <3>2. \A i, j : GoodRow(i, j)' <=> GoodRow(i, j)
      BY <2>1, Steady
    <3>3. \A p : PkgBuilds(plan[at].arch, p)' <=> PkgBuilds(plan[at].arch, p)
      BY <2>1 DEF PkgBuilds
    <3>4. \A k \in DOMAIN plan[at].pkgs : k < next + 1 => PkgBuilds(plan[at].arch, plan[at].pkgs[k])
      BY <1>4, <3>1 DEF SerialInv, Judged, Here, HerePkgs
    <3>5. Here.name \notin fate.badHal
      BY DEF SerialInv, Judged
    <3>6. /\ failed = 0 => \A i \in 1..(at - 1) : \A j \in DOMAIN plan[i].cases : GoodRow(i, j)
          /\ failed > 0 => \E i \in DOMAIN plan : \E j \in DOMAIN plan[i].cases : ~GoodRow(i, j)
      BY DEF SerialInv, Judged, InProfile
    <3> QED BY <2>1, <3>2, <3>3, <3>4, <3>5, <3>6 DEF Judged, Here, HerePkgs, HereCases, InProfile
  <2>7. VerdictIsTruth'
    BY <1>1, <2>1 DEF VerdictIsTruth
  <2> QED BY <2>3, <2>4, <2>5, <2>6, <2>7 DEF SerialInv
<1> QED BY <1>3, <1>4

LEMMA ImagesReadyStep ==
  ASSUME SerialInv, ImagesReady, UNCHANGED <<args, fate, plan>>
  PROVE  SerialInv'
<1>1. phase = "packages" /\ next > Len(HerePkgs)
  BY DEF ImagesReady
<1>2. /\ Sound(plan, args) /\ at \in DOMAIN plan /\ plan # <<>> /\ exit = Running
      /\ ListsOK(at) /\ ToolsOK /\ fate.seam /\ BladeOK
      /\ next \in Nat /\ next >= 1 /\ passed \in Nat /\ failed \in Nat
  BY <1>1, InsideProfile DEF InProfile
<1>3. phase' = "cases" /\ next' = 1
      /\ UNCHANGED <<at, passed, failed, exit, args, fate, plan>>
  BY DEF ImagesReady, Go
<1>4. WhereOK'
  <2>1. 1 <= Len(plan[at].cases) + 1
    BY <1>2, ListLengths
  <2> QED BY <1>2, <1>3, <2>1, First DEF SerialInv, WhereOK, Running, Phases, Early, HereCases
<1>5. Counted'
  <2>1. passed + failed = Cardinality(RowsOf(at - 1)) + 0
    BY <1>1, <1>2 DEF SerialInv, Counted
  <2> QED BY <1>2, <1>3, <2>1, Steady DEF Counted, Early
<1>6. PassedSoFar'
  BY <1>2, <1>3, Steady DEF PassedSoFar
<1>7. Judged'
  <2>1. \A k \in DOMAIN plan[at].pkgs : k < next
    BY <1>1, <1>2, ListLengths DEF HerePkgs
  <2>2. \A i, j : GoodRow(i, j)' <=> GoodRow(i, j)
    BY <1>3, Steady
  <2>3. \A p : PkgBuilds(plan[at].arch, p)' <=> PkgBuilds(plan[at].arch, p)
    BY <1>3 DEF PkgBuilds
  <2>4. \A k \in DOMAIN plan[at].pkgs : PkgBuilds(plan[at].arch, plan[at].pkgs[k])
    BY <1>1, <2>1 DEF SerialInv, Judged, Here, HerePkgs
  <2>5. Here.name \notin fate.badHal
    BY <1>1 DEF SerialInv, Judged
  <2>6. /\ failed = 0 => \A i \in 1..(at - 1) : \A j \in DOMAIN plan[i].cases : GoodRow(i, j)
        /\ failed > 0 => \E i \in DOMAIN plan : \E j \in DOMAIN plan[i].cases : ~GoodRow(i, j)
    BY <1>1 DEF SerialInv, Judged, InProfile
  <2>7. \A j \in DOMAIN plan[at].cases : ~(j < 1)
    BY <1>2, ListLengths
  <2> QED BY <1>3, <2>2, <2>3, <2>4, <2>5, <2>6, <2>7 DEF Judged, Here, HerePkgs, HereCases, InProfile
<1>8. VerdictIsTruth'
  BY <1>2, <1>3 DEF VerdictIsTruth
<1> QED BY <1>4, <1>5, <1>6, <1>7, <1>8 DEF SerialInv

LEMMA CaseRowStep ==
  ASSUME SerialInv, fate.toolchain = "root", phase = "cases", next <= Len(HereCases),
         CaseRow(CaseFate(Here, HereCases[next])), UNCHANGED <<args, fate, plan>>
  PROVE  SerialInv'
<1>1. /\ Sound(plan, args) /\ at \in DOMAIN plan /\ plan # <<>> /\ exit = Running
      /\ ListsOK(at) /\ ToolsOK /\ fate.seam /\ BladeOK
      /\ next \in Nat /\ next >= 1 /\ passed \in Nat /\ failed \in Nat
  BY InsideProfile DEF InProfile
<1>2. next \in DOMAIN HereCases /\ DOMAIN HereCases = 1..Len(HereCases)
      /\ Len(HereCases) \in Nat /\ Len(HereCases) <= MaxItems /\ MaxItems \in Nat
  BY <1>1, ListLengths DEF HereCases
<1>3. PICK v : v = CaseFate(Here, HereCases[next])
  OBVIOUS
<1>4. next' = next + 1 /\ UNCHANGED <<at, phase, exit, args, fate, plan>>
  BY DEF CaseRow
<1>5. \/ v = "pass" /\ passed' = passed + 1 /\ failed' = failed
      \/ v # "pass" /\ failed' = failed + 1 /\ passed' = passed
  BY <1>3 DEF CaseRow
<1>6. WhereOK'
  <2>1. next + 1 \in 1..(MaxItems + 1) /\ next + 1 <= Len(HereCases) + 1
    BY <1>1, <1>2
  <2> QED BY <1>1, <1>4, <2>1 DEF SerialInv, WhereOK, Running, Phases, Early, HereCases
<1>7. Counted'
  <2>1. passed + failed = Cardinality(RowsOf(at - 1)) + (next - 1)
    BY DEF SerialInv, Counted
  <2>2. Cardinality(RowsOf(at - 1)) \in Nat
    BY <1>1, RowsOfNext
  <2>3. passed' + failed' = Cardinality(RowsOf(at - 1)) + (next' - 1)
        /\ passed' \in Nat /\ failed' \in Nat
    BY <1>1, <1>4, <1>5, <2>1, <2>2, SMTT(30)
  <2> QED BY <1>4, <2>3, Steady DEF Counted, Early
<1>8. PassedSoFar'
  BY <1>1, <1>4, Steady DEF PassedSoFar
<1>9. Judged'
  <2>1. GoodRow(at, next) <=> v = "pass"
    <3>1. \A p \in ToSet(PackagesOf(plan[at].cases[next])) : PkgBuilds(plan[at].arch, p)
      <4>1. \A k \in DOMAIN plan[at].pkgs : PkgBuilds(plan[at].arch, plan[at].pkgs[k])
        BY DEF SerialInv, Judged, Here, HerePkgs
      <4>2. \A p \in ToSet(PackagesOf(plan[at].cases[next])) :
              \E k \in DOMAIN plan[at].pkgs : p = plan[at].pkgs[k]
        BY <1>1, <1>2, PackagesListed DEF HereCases
      <4> QED BY <4>1, <4>2
    <3>2. plan[at].arch.name \notin fate.badHal
      BY DEF SerialInv, Judged, Here
    <3> QED BY <1>3, <3>1, <3>2 DEF GoodRow, Here, HereCases
  <2>2. \A i, j : GoodRow(i, j)' <=> GoodRow(i, j)
    BY <1>4, Steady
  <2>3. \A p : PkgBuilds(plan[at].arch, p)' <=> PkgBuilds(plan[at].arch, p)
    BY <1>4 DEF PkgBuilds
  <2>4. /\ \A k \in DOMAIN plan[at].pkgs : PkgBuilds(plan[at].arch, plan[at].pkgs[k])
        /\ plan[at].arch.name \notin fate.badHal
    BY DEF SerialInv, Judged, Here, HerePkgs
  <2>5. failed' = 0 =>
          /\ \A i \in 1..(at - 1) : \A j \in DOMAIN plan[i].cases : GoodRow(i, j)
          /\ \A j \in DOMAIN plan[at].cases : j < next + 1 => GoodRow(at, j)
    <3> SUFFICES ASSUME failed' = 0
                 PROVE  /\ \A i \in 1..(at - 1) : \A j \in DOMAIN plan[i].cases : GoodRow(i, j)
                        /\ \A j \in DOMAIN plan[at].cases : j < next + 1 => GoodRow(at, j)
      OBVIOUS
    <3>1. failed = 0 /\ v = "pass"
      BY <1>1, <1>5
    <3>2. /\ \A i \in 1..(at - 1) : \A j \in DOMAIN plan[i].cases : GoodRow(i, j)
          /\ \A j \in DOMAIN plan[at].cases : j < next => GoodRow(at, j)
      BY <3>1 DEF SerialInv, Judged, InProfile, HereCases
    <3>3. \A j \in DOMAIN plan[at].cases : j < next + 1 => j < next \/ j = next
      BY <1>1, <1>2 DEF HereCases
    <3> QED BY <2>1, <3>1, <3>2, <3>3
  <2>6. failed' > 0 => \E i \in DOMAIN plan : \E j \in DOMAIN plan[i].cases : ~GoodRow(i, j)
    <3>1. CASE failed > 0
      BY <3>1 DEF SerialInv, Judged
    <3>2. CASE v # "pass"
      BY <1>1, <1>2, <2>1, <3>2 DEF HereCases
    <3> QED BY <1>1, <1>5, <3>1, <3>2
  <2> QED BY <1>4, <2>2, <2>3, <2>4, <2>5, <2>6 DEF Judged, Here, HerePkgs, HereCases, InProfile
<1>10. VerdictIsTruth'
  BY <1>1, <1>4 DEF VerdictIsTruth
<1> QED BY <1>6, <1>7, <1>8, <1>9, <1>10 DEF SerialInv

LEMMA CaseEscapesStep ==
  ASSUME SerialInv, fate.toolchain # "root", CaseEscapes, UNCHANGED <<args, fate, plan>>
  PROVE  SerialInv'
<1>1. phase = "cases" /\ Exit("1", <<<<"traceback">>>>)
  BY DEF CaseEscapes
<1>2. Sound(plan, args)
  BY <1>1, InsideProfile DEF InProfile
<1>3. (\E i \in DOMAIN plan : plan[i].cases # <<>>) => ("1" = "0" <=> GoodTree)
  BY <1>2, NotGood
<1> QED BY <1>1, <1>3, ExitStep

LEMMA RowsDoneStep ==
  ASSUME SerialInv, RowsDone, UNCHANGED <<args, fate, plan>>
  PROVE  SerialInv'
<1>1. phase = "cases" /\ next > Len(HereCases) /\ Return(<<>>, 0)
  BY DEF RowsDone
<1>2. /\ Sound(plan, args) /\ at \in DOMAIN plan /\ ListsOK(at)
      /\ next \in Nat /\ next >= 1 /\ passed \in Nat /\ failed \in Nat
  BY <1>1, InsideProfile DEF InProfile
<1>3. PICK k : k = Len(HereCases)
  OBVIOUS
<1>4. k \in Nat /\ DOMAIN HereCases = 1..k
  BY <1>2, <1>3, ListLengths DEF HereCases
<1>5. next = k + 1
  BY <1>1, <1>2, <1>3, <1>4 DEF SerialInv, WhereOK
<1>6. passed + failed + 0 = Cardinality(RowsOf(at))
  <2>1. passed + failed = Cardinality(RowsOf(at - 1)) + (next - 1)
    BY <1>1 DEF SerialInv, Counted
  <2>2. Cardinality(RowsOf(at)) = Cardinality(RowsOf(at - 1)) + k
    BY <1>2, <1>3, RowsOfNext DEF HereCases
  <2>3. Cardinality(RowsOf(at - 1)) \in Nat
    BY <1>2, RowsOfNext
  <2> QED BY <1>2, <1>4, <1>5, <2>1, <2>2, <2>3
<1>7. failed + 0 = 0 => \A j \in DOMAIN HereCases : GoodRow(at, j)
  <2>1. \A j \in DOMAIN HereCases : j < next
    BY <1>4, <1>5
  <2> QED BY <1>1, <1>2, <2>1 DEF SerialInv, Judged
<1>8. failed + 0 > 0 => \E i \in DOMAIN plan : \E j \in DOMAIN plan[i].cases : ~GoodRow(i, j)
  BY <1>2 DEF SerialInv, Judged
<1> QED BY <1>1, <1>6, <1>7, <1>8, ReturnStep DEF InProfile

LEMMA VerdictStep ==
  ASSUME SerialInv, Verdict, UNCHANGED <<args, fate, plan>>
  PROVE  SerialInv'
<1>1. phase = "verdict" /\ at = Len(plan)
  BY DEF Verdict, SerialInv, WhereOK
<1>2. /\ Sound(plan, args) /\ at \in DOMAIN plan /\ at \in Nat /\ at >= 1
      /\ DOMAIN plan = 1..Len(plan)
      /\ ToolsOK /\ fate.seam /\ BladeOK /\ failed \in Nat
  BY <1>1, InsideProfile
<1>3. CASE failed = 0
  <2>1. Exit("0", <<<<"ALL PASSED", passed>>>>)
    BY <1>3 DEF Verdict
  <2>2. AllGood
    <3>1. \A i \in 1..(at - 1) : \A j \in DOMAIN plan[i].cases : GoodRow(i, j)
      BY <1>1, <1>3 DEF SerialInv, Judged
    <3>2. \A j \in DOMAIN plan[at].cases : GoodRow(at, j)
      BY <1>1, <1>3 DEF SerialInv, Judged, HereCases
    <3>3. \A i \in DOMAIN plan : i = at \/ i \in 1..(at - 1)
      BY <1>1, <1>2
    <3> QED BY <3>1, <3>2, <3>3 DEF AllGood
  <2>3. (\E i \in DOMAIN plan : plan[i].cases # <<>>) => ("0" = "0" <=> GoodTree)
    BY <1>2, <2>2, GoodTreeIs
  <2> QED BY <2>1, <2>3, ExitStep
<1>4. CASE failed # 0
  <2>1. Exit("1", <<<<"FAILED", passed, failed>>>>)
    BY <1>4 DEF Verdict
  <2>2. \E i \in DOMAIN plan : \E j \in DOMAIN plan[i].cases : ~GoodRow(i, j)
    BY <1>2, <1>4 DEF SerialInv, Judged
  <2>3. (\E i \in DOMAIN plan : plan[i].cases # <<>>) => ("1" = "0" <=> GoodTree)
    BY <1>2, <2>2, NotGood
  <2> QED BY <2>1, <2>3, ExitStep
<1> QED BY <1>3, <1>4

LEMMA SerialInitial == Init => SerialInv
<1> SUFFICES ASSUME Init PROVE SerialInv
  OBVIOUS
<1> USE DEF Init
<1>1. WhereOK
  BY First DEF WhereOK, Phases, Running, Early
<1>2. Counted
  BY DEF Counted, Early
<1>3. PassedSoFar /\ VerdictIsTruth
  BY DEF PassedSoFar, VerdictIsTruth
<1>4. Judged
  BY DEF Judged, InProfile
<1> QED BY <1>1, <1>2, <1>3, <1>4 DEF SerialInv

LEMMA SerialStutter ==
  ASSUME SerialInv, UNCHANGED sVars
  PROVE  SerialInv'
<1>1. UNCHANGED <<args, fate, plan, at, phase, next, passed, failed, exit>>
  BY DEF sVars
<1>2. WhereOK'
  BY <1>1 DEF SerialInv, WhereOK, HerePkgs, HereCases
<1>3. \A n : RowsOf(n)' = RowsOf(n)
  BY <1>1, Steady
<1>4. Counted'
  BY <1>1, <1>3 DEF SerialInv, Counted
<1>5. PassedSoFar'
  BY <1>1, Steady DEF SerialInv, PassedSoFar
<1>6. Judged'
  <2>1. \A i, j : GoodRow(i, j)' <=> GoodRow(i, j)
    BY <1>1, Steady
  <2>2. \A p : PkgBuilds(Here, p)' <=> PkgBuilds(Here, p)
    BY <1>1 DEF PkgBuilds, Here
  <2> QED BY <1>1, <2>1, <2>2 DEF SerialInv, Judged, Here, HerePkgs, HereCases
<1>7. VerdictIsTruth'
  BY <1>1, Steady DEF SerialInv, VerdictIsTruth
<1> QED BY <1>2, <1>4, <1>5, <1>6, <1>7 DEF SerialInv

\* Every step of the serial harness.
LEMMA SerialStep ==
  ASSUME SerialInv, [SerialNext]_sVars
  PROVE  SerialInv'
<1>1. CASE UNCHANGED sVars
  BY <1>1, SerialStutter
<1>2. CASE SerialNext
  <2>1. UNCHANGED <<args, fate>>
    BY <1>2 DEF SerialNext
  <2>2. CASE MainStep
    <3>1. CASE ParseArgs
      BY <2>1, <3>1, ParseArgsStep
    <3>2. ASSUME UNCHANGED plan,
                 \/ ProbeTools \/ CheckSeam \/ BuildBlade \/ ResolveToolchain
                 \/ BuildShared \/ ImagesReady \/ RowsDone \/ Verdict
          PROVE  SerialInv'
      BY <2>1, <3>2, ProbeToolsStep, CheckSeamStep, BuildBladeStep,
         ResolveToolchainStep, BuildSharedStep, ImagesReadyStep, RowsDoneStep, VerdictStep
    <3> QED BY <2>2, <3>1, <3>2 DEF MainStep
  <2>3. ASSUME UNCHANGED plan, phase = "packages", next <= Len(HerePkgs),
               PackageLine(PkgBuilds(Here, HerePkgs[next]))
        PROVE  SerialInv'
    BY <2>1, <2>3, PackageLineStep
  <2>4. ASSUME UNCHANGED plan, fate.toolchain = "root", phase = "cases",
               next <= Len(HereCases), CaseRow(CaseFate(Here, HereCases[next]))
        PROVE  SerialInv'
    BY <2>1, <2>4, CaseRowStep
  <2>5. ASSUME UNCHANGED plan, fate.toolchain # "root", CaseEscapes
        PROVE  SerialInv'
    BY <2>1, <2>5, CaseEscapesStep
  <2> QED BY <1>2, <2>2, <2>3, <2>4, <2>5 DEF SerialNext
<1> QED BY <1>1, <1>2

-----------------------------------------------------------------------------
(* The pool.                                                               *)

LEMMA HereUnitIs ==
  ASSUME NEW u
  PROVE  u \in HereUnits <=> /\ u \in Units /\ u.arch = at /\ u.kind = phase
                             /\ u.item \in DOMAIN ItemsOf(phase)
BY DEF HereUnits

\* A unit of the running pool, by the lists of its profile.
LEMMA HereUnitOf ==
  ASSUME SerialInv, NEW u \in HereUnits
  PROVE  /\ u \in Units /\ u.arch = at /\ u.kind = phase /\ Pooled
         /\ ArchOf(u) = Here
         /\ phase = "packages" => u.item \in DOMAIN HerePkgs /\ PkgOf(u) = HerePkgs[u.item]
         /\ phase = "cases" => u.item \in DOMAIN HereCases /\ CaseOf(u) = HereCases[u.item]
<1>1. u \in Units /\ u.arch = at /\ u.kind = phase /\ u.item \in DOMAIN ItemsOf(phase)
  BY DEF HereUnits
<1>2. phase \in {"packages", "cases"}
  BY <1>1 DEF Units
<1>3. phase = "packages" => u.item \in DOMAIN HerePkgs /\ PkgOf(u) = HerePkgs[u.item]
  BY <1>1 DEF ItemsOf, PkgOf, HerePkgs
<1>4. phase = "cases" => u.item \in DOMAIN HereCases /\ CaseOf(u) = HereCases[u.item]
  BY <1>1 DEF ItemsOf, CaseOf, HereCases
<1>5. ArchOf(u) = Here
  BY <1>1 DEF ArchOf, Here
<1> QED BY <1>1, <1>2, <1>3, <1>4, <1>5 DEF Pooled

\* A unit is its profile, its list and its place there.
LEMMA UnitsDiffer ==
  \A u, v \in Units : u.arch = v.arch /\ u.kind = v.kind /\ u.item = v.item => u = v
BY DEF Units

\* The item the consumer waits for is a unit of the running pool.
LEMMA HeadUnit ==
  ASSUME SerialInv, Pooled, next <= Len(ItemsOf(phase))
  PROVE  /\ Head1 \in HereUnits /\ Head1.item = next
         /\ Head1.arch = at /\ Head1.kind = phase
<1>1. /\ Sound(plan, args) /\ at \in DOMAIN plan /\ ListsOK(at)
      /\ next \in Nat /\ next >= 1
  BY InsideProfile DEF InProfile, Pooled
<1>2. /\ ItemsOf(phase) = plan[at].pkgs \/ ItemsOf(phase) = plan[at].cases
      /\ phase \in {"packages", "cases"}
  BY DEF ItemsOf, HerePkgs, HereCases, Pooled
<1>3. /\ Len(ItemsOf(phase)) \in Nat /\ DOMAIN ItemsOf(phase) = 1..Len(ItemsOf(phase))
      /\ Len(ItemsOf(phase)) <= MaxItems /\ MaxItems \in Nat
  BY <1>1, <1>2, ListLengths
<1>4. next \in DOMAIN ItemsOf(phase) /\ next \in 1..MaxItems
  BY <1>1, <1>3
<1>5. at \in DOMAIN ARCHES
  BY DEF SerialInv, WhereOK
<1>6. Head1 \in Units
  BY <1>2, <1>4, <1>5 DEF Head1, Units
<1>7. Head1.item = next /\ Head1.arch = at /\ Head1.kind = phase
  BY DEF Head1
<1> QED BY <1>4, <1>6, <1>7 DEF HereUnits

\* What the consumer finds is the tree's answer.
LEMMA HeadAnswer ==
  ASSUME IInv, Pooled, next <= Len(ItemsOf(phase)), st[Head1] = "finished"
  PROVE  /\ phase = "packages" =>
              /\ next <= Len(HerePkgs)
              /\ res[Head1] = IF PkgBuilds(Here, HerePkgs[next]) THEN "built" ELSE "error"
         /\ phase = "cases" =>
              /\ next <= Len(HereCases)
              /\ res[Head1] = IF fate.toolchain = "root" THEN CaseFate(Here, HereCases[next])
                                                         ELSE "escapes"
<1>1. PICK h : h = Head1
  OBVIOUS
<1>2. h \in HereUnits /\ h.item = next /\ h.kind = phase
  BY <1>1, HeadUnit DEF IInv
<1>3. /\ phase = "packages" => PkgOf(h) = HerePkgs[next]
      /\ phase = "cases" => CaseOf(h) = HereCases[next]
  BY <1>2, HereUnitOf DEF IInv
<1>4. /\ h.kind = "packages" =>
           res[h] = IF PkgBuilds(Here, PkgOf(h)) THEN "built" ELSE "error"
      /\ h.kind = "cases" =>
           res[h] = IF fate.toolchain = "root" THEN CaseFate(Here, CaseOf(h)) ELSE "escapes"
  BY <1>1, <1>2 DEF IInv, WorkInv, ResultsOK
<1>5. /\ phase = "packages" => next <= Len(HerePkgs)
      /\ phase = "cases" => next <= Len(HereCases)
  BY DEF ItemsOf
<1> QED BY <1>1, <1>2, <1>3, <1>4, <1>5

LEMMA VerdictOf ==
  ASSUME SerialInv, phase = "cases", NEW j \in DOMAIN HereCases
  PROVE  CaseFate(Here, HereCases[j]) \in Verdicts
<1>1. ListsOK(at) /\ fate \in Fates
  BY InsideProfile DEF InProfile, SerialInv, WhereOK
<1>2. Here.name \in ArchNames
  BY <1>1 DEF ListsOK, Here, ToSet, ArchNames
<1>3. HereCases[j].name \in CaseNames
  <2>1. HereCases[j] \in ToSet(TEST_CASES)
    BY <1>1 DEF ListsOK, HereCases
  <2> QED BY <2>1 DEF ToSet, CaseNames
<1> QED BY <1>1, <1>2, <1>3, FatesAssumption DEF CaseFate

LEMMA AwaitPackageIsSerial ==
  ASSUME IInv, AwaitPackage
  PROVE  SerialNext
<1>1. phase = "packages" /\ next <= Len(ItemsOf(phase)) /\ st[Head1] = "finished"
      /\ res[Head1] = "built"
  BY DEF AwaitPackage, HeadReady
<1>2. next <= Len(HerePkgs) /\ PkgBuilds(Here, HerePkgs[next])
  BY <1>1, HeadAnswer DEF Pooled
<1>3. PackageLine(PkgBuilds(Here, HerePkgs[next]))
  <2>1. PackageLine(TRUE)
    BY DEF AwaitPackage
  <2> QED BY <1>2, <2>1 DEF PackageLine
<1>4. UNCHANGED <<args, fate, plan>>
  BY DEF AwaitPackage
<1> QED BY <1>1, <1>2, <1>3, <1>4 DEF SerialNext

LEMMA AwaitCaseIsSerial ==
  ASSUME IInv, AwaitCase
  PROVE  SerialNext
<1>1. phase = "cases" /\ next <= Len(ItemsOf(phase)) /\ st[Head1] = "finished"
      /\ res[Head1] # "escapes" /\ CaseRow(res[Head1]) /\ UNCHANGED <<args, fate, plan>>
  BY DEF AwaitCase, HeadReady
<1>2. next <= Len(HereCases) /\ fate.toolchain = "root"
      /\ res[Head1] = CaseFate(Here, HereCases[next])
  BY <1>1, HeadAnswer DEF Pooled
<1>3. CaseRow(CaseFate(Here, HereCases[next]))
  BY <1>1, <1>2
<1> QED BY <1>1, <1>2, <1>3 DEF SerialNext

LEMMA GiveUpIsSerial ==
  ASSUME IInv, GiveUp
  PROVE  SerialNext
<1>1. closing /\ UNCHANGED <<args, fate, plan>>
  BY DEF GiveUp
<1>2. st[Head1] = "finished" /\ res[Head1] \in {"error", "escapes"}
  BY <1>1 DEF IInv, WorkInv, UnitsOK
<1>3. CASE PackageLine(FALSE)
  <2>1. phase = "packages" /\ next <= Len(HerePkgs)
    BY <1>3 DEF PackageLine
  <2>2. ~PkgBuilds(Here, HerePkgs[next])
    BY <1>2, <2>1, HeadAnswer DEF Pooled, ItemsOf
  <2>3. PackageLine(PkgBuilds(Here, HerePkgs[next]))
    BY <1>3, <2>2 DEF PackageLine
  <2> QED BY <1>1, <2>1, <2>3 DEF SerialNext
<1>4. CASE CaseEscapes
  <2>1. phase = "cases" /\ next <= Len(HereCases)
    BY <1>4 DEF CaseEscapes
  <2>2. DOMAIN HereCases = 1..Len(HereCases) /\ next \in Nat /\ next >= 1
    <3>1. ListsOK(at) /\ next \in Nat /\ next >= 1
      BY <2>1, InsideProfile DEF InProfile, IInv
    <3> QED BY <3>1, ListLengths DEF HereCases
  <2>3. CaseFate(Here, HereCases[next]) \in Verdicts
    <3>1. Len(HereCases) \in Nat
      <4>1. ListsOK(at)
        BY <2>1, InsideProfile DEF InProfile, IInv
      <4> QED BY <4>1, ListLengths DEF HereCases
    <3>2. next \in DOMAIN HereCases
      BY <2>1, <2>2, <3>1
    <3> QED BY <2>1, <3>2, VerdictOf DEF IInv
  <2>4. fate.toolchain # "root"
    BY <1>2, <2>1, <2>3, HeadAnswer DEF Pooled, ItemsOf, Verdicts
  <2> QED BY <1>1, <1>4, <2>4 DEF SerialNext
<1> QED BY <1>3, <1>4 DEF GiveUp

\* A worker touches nothing the serial harness shows.
LEMMA WorkIsSilent ==
  ASSUME NEW u, Work(u)
  PROVE  UNCHANGED <<args, fate, plan, at, phase, next, report, passed, failed, exit, closing>>
BY Zenon DEF Work, StartUnit, SweepStale, BladeBuild, Compile, StageRoot, AssembleRoot,
       StitchRegions, Link, Boot, MainUnchanged

LEMMA StepIsSerial ==
  ASSUME IInv, [Next]_vars
  PROVE  [SerialNext]_sVars
<1>1. CASE Main
  BY <1>1 DEF Main, SerialNext
<1>2. CASE Submit \/ LeavePool
  BY <1>2 DEF Submit, LeavePool, sVars
<1>3. CASE AwaitPackage \/ AwaitCase \/ GiveUp
  BY <1>3, AwaitPackageIsSerial, AwaitCaseIsSerial, GiveUpIsSerial
<1>4. ASSUME NEW u \in Units, Work(u)
      PROVE  UNCHANGED sVars
  BY <1>4, WorkIsSilent DEF sVars
<1>5. CASE Over \/ UNCHANGED vars
  BY <1>5 DEF Over, vars, sVars
<1> QED BY <1>1, <1>2, <1>3, <1>4, <1>5 DEF Next, Console

-----------------------------------------------------------------------------
(* From one pool to the next.                                              *)

Still == \A u \in Units : st[u] \notin Working \cup {"queued"}

\* Outside the pools nothing runs.
LEMMA StillOutside ==
  ASSUME IInv, ~Pooled
  PROVE  Still /\ closing = FALSE
<1>1. \A u \in Units : u \notin HereUnits
  BY DEF Pooled, HereUnits, Units
<1> QED BY <1>1 DEF IInv, WorkInv, UnitsOK, Still

\* Nor when every result has been taken.
LEMMA StillWhenTaken ==
  ASSUME IInv, Pooled, next > Len(ItemsOf(phase))
  PROVE  Still /\ closing = FALSE
<1>1. ListsOK(at) /\ next \in Nat
  BY InsideProfile DEF IInv, InProfile, Pooled
<1>2. ItemsOf(phase) = plan[at].pkgs \/ ItemsOf(phase) = plan[at].cases
  BY DEF ItemsOf, HerePkgs, HereCases
<1>3. Len(ItemsOf(phase)) \in Nat /\ DOMAIN ItemsOf(phase) = 1..Len(ItemsOf(phase))
  BY <1>1, <1>2, ListLengths
<1>4. \A u \in HereUnits : u.item < next
  BY <1>1, <1>3 DEF HereUnits
<1>5. \A u \in HereUnits : st[u] = "finished"
  BY <1>4 DEF IInv, WorkInv, UnitsOK
<1>6. Still
  BY <1>5 DEF Still, IInv, WorkInv, UnitsOK, Working, PackageSteps, CaseSteps
<1>7. Head1 \notin HereUnits
  <2>1. Head1.item = next
    BY DEF Head1
  <2> QED BY <1>1, <1>3, <1>4, <2>1
<1> QED BY <1>6, <1>7 DEF IInv, WorkInv, UnitsOK

\* Nor when the pool has been closed.
LEMMA StillWhenClosed ==
  ASSUME IInv, closing, Drained
  PROVE  Still
BY DEF IInv, WorkInv, UnitsOK, Drained, Busy, Still

LEMMA MoveOn ==
  ASSUME IInv, Still, closing' = FALSE, UNCHANGED <<st, res, image>>,
         \A u \in Units : ~Reached(u)' => ~Reached(u),
         \A u \in HereUnits' : ~Reached(u),
         next' = 1 \/ ~Pooled',
         (phase = "cases" =>
           \A k \in DOMAIN HerePkgs : image[ImagePath(HerePkgs[k])] = Here.name)',
         (Pooled => Has(<<Here.build, "hal">>, Here.name))'
  PROVE  WorkInv'
<1>1. HereUnits' \subseteq Units
  BY DEF HereUnits, Units
<1>2. \A u \in HereUnits' : st'[u] = "none"
  BY <1>1 DEF IInv, WorkInv, UnitsOK
<1>3. \A u \in HereUnits' : ~(u.item < next')
  <2>1. CASE next' = 1
    <3>1. \A u \in Units : u.item \in 1..MaxItems
      BY DEF Units
    <3>2. \A u \in HereUnits' : u.item \in Nat /\ u.item >= 1
      BY <1>1, <3>1, Tables
    <3> QED BY <2>1, <3>2
  <2>2. CASE ~Pooled'
    BY <2>2 DEF Pooled, HereUnits, Units
  <2> QED BY <2>1, <2>2
<1>4. UnitsOK'
  <2>1. /\ st' \in [Units -> {"none", "queued", "cancelled", "finished"} \cup Working]
        /\ res' \in [Units -> {"none", "built", "error", "escapes"} \cup Verdicts]
    BY DEF IInv, WorkInv, UnitsOK
  <2>2. \A u \in Units : ~Reached(u)' => st'[u] = "none"
    BY DEF IInv, WorkInv, UnitsOK
  <2>3. \A u \in Units : st'[u] \notin Working \cup {"queued"}
    BY DEF Still
  <2> QED BY <1>2, <1>3, <2>1, <2>2, <2>3 DEF UnitsOK, Working
<1>5. ResultsOK'
  BY <1>2 DEF ResultsOK, CaseSteps
<1>6. ImagesOK'
  BY <1>2 DEF IInv, WorkInv, ImagesOK
<1>7. FilesOK'
  BY <1>2 DEF FilesOK, FilesOf
<1> QED BY <1>4, <1>5, <1>6, <1>7 DEF WorkInv

\* Where a step of the printing thread on its own leads.
LEMMA MainLeads ==
  ASSUME MainStep
  PROVE  \/ phase' = "over" /\ ~Pooled
         \/ /\ phase \in Early /\ phase' \in Early \cup {"profile"} /\ at' = at
         \/ /\ phase = "profile" /\ Here.name \in fate.badHal
            /\ Return(<<Banner(Here), <<"hal failed", Here.name>>>>, Len(HereCases))
         \/ /\ phase = "cases" /\ next > Len(HereCases) /\ Return(<<>>, 0)
         \/ /\ phase = "profile" /\ phase' = "packages" /\ Here.name \notin fate.badHal
            /\ at' = at /\ next' = 1 /\ plan' = plan
         \/ /\ phase = "packages" /\ next > Len(HerePkgs) /\ phase' = "cases"
            /\ at' = at /\ next' = 1 /\ plan' = plan
<1>1. CASE ParseArgs
  BY <1>1 DEF ParseArgs, Exit, Go, Early, Pooled
<1>2. CASE ProbeTools
  BY <1>2 DEF ProbeTools, Exit, Go, Early, Pooled
<1>3. CASE CheckSeam
  BY <1>3 DEF CheckSeam, Exit, Go, Early, Pooled
<1>4. CASE BuildBlade
  BY <1>4 DEF BuildBlade, Exit, Go, Early, Pooled
<1>5. CASE ResolveToolchain
  BY <1>5 DEF ResolveToolchain, Exit, Go, Early, Pooled
<1>6. ASSUME BuildShared, UNCHANGED plan
      PROVE  \/ /\ phase = "profile" /\ Here.name \in fate.badHal
                /\ Return(<<Banner(Here), <<"hal failed", Here.name>>>>, Len(HereCases))
             \/ /\ phase = "profile" /\ phase' = "packages" /\ Here.name \notin fate.badHal
                /\ at' = at /\ next' = 1 /\ plan' = plan
  BY <1>6 DEF BuildShared, Go
<1>7. ASSUME ImagesReady, UNCHANGED plan
      PROVE  /\ phase = "packages" /\ next > Len(HerePkgs) /\ phase' = "cases"
             /\ at' = at /\ next' = 1 /\ plan' = plan
  BY <1>7 DEF ImagesReady, Go
<1>8. CASE RowsDone
  BY <1>8 DEF RowsDone
<1>9. CASE Verdict
  BY <1>9 DEF Verdict, Exit, Pooled
<1> QED BY <1>1, <1>2, <1>3, <1>4, <1>5, <1>6, <1>7, <1>8, <1>9 DEF MainStep

\* Leaving a profile, nothing that was not reached is reached.
LEMMA LeaveProfile ==
  ASSUME SerialInv, phase \in InProfile, NEW lines, NEW fewer, Return(lines, fewer)
  PROVE  /\ ~Pooled'
         /\ \A u \in Units : ~Reached(u)' => ~Reached(u)
<1>1. at \in Nat
  BY InsideProfile
<1>2. \/ at' = at + 1 /\ phase' = "profile"
      \/ phase' = "verdict"
  BY DEF Return
<1>3. \A u \in Units : u.arch \in Nat
  BY Tables DEF Units
<1>4. ~Pooled'
  BY <1>2 DEF Pooled
<1>5. CASE at' = at + 1 /\ phase' = "profile"
  <2>1. ASSUME NEW u \in Units, ~Reached(u)' PROVE ~Reached(u)
    <3>1. ~(u.arch < at + 1)
      BY <1>5, <2>1 DEF Reached
    <3>2. u.arch # at /\ ~(u.arch < at)
      BY <1>1, <1>3, <3>1
    <3> QED BY <3>2 DEF Reached, InProfile
  <2> QED BY <1>4, <2>1
<1>6. CASE phase' = "verdict"
  BY <1>4, <1>6 DEF Reached
<1> QED BY <1>2, <1>5, <1>6

LEMMA MainKeeps ==
  ASSUME IInv, Main
  PROVE  WorkInv'
<1>1. MainStep /\ UNCHANGED <<st, res, closing, image>>
  BY DEF Main
<1>2. SerialInv
  BY DEF IInv
<1>3. ~Pooled' => \A u \in HereUnits' : ~Reached(u)
  BY DEF Pooled, HereUnits, Units
<1>4. CASE phase' = "over" /\ ~Pooled
  <2>1. Still /\ closing = FALSE
    BY <1>4, StillOutside
  <2>2. ~Pooled' /\ \A u \in Units : Reached(u)'
    BY <1>4 DEF Pooled, Reached
  <2>3. phase' # "cases"
    BY <1>4
  <2> QED BY <1>1, <1>3, <2>1, <2>2, <2>3, MoveOn
<1>5. CASE phase \in Early /\ phase' \in Early \cup {"profile"} /\ at' = at
  <2>1. Still /\ closing = FALSE
    BY <1>5, StillOutside DEF Pooled, Early
  <2>2. ~Pooled' /\ phase' # "cases"
    BY <1>5 DEF Pooled, Early
  <2>3. \A u \in Units : ~Reached(u)' => ~Reached(u)
    BY <1>5 DEF Reached, Early
  <2> QED BY <1>1, <1>3, <2>1, <2>2, <2>3, MoveOn
<1>6. CASE phase = "profile" /\ Return(<<Banner(Here), <<"hal failed", Here.name>>>>, Len(HereCases))
  <2>1. Still /\ closing = FALSE
    BY <1>6, StillOutside DEF Pooled
  <2>2. ~Pooled' /\ \A u \in Units : ~Reached(u)' => ~Reached(u)
    BY <1>2, <1>6, LeaveProfile DEF InProfile
  <2>3. phase' # "cases"
    BY <2>2 DEF Pooled
  <2> QED BY <1>1, <1>3, <2>1, <2>2, <2>3, MoveOn
<1>7. CASE phase = "cases" /\ next > Len(HereCases) /\ Return(<<>>, 0)
  <2>1. Still /\ closing = FALSE
    BY <1>7, StillWhenTaken DEF Pooled, ItemsOf
  <2>2. ~Pooled' /\ \A u \in Units : ~Reached(u)' => ~Reached(u)
    BY <1>2, <1>7, LeaveProfile DEF InProfile
  <2>3. phase' # "cases"
    BY <2>2 DEF Pooled
  <2> QED BY <1>1, <1>3, <2>1, <2>2, <2>3, MoveOn
<1>8. CASE /\ phase = "profile" /\ phase' = "packages" /\ Here.name \notin fate.badHal
           /\ at' = at /\ next' = 1 /\ plan' = plan
  <2>1. Still /\ closing = FALSE
    BY <1>8, StillOutside DEF Pooled
  <2>2. \A u \in Units : ~Reached(u)' => ~Reached(u)
    BY <1>8 DEF Reached
  <2>3. \A u \in HereUnits' : ~Reached(u)
    <3>1. at \in Nat
      BY <1>2, <1>8, InsideProfile DEF InProfile
    <3>2. \A u \in HereUnits' : u.arch = at
      BY <1>8 DEF HereUnits
    <3> QED BY <1>8, <3>1, <3>2 DEF Reached
  <2>4. Has(<<Here.build, "hal">>, Here.name)'
    <3>1. Write(<<Here.build, "hal">>, Here.name)
      BY <1>8 DEF Main
    <3>2. Here' = Here
      BY <1>8 DEF Here
    <3> QED BY <3>1, <3>2 DEF Write, Has
  <2>5. phase' # "cases" /\ next' = 1
    BY <1>8
  <2> QED BY <1>1, <2>1, <2>2, <2>3, <2>4, <2>5, MoveOn
<1>9. CASE /\ phase = "packages" /\ next > Len(HerePkgs) /\ phase' = "cases"
           /\ at' = at /\ next' = 1 /\ plan' = plan
  <2>1. Still /\ closing = FALSE
    BY <1>9, StillWhenTaken DEF Pooled, ItemsOf
  <2>2. \A u \in Units : ~Reached(u)' => ~Reached(u)
    BY <1>9 DEF Reached
  <2>3. \A u \in HereUnits' : ~Reached(u)
    <3>1. at \in Nat
      BY <1>2, <1>9, InsideProfile DEF InProfile
    <3>2. \A u \in HereUnits' : u.arch = at /\ u.kind = "cases"
      BY <1>9 DEF HereUnits
    <3> QED BY <1>9, <3>1, <3>2 DEF Reached
  <2>4. Here' = Here /\ HerePkgs' = HerePkgs /\ art' = art
    BY <1>9 DEF Here, HerePkgs, Main
  <2>5. Has(<<Here.build, "hal">>, Here.name)'
    BY <1>9, <2>4 DEF Has, IInv, WorkInv, FilesOK, Pooled
  <2>6. \A k \in DOMAIN HerePkgs : image[ImagePath(HerePkgs[k])] = Here.name
    <3> SUFFICES ASSUME NEW k \in DOMAIN HerePkgs
                 PROVE  image[ImagePath(HerePkgs[k])] = Here.name
      OBVIOUS
    <3>1. ListsOK(at) /\ next \in Nat
      BY <1>2, <1>9, InsideProfile DEF InProfile
    <3>2. /\ k \in Nat /\ k >= 1 /\ k <= MaxItems /\ MaxItems \in Nat
          /\ k < next /\ DOMAIN HerePkgs = 1..Len(HerePkgs)
      BY <1>9, <3>1, ListLengths DEF HerePkgs
    <3>3. PICK u : u = [arch |-> at, kind |-> "packages", item |-> k]
      OBVIOUS
    <3>4. u \in Units /\ u.arch = at /\ u.kind = "packages" /\ u.item = k
      BY <1>2, <3>2, <3>3 DEF Units, SerialInv, WhereOK
    <3>5. u \in HereUnits
      BY <1>9, <3>4 DEF HereUnits, ItemsOf
    <3>6. st[u] = "finished"
      BY <3>2, <3>4, <3>5 DEF IInv, WorkInv, UnitsOK
    <3>7. PkgOf(u) = HerePkgs[k]
      BY <3>4 DEF PkgOf, HerePkgs
    <3>8. PkgBuilds(Here, HerePkgs[k])
      BY <1>2, <1>9, <3>2 DEF SerialInv, Judged
    <3> QED BY <1>9, <3>5, <3>6, <3>7, <3>8 DEF IInv, WorkInv, ImagesOK
  <2>7. (\A k \in DOMAIN HerePkgs : image[ImagePath(HerePkgs[k])] = Here.name)'
    BY <1>1, <2>4, <2>6 DEF ImagePath
  <2>8. next' = 1
    BY <1>9
  <2> QED BY <1>1, <2>1, <2>2, <2>3, <2>5, <2>7, <2>8, MoveOn
<1> QED BY <1>1, <1>4, <1>5, <1>6, <1>7, <1>8, <1>9, MainLeads

LEMMA GiveUpKeeps ==
  ASSUME IInv, GiveUp
  PROVE  WorkInv'
<1>1. closing /\ Drained /\ closing' = FALSE /\ UNCHANGED <<st, res, image>>
  BY DEF GiveUp, WorkUnchanged
<1>2. Still
  BY <1>1, StillWhenClosed
<1>3. ~Pooled' /\ \A u \in Units : ~Reached(u)' => ~Reached(u)
  <2>1. CASE PackageLine(FALSE)
    <3>1. phase = "packages"
          /\ Return(<<<<"package failed", Here.name, HerePkgs[next]>>>>, Len(HereCases))
      BY <2>1 DEF PackageLine
    <3> QED BY <3>1, LeaveProfile DEF InProfile, IInv
  <2>2. CASE CaseEscapes
    <3>1. phase' = "over"
      BY <2>2 DEF CaseEscapes, Exit
    <3> QED BY <3>1 DEF Pooled, Reached
  <2> QED BY <2>1, <2>2 DEF GiveUp
<1>4. \A u \in HereUnits' : ~Reached(u)
  BY <1>3 DEF Pooled, HereUnits, Units
<1>5. phase' # "cases"
  BY <1>3 DEF Pooled
<1> QED BY <1>1, <1>2, <1>3, <1>4, <1>5, MoveOn

-----------------------------------------------------------------------------
(* Inside a pool.                                                          *)

\* What stays while the printing thread stays where it is.
Frame ==
  /\ HereUnits' = HereUnits /\ Here' = Here /\ HerePkgs' = HerePkgs
  /\ phase' = phase /\ fate' = fate
  /\ \A u : /\ ArchOf(u)' = ArchOf(u) /\ PkgOf(u)' = PkgOf(u) /\ CaseOf(u)' = CaseOf(u)
            /\ Reached(u)' <=> Reached(u)
            /\ \A k : File(u, k)' = File(u, k)
            /\ OwnElf(u)' = OwnElf(u) /\ OwnRoot(u)' = OwnRoot(u)
            /\ OwnRegions(u)' = OwnRegions(u)
  /\ \A p : ImagePath(p)' = ImagePath(p)
  /\ \A a, p : PkgBuilds(a, p)' <=> PkgBuilds(a, p)
  /\ \A a, c : CaseFate(a, c)' = CaseFate(a, c)

LEMMA Framed ==
  ASSUME UNCHANGED <<fate, plan, at, phase>>
  PROVE  Frame
<1>1. \A u : ArchOf(u)' = ArchOf(u) /\ PkgOf(u)' = PkgOf(u) /\ CaseOf(u)' = CaseOf(u)
  BY DEF ArchOf, PkgOf, CaseOf
<1>2. Here' = Here /\ HerePkgs' = HerePkgs /\ HereCases' = HereCases
  BY DEF Here, HerePkgs, HereCases
<1>3. HereUnits' = HereUnits
  BY <1>2 DEF HereUnits, ItemsOf
<1>4. \A u : Reached(u)' <=> Reached(u)
  BY DEF Reached
<1>5. \A u, k : File(u, k)' = File(u, k)
  BY <1>1 DEF File
<1>6. \A u : /\ OwnElf(u)' = OwnElf(u) /\ OwnRoot(u)' = OwnRoot(u)
             /\ OwnRegions(u)' = OwnRegions(u)
  BY <1>1 DEF OwnElf, OwnRoot, OwnRegions
<1>7. \A p : ImagePath(p)' = ImagePath(p)
  BY <1>2 DEF ImagePath
<1>8. \A a, p : PkgBuilds(a, p)' <=> PkgBuilds(a, p)
  BY DEF PkgBuilds
<1>9. \A a, c : CaseFate(a, c)' = CaseFate(a, c)
  BY DEF CaseFate
<1> QED BY <1>1, <1>2, <1>3, <1>4, <1>5, <1>6, <1>7, <1>8, <1>9 DEF Frame

\* Where the files and the units are as they were, so is what is said of them.
LEMMA FilesStay ==
  ASSUME IInv, Frame, UNCHANGED <<art, image>>,
         \A u \in HereUnits : st'[u] = st[u] \/ st'[u] \in {"queued", "cancelled", "sweep", "compile"}
  PROVE  FilesOK' /\ ImagesOK'
<1>1. \A p, c : Has(p, c)' <=> Has(p, c)
  BY DEF Has
<1>2. ASSUME NEW u \in HereUnits, FilesOf(u) PROVE FilesOf(u)'
  <2>1. CASE st'[u] = st[u]
    BY <1>1, <1>2, <2>1 DEF FilesOf, Frame, StageDir
  <2>2. CASE st'[u] \in {"queued", "cancelled", "sweep", "compile"}
    BY <2>2 DEF FilesOf
  <2> QED BY <2>1, <2>2
<1>3. Pooled' <=> Pooled
  BY DEF Pooled, Frame
<1>4. FilesOK'
  <2>1. phase' = "cases" => \A u \in HereUnits' : FilesOf(u)'
    BY <1>2 DEF IInv, WorkInv, FilesOK, Frame
  <2>2. Pooled => Has(<<Here.build, "hal">>, Here.name)
    BY DEF IInv, WorkInv, FilesOK
  <2>3. Pooled' => Has(<<Here.build, "hal">>, Here.name)'
    BY <1>1, <1>3, <2>2 DEF Frame, Has
  <2> QED BY <2>1, <2>3 DEF FilesOK
<1>5. ImagesOK'
  <2>1. ASSUME phase = "packages", NEW u \in HereUnits
        PROVE  /\ st'[u] = "build" => image[ImagePath(PkgOf(u))] = NoImage
               /\ st'[u] = "finished" /\ PkgBuilds(Here, PkgOf(u)) =>
                    image[ImagePath(PkgOf(u))] = Here.name
    BY <2>1 DEF IInv, WorkInv, ImagesOK
  <2>2. /\ image \in [Packages \X Triples -> {NoImage, Stale} \cup ArchNames]
        /\ phase = "cases" => \A k \in DOMAIN HerePkgs : image[ImagePath(HerePkgs[k])] = Here.name
    BY DEF IInv, WorkInv, ImagesOK
  <2> QED BY <2>1, <2>2 DEF ImagesOK, Frame
<1> QED BY <1>4, <1>5

\* And of the results.
LEMMA ResultsStay ==
  ASSUME IInv, Frame, UNCHANGED res,
         \A u \in HereUnits : st'[u] = st[u] \/ st'[u] \in {"queued", "cancelled"}
  PROVE  ResultsOK'
BY DEF IInv, WorkInv, ResultsOK, Frame, CaseSteps

LEMMA SubmitKeeps ==
  ASSUME IInv, Submit
  PROVE  WorkInv'
<1>1. /\ ~Submitted /\ st' = [u \in Units |-> IF u \in HereUnits THEN "queued" ELSE st[u]]
      /\ UNCHANGED <<args, fate, plan, at, phase, next, res, closing, image, art>>
  BY DEF Submit
<1>2. Frame
  BY <1>1, Framed
<1>3. /\ st \in [Units -> {"none", "queued", "cancelled", "finished"} \cup Working]
      /\ res \in [Units -> {"none", "built", "error", "escapes"} \cup Verdicts]
      /\ closing \in BOOLEAN
      /\ \A u \in Units :
           /\ ~Reached(u) => st[u] = "none"
           /\ st[u] \in Working \cup {"queued"} => u \in HereUnits
           /\ st[u] \in PackageSteps => u.kind = "packages"
           /\ st[u] \in CaseSteps => u.kind = "cases"
      /\ \A u \in HereUnits : st[u] = "none"
      /\ \A u \in HereUnits : u.item < next => st[u] = "finished"
      /\ closing => Head1 \in HereUnits /\ st[Head1] = "finished"
  BY <1>1 DEF IInv, WorkInv, UnitsOK
<1>4. HereUnits \subseteq Units
  BY DEF HereUnits
<1>5. \A u \in HereUnits : st'[u] = "queued"
  BY <1>1, <1>4
<1>6. \A u \in Units : u \notin HereUnits => st'[u] = st[u]
  BY <1>1
<1>7. \A u \in HereUnits : Reached(u)
  BY DEF HereUnits, Units, Reached
<1>8. \A u \in HereUnits : ~(u.item < next)
  BY <1>3
<1>9. ~closing
  BY <1>3
<1>10. UnitsOK'
  <2>1. st' \in [Units -> {"none", "queued", "cancelled", "finished"} \cup Working]
    BY <1>1, <1>3
  <2>2. ASSUME NEW u \in Units
        PROVE  /\ ~Reached(u) => st'[u] = "none"
               /\ st'[u] \in Working \cup {"queued"} => u \in HereUnits
               /\ st'[u] \in PackageSteps => u.kind = "packages"
               /\ st'[u] \in CaseSteps => u.kind = "cases"
    <3>1. CASE u \in HereUnits
      BY <1>5, <1>7, <3>1 DEF PackageSteps, CaseSteps
    <3>2. CASE u \notin HereUnits
      BY <1>3, <1>6, <3>2
    <3> QED BY <3>1, <3>2
  <2>3. Submitted'
    BY <1>2, <1>5 DEF Submitted, Frame
  <2>4. \A u \in HereUnits' : u.item < next' => st'[u] = "finished"
    BY <1>1, <1>2, <1>8 DEF Frame
  <2>5. /\ closing' = closing
        /\ res' \in [Units -> {"none", "built", "error", "escapes"} \cup Verdicts]
        /\ closing' \in BOOLEAN
    BY <1>1, <1>3
  <2> QED BY <1>2, <1>9, <2>1, <2>2, <2>3, <2>4, <2>5 DEF UnitsOK, Frame
<1>11. FilesOK' /\ ImagesOK'
  BY <1>1, <1>2, <1>5, FilesStay
<1>12. ResultsOK'
  BY <1>1, <1>2, <1>5, ResultsStay
<1> QED BY <1>10, <1>11, <1>12 DEF WorkInv

LEMMA LeavePoolKeeps ==
  ASSUME IInv, LeavePool
  PROVE  WorkInv'
<1>1. /\ Pooled /\ HeadReady /\ res[Head1] \in {"error", "escapes"} /\ closing' = TRUE
      /\ st' = [u \in Units |-> IF st[u] = "queued" THEN "cancelled" ELSE st[u]]
      /\ UNCHANGED <<args, fate, plan, at, phase, next, res, image, art>>
  BY DEF LeavePool, CancelRest, Pooled
<1>2. Frame
  BY <1>1, Framed
<1>3. next <= Len(ItemsOf(phase)) /\ st[Head1] = "finished"
  BY <1>1 DEF HeadReady
<1>4. PICK h : h = Head1
  OBVIOUS
<1>5. h \in HereUnits /\ h \in Units
  BY <1>1, <1>3, <1>4, HeadUnit DEF IInv, HereUnits
<1>6. \A u \in Units : /\ st'[u] = st[u] \/ (st[u] = "queued" /\ st'[u] = "cancelled")
                       /\ st'[u] # "queued"
  <2>1. \A u \in Units : st'[u] = IF st[u] = "queued" THEN "cancelled" ELSE st[u]
    BY <1>1
  <2> QED BY <2>1
<1>7. HereUnits \subseteq Units
  BY DEF HereUnits
<1>8. UnitsOK'
  <2>1. /\ st' \in [Units -> {"none", "queued", "cancelled", "finished"} \cup Working]
        /\ res' \in [Units -> {"none", "built", "error", "escapes"} \cup Verdicts]
    BY <1>1 DEF IInv, WorkInv, UnitsOK
  <2>2. ASSUME NEW u \in Units
        PROVE  /\ ~Reached(u) => st'[u] = "none"
               /\ st'[u] \in Working \cup {"queued"} => u \in HereUnits
               /\ st'[u] \in PackageSteps => u.kind = "packages"
               /\ st'[u] \in CaseSteps => u.kind = "cases"
    BY <1>6 DEF IInv, WorkInv, UnitsOK, Working, PackageSteps, CaseSteps
  <2>3. Submitted'
    <3>1. Submitted
      BY <1>3, <1>4, <1>5 DEF IInv, WorkInv, UnitsOK
    <3> QED BY <1>2, <1>6, <1>7, <3>1 DEF Submitted, Frame
  <2>4. \A u \in HereUnits' : u.item < next' => st'[u] = "finished"
    BY <1>1, <1>2, <1>6, <1>7 DEF Frame, IInv, WorkInv, UnitsOK
  <2>5. Head1' = Head1
    BY <1>1 DEF Head1
  <2>6. /\ Pooled' /\ Head1' \in HereUnits'
        /\ st'[Head1'] = "finished" /\ res'[Head1'] \in {"error", "escapes"}
    BY <1>1, <1>2, <1>3, <1>4, <1>5, <1>6, <2>5 DEF Frame, Pooled
  <2> QED BY <1>1, <1>2, <1>6, <2>1, <2>2, <2>3, <2>4, <2>6 DEF UnitsOK, Frame
<1>9. FilesOK' /\ ImagesOK'
  BY <1>1, <1>2, <1>6, <1>7, FilesStay
<1>10. ResultsOK'
  BY <1>1, <1>2, <1>6, <1>7, ResultsStay
<1> QED BY <1>8, <1>9, <1>10 DEF WorkInv

\* A result is taken: the next one is awaited.
LEMMA TakeKeeps ==
  ASSUME IInv, Pooled, HeadReady, next' = next + 1,
         UNCHANGED <<args, fate, plan, at, phase, closing, st, res, image, art>>
  PROVE  WorkInv'
<1>1. Frame
  BY Framed
<1>2. next <= Len(ItemsOf(phase)) /\ st[Head1] = "finished" /\ ~closing /\ next \in Nat
  BY InsideProfile DEF HeadReady, IInv, InProfile, Pooled
<1>3. PICK h : h = Head1
  OBVIOUS
<1>4. h \in HereUnits /\ h.item = next /\ h.arch = at /\ h.kind = phase
  BY <1>2, <1>3, HeadUnit DEF IInv
<1>5. \A u \in HereUnits : u.item < next + 1 => u = h \/ u.item < next
  <2>1. \A u \in Units : u.item \in Nat
    BY Tables DEF Units
  <2>2. \A u \in HereUnits : u \in Units /\ u.arch = at /\ u.kind = phase
    BY DEF HereUnits
  <2>3. \A u \in HereUnits : u.item = next => u = h
    BY <1>4, <2>2, UnitsDiffer
  <2> QED BY <1>2, <2>1, <2>2, <2>3
<1>6. \A u \in HereUnits' : u.item < next' => st'[u] = "finished"
  BY <1>1, <1>2, <1>3, <1>5 DEF Frame, IInv, WorkInv, UnitsOK
<1>7. UnitsOK'
  <2>1. (Submitted <=> Submitted') /\ ((\A u \in HereUnits : st[u] = "none") => \A u \in HereUnits' : st'[u] = "none")
    BY <1>1 DEF Submitted, Frame
  <2>2. \A u \in Units :
          /\ ~Reached(u)' => st'[u] = "none"
          /\ st'[u] \in Working \cup {"queued"} => u \in HereUnits'
          /\ st'[u] \in PackageSteps => u.kind = "packages"
          /\ st'[u] \in CaseSteps => u.kind = "cases"
    BY <1>1 DEF Frame, IInv, WorkInv, UnitsOK
  <2> QED BY <1>2, <1>6, <2>1, <2>2 DEF IInv, WorkInv, UnitsOK
<1>8. FilesOK' /\ ImagesOK'
  BY <1>1, FilesStay
<1>9. ResultsOK'
  BY <1>1, ResultsStay
<1> QED BY <1>7, <1>8, <1>9 DEF WorkInv

LEMMA AwaitKeeps ==
  ASSUME IInv, AwaitPackage \/ AwaitCase
  PROVE  WorkInv'
<1>1. /\ Pooled /\ HeadReady /\ next' = next + 1
      /\ UNCHANGED <<args, fate, plan, at, phase, closing, st, res, image, art>>
  BY DEF AwaitPackage, AwaitCase, PackageLine, CaseRow, WorkUnchanged, Pooled
<1> QED BY <1>1, TakeKeeps

-----------------------------------------------------------------------------
(* The workers.                                                            *)

Results == {"none", "built", "error", "escapes"} \cup Verdicts

\* A unit at work takes a step.
Moves(u, t) ==
  /\ st[u] \in Working \cup {"queued"}
  /\ st' = [st EXCEPT ![u] = t]
  /\ t \in PackageSteps => u.kind = "packages"
  /\ t \in CaseSteps => u.kind = "cases"
  /\ UNCHANGED <<args, fate, plan, at, phase, next, closing>>

LEMMA UnitMoves ==
  ASSUME IInv, NEW u \in Units, NEW t \in Working \cup {"finished"}, Moves(u, t),
         res' \in [Units -> Results], \A v \in Units \ {u} : res'[v] = res[v]
  PROVE  UnitsOK'
<1>1. UNCHANGED <<fate, plan, at, phase, next, closing>> /\ st[u] \in Working \cup {"queued"}
  BY DEF Moves
<1>2. Frame
  BY <1>1, Framed
<1>3. /\ st \in [Units -> {"none", "queued", "cancelled", "finished"} \cup Working]
      /\ closing \in BOOLEAN
      /\ \A v \in Units :
           /\ ~Reached(v) => st[v] = "none"
           /\ st[v] \in Working \cup {"queued"} => v \in HereUnits
           /\ st[v] \in PackageSteps => v.kind = "packages"
           /\ st[v] \in CaseSteps => v.kind = "cases"
      /\ Submitted \/ \A v \in HereUnits : st[v] = "none"
      /\ \A v \in HereUnits : v.item < next => st[v] = "finished"
      /\ closing =>
           /\ Pooled /\ Head1 \in HereUnits
           /\ st[Head1] = "finished" /\ res[Head1] \in {"error", "escapes"}
           /\ \A v \in Units : st[v] # "queued"
  BY DEF IInv, WorkInv, UnitsOK
<1>4. st'[u] = t /\ \A v \in Units \ {u} : st'[v] = st[v]
  BY <1>3 DEF Moves
<1>5. u \in HereUnits /\ Reached(u) /\ st[u] \notin {"none", "finished"}
      /\ t \notin {"none", "queued"}
  BY <1>1, <1>3 DEF Working, PackageSteps, CaseSteps
<1>6. HereUnits \subseteq Units
  BY DEF HereUnits
<1>7. st' \in [Units -> {"none", "queued", "cancelled", "finished"} \cup Working]
  BY <1>3 DEF Moves
<1>8. ASSUME NEW v \in Units
      PROVE  /\ ~Reached(v) => st'[v] = "none"
             /\ st'[v] \in Working \cup {"queued"} => v \in HereUnits
             /\ st'[v] \in PackageSteps => v.kind = "packages"
             /\ st'[v] \in CaseSteps => v.kind = "cases"
  <2>1. CASE v = u
    BY <1>4, <1>5, <2>1 DEF Moves
  <2>2. CASE v # u
    BY <1>3, <1>4, <2>2
  <2> QED BY <2>1, <2>2
<1>9. Submitted'
  <2>1. Submitted
    BY <1>3, <1>5
  <2> QED BY <1>2, <1>4, <1>5, <1>6, <2>1 DEF Submitted, Frame
<1>10. \A v \in HereUnits : v.item < next => st'[v] = "finished"
  BY <1>3, <1>4, <1>5, <1>6
<1>11. closing => /\ Pooled /\ Head1 \in HereUnits
                  /\ st'[Head1] = "finished" /\ res'[Head1] \in {"error", "escapes"}
                  /\ \A v \in Units : st'[v] # "queued"
  <2>1. PICK h : h = Head1
    OBVIOUS
  <2>2. closing => h \in HereUnits /\ st[h] = "finished" /\ res[h] \in {"error", "escapes"}
    BY <1>3, <2>1
  <2>3. closing => h \in Units \ {u}
    BY <1>5, <1>6, <2>2
  <2> QED BY <1>3, <1>4, <1>5, <2>1, <2>2, <2>3
<1>12. Head1' = Head1 /\ (Pooled' <=> Pooled)
  BY <1>1 DEF Head1, Pooled
<1> QED BY <1>1, <1>2, <1>3, <1>7, <1>8, <1>9, <1>10, <1>11, <1>12 DEF UnitsOK, Frame, Results

\* What is said of the results, when one unit takes a step.
LEMMA ResultsMove ==
  ASSUME IInv, NEW u \in Units, NEW t, Moves(u, t),
         \A v \in Units \ {u} : res'[v] = res[v],
         u \in HereUnits =>
           /\ t = "finished" /\ u.kind = "packages" =>
                res'[u] = IF PkgBuilds(Here, PkgOf(u)) THEN "built" ELSE "error"
           /\ t = "finished" /\ u.kind = "cases" =>
                res'[u] = IF fate.toolchain = "root" THEN CaseFate(Here, CaseOf(u)) ELSE "escapes"
           /\ t \in CaseSteps \ {"compile"} => fate.toolchain = "root"
  PROVE  ResultsOK'
<1>1. Frame
  BY Framed DEF Moves
<1>2. st \in [Units -> {"none", "queued", "cancelled", "finished"} \cup Working]
  BY DEF IInv, WorkInv, UnitsOK
<1>3. st'[u] = t /\ \A v \in Units \ {u} : st'[v] = st[v]
  BY <1>2 DEF Moves
<1>4. ASSUME NEW v \in HereUnits
      PROVE  /\ st'[v] = "finished" /\ v.kind = "packages" =>
                  res'[v] = IF PkgBuilds(Here, PkgOf(v)) THEN "built" ELSE "error"
             /\ st'[v] = "finished" /\ v.kind = "cases" =>
                  res'[v] = IF fate.toolchain = "root" THEN CaseFate(Here, CaseOf(v))
                                                       ELSE "escapes"
             /\ st'[v] \in CaseSteps \ {"compile"} => fate.toolchain = "root"
  <2>1. CASE v = u
    BY <1>3, <2>1
  <2>2. CASE v # u
    <3>1. v \in Units
      BY DEF HereUnits
    <3> QED BY <1>3, <2>2, <3>1 DEF IInv, WorkInv, ResultsOK
  <2> QED BY <2>1, <2>2
<1> QED BY <1>1, <1>4 DEF ResultsOK, Frame

LEMMA StartUnitKeeps ==
  ASSUME IInv, NEW u \in Units, StartUnit(u)
  PROVE  WorkInv'
<1>1. PICK t : t = IF u.kind = "packages" THEN "sweep" ELSE "compile"
  OBVIOUS
<1>2. /\ st[u] = "queued" /\ st' = [st EXCEPT ![u] = t]
      /\ UNCHANGED <<args, fate, plan, at, phase, next, res, closing, image, art>>
  BY <1>1 DEF StartUnit
<1>3. u.kind \in {"packages", "cases"}
  BY DEF Units
<1>4. Moves(u, t)
  BY <1>1, <1>2, <1>3 DEF Moves, PackageSteps, CaseSteps
<1>5. t \in Working \cup {"finished"} /\ t \notin CaseSteps \ {"compile"} /\ t \in {"sweep", "compile"}
  BY <1>1 DEF Working, PackageSteps, CaseSteps
<1>6. res' \in [Units -> Results]
  BY <1>2 DEF IInv, WorkInv, UnitsOK, Results
<1>7. UnitsOK'
  BY <1>2, <1>4, <1>5, <1>6, UnitMoves
<1>8. ResultsOK'
  BY <1>2, <1>4, <1>5, ResultsMove
<1>9. Frame
  BY <1>2, Framed
<1>10. st \in [Units -> {"none", "queued", "cancelled", "finished"} \cup Working]
  BY DEF IInv, WorkInv, UnitsOK
<1>11. \A v \in HereUnits : st'[v] = st[v] \/ st'[v] \in {"sweep", "compile"}
  BY <1>2, <1>5, <1>10 DEF HereUnits
<1>12. FilesOK' /\ ImagesOK'
  BY <1>2, <1>9, <1>11, FilesStay
<1> QED BY <1>7, <1>8, <1>12 DEF WorkInv

\* The unit of a package, its file and the files of the others.
LEMMA PackageUnit ==
  ASSUME IInv, NEW u \in Units, st[u] \in PackageSteps
  PROVE  /\ u \in HereUnits /\ phase = "packages" /\ u.kind = "packages" /\ ArchOf(u) = Here
         /\ Here.name \in ArchNames
         /\ <<PkgOf(u), ArchOf(u).triple>> = ImagePath(PkgOf(u))
         /\ ImagePath(PkgOf(u)) \in Packages \X Triples
         /\ \A v \in HereUnits \ {u} : ImagePath(PkgOf(v)) # ImagePath(PkgOf(u))
<1>1. u \in HereUnits /\ u.kind = "packages"
  BY DEF IInv, WorkInv, UnitsOK, Working
<1>2. SerialInv
  BY DEF IInv
<1>3. phase = "packages" /\ ArchOf(u) = Here /\ Pooled
      /\ u.item \in DOMAIN HerePkgs /\ PkgOf(u) = HerePkgs[u.item]
  BY <1>1, <1>2, HereUnitOf
<1>4. ListsOK(at)
  BY <1>2, <1>3, InsideProfile DEF InProfile
<1>5. Here.name \in ArchNames /\ Here.triple \in Triples
  BY <1>4 DEF ListsOK, Here, ToSet, ArchNames, Triples
<1>6. PkgOf(u) \in Packages
  BY <1>3, <1>4 DEF ListsOK, HerePkgs
<1>7. ASSUME NEW v \in HereUnits \ {u} PROVE PkgOf(v) # PkgOf(u)
  <2>1. /\ v \in Units /\ v.arch = at /\ v.kind = phase
        /\ v.item \in DOMAIN HerePkgs /\ PkgOf(v) = HerePkgs[v.item]
    BY <1>2, <1>3, HereUnitOf
  <2>2. u.arch = at /\ u.kind = phase
    BY <1>1 DEF HereUnits
  <2>3. v.item # u.item
    BY <2>1, <2>2, UnitsDiffer
  <2> QED BY <1>3, <1>4, <2>1, <2>3 DEF ListsOK, HerePkgs
<1> QED BY <1>1, <1>3, <1>5, <1>6, <1>7 DEF ImagePath

\* The images, when the unit of a package takes a step.
LEMMA ImagesMove ==
  ASSUME IInv, NEW u \in Units, st[u] \in PackageSteps, NEW t, Moves(u, t),
         image' \in [Packages \X Triples -> {NoImage, Stale} \cup ArchNames],
         \A f \in Packages \X Triples : f # ImagePath(PkgOf(u)) => image'[f] = image[f],
         t = "build" => image'[ImagePath(PkgOf(u))] = NoImage,
         t = "finished" /\ PkgBuilds(Here, PkgOf(u)) => image'[ImagePath(PkgOf(u))] = Here.name
  PROVE  ImagesOK'
<1>1. Frame
  BY Framed DEF Moves
<1>2. phase = "packages" /\ u \in HereUnits
      /\ \A v \in HereUnits \ {u} : ImagePath(PkgOf(v)) # ImagePath(PkgOf(u))
  BY PackageUnit
<1>3. st \in [Units -> {"none", "queued", "cancelled", "finished"} \cup Working]
  BY DEF IInv, WorkInv, UnitsOK
<1>4. st'[u] = t /\ \A v \in Units \ {u} : st'[v] = st[v]
  BY <1>3 DEF Moves
<1>5. ASSUME NEW v \in HereUnits
      PROVE  /\ st'[v] = "build" => image'[ImagePath(PkgOf(v))] = NoImage
             /\ st'[v] = "finished" /\ PkgBuilds(Here, PkgOf(v)) =>
                  image'[ImagePath(PkgOf(v))] = Here.name
  <2>1. CASE v = u
    BY <1>4, <2>1
  <2>2. CASE v # u
    <3>1. v \in Units
      BY DEF HereUnits
    <3>2. ImagePath(PkgOf(v)) \in Packages \X Triples
      <4>1. ListsOK(at) /\ v.item \in DOMAIN HerePkgs /\ PkgOf(v) = HerePkgs[v.item]
        BY <1>2, InsideProfile, HereUnitOf DEF InProfile, IInv
      <4> QED BY <4>1 DEF ListsOK, HerePkgs, Here, ToSet, Triples, ImagePath
    <3>3. image'[ImagePath(PkgOf(v))] = image[ImagePath(PkgOf(v))]
      BY <1>2, <2>2, <3>2
    <3> QED BY <1>2, <1>4, <2>2, <3>1, <3>3 DEF IInv, WorkInv, ImagesOK
  <2> QED BY <2>1, <2>2
<1> QED BY <1>1, <1>2, <1>5 DEF ImagesOK, Frame

\* The files of the build directories are not the business of a package.
LEMMA FilesAside ==
  ASSUME IInv, Frame, phase = "packages", UNCHANGED art
  PROVE  FilesOK'
BY DEF IInv, WorkInv, FilesOK, Frame, Pooled, Has

LEMMA SweepStaleKeeps ==
  ASSUME IInv, NEW u \in Units, SweepStale(u)
  PROVE  WorkInv'
<1>1. /\ st[u] = "sweep" /\ st' = [st EXCEPT ![u] = "build"]
      /\ image' = [image EXCEPT ![<<PkgOf(u), ArchOf(u).triple>>] = NoImage]
      /\ UNCHANGED <<args, fate, plan, at, phase, next, res, closing, art>>
  BY DEF SweepStale, MainUnchanged
<1>2. st[u] \in PackageSteps
  BY <1>1 DEF PackageSteps
<1>3. /\ u \in HereUnits /\ phase = "packages" /\ u.kind = "packages"
      /\ <<PkgOf(u), ArchOf(u).triple>> = ImagePath(PkgOf(u))
      /\ ImagePath(PkgOf(u)) \in Packages \X Triples
  BY <1>2, PackageUnit
<1>4. Moves(u, "build")
  BY <1>1, <1>3 DEF Moves, Working, PackageSteps, CaseSteps
<1>5. image \in [Packages \X Triples -> {NoImage, Stale} \cup ArchNames]
  BY DEF IInv, WorkInv, ImagesOK
<1>6. PICK f : f = ImagePath(PkgOf(u))
  OBVIOUS
<1>7. image' = [image EXCEPT ![f] = NoImage] /\ f \in Packages \X Triples
  BY <1>1, <1>3, <1>6
<1>8. /\ image' \in [Packages \X Triples -> {NoImage, Stale} \cup ArchNames]
      /\ \A g \in Packages \X Triples : g # f => image'[g] = image[g]
      /\ image'[f] = NoImage
  BY <1>5, <1>7
<1>9. ImagesOK'
  BY <1>2, <1>4, <1>6, <1>8, ImagesMove
<1>10. UnitsOK'
  <2>1. res' \in [Units -> Results]
    BY <1>1 DEF IInv, WorkInv, UnitsOK, Results
  <2>2. "build" \in Working \cup {"finished"}
    BY DEF Working, PackageSteps
  <2> QED BY <1>1, <1>4, <2>1, <2>2, UnitMoves
<1>11. ResultsOK'
  BY <1>1, <1>4, ResultsMove DEF CaseSteps
<1>12. FilesOK'
  BY <1>1, <1>3, FilesAside, Framed
<1> QED BY <1>9, <1>10, <1>11, <1>12 DEF WorkInv

LEMMA BladeBuildKeeps ==
  ASSUME IInv, NEW u \in Units, BladeBuild(u)
  PROVE  WorkInv'
<1>1. /\ st[u] = "build"
      /\ UNCHANGED <<args, fate, plan, at, phase, next, closing, art>>
  BY DEF BladeBuild, MainUnchanged
<1>2. st[u] \in PackageSteps
  BY <1>1 DEF PackageSteps
<1>3. /\ u \in HereUnits /\ phase = "packages" /\ u.kind = "packages" /\ ArchOf(u) = Here
      /\ Here.name \in ArchNames
      /\ <<PkgOf(u), ArchOf(u).triple>> = ImagePath(PkgOf(u))
      /\ ImagePath(PkgOf(u)) \in Packages \X Triples
  BY <1>2, PackageUnit
<1>4. PICK f : f = ImagePath(PkgOf(u))
  OBVIOUS
<1>5. image \in [Packages \X Triples -> {NoImage, Stale} \cup ArchNames]
      /\ image[f] = NoImage
  BY <1>1, <1>3, <1>4 DEF IInv, WorkInv, ImagesOK
<1>6. PICK r : r = IF PkgBuilds(Here, PkgOf(u)) THEN "built" ELSE "error"
  OBVIOUS
<1>7. /\ image' = IF PkgBuilds(Here, PkgOf(u)) THEN [image EXCEPT ![f] = Here.name] ELSE image
      /\ Finish(u, r)
  <2>1. CASE PkgBuilds(Here, PkgOf(u))
    BY <1>3, <1>4, <1>6, <2>1 DEF BladeBuild
  <2>2. CASE ~PkgBuilds(Here, PkgOf(u))
    BY <1>3, <1>4, <1>5, <1>6, <2>2 DEF BladeBuild
  <2> QED BY <2>1, <2>2
<1>8. st' = [st EXCEPT ![u] = "finished"] /\ res' = [res EXCEPT ![u] = r]
  BY <1>7 DEF Finish
<1>9. Moves(u, "finished")
  BY <1>1, <1>8 DEF Moves, Working, PackageSteps, CaseSteps
<1>10. /\ image' \in [Packages \X Triples -> {NoImage, Stale} \cup ArchNames]
       /\ \A g \in Packages \X Triples : g # f => image'[g] = image[g]
       /\ PkgBuilds(Here, PkgOf(u)) => image'[f] = Here.name
  BY <1>3, <1>4, <1>5, <1>7
<1>11. ImagesOK'
  BY <1>2, <1>4, <1>9, <1>10, ImagesMove
<1>12. res \in [Units -> Results]
  BY DEF IInv, WorkInv, UnitsOK, Results
<1>13. res' \in [Units -> Results] /\ res'[u] = r /\ \A v \in Units \ {u} : res'[v] = res[v]
  BY <1>6, <1>8, <1>12 DEF Results
<1>14. UnitsOK'
  BY <1>9, <1>13, UnitMoves
<1>15. ResultsOK'
  BY <1>3, <1>6, <1>9, <1>13, ResultsMove DEF CaseSteps
<1>16. FilesOK'
  BY <1>1, <1>3, FilesAside, Framed
<1> QED BY <1>11, <1>14, <1>15, <1>16 DEF WorkInv

\* The root and the children of a case are among its packages.
LEMMA PackagesOfCase ==
  ASSUME NEW c, c.children \in Seq(Packages)
  PROVE  /\ c.root # NoPkg => c.root \in ToSet(PackagesOf(c))
         /\ \A i \in DOMAIN c.children : c.children[i] \in ToSet(PackagesOf(c))
<1>1. CASE c.root = NoPkg
  <2>1. PackagesOf(c) = <<>> \o c.children
    BY <1>1 DEF PackagesOf
  <2>2. PackagesOf(c) = c.children
    BY <2>1
  <2> QED BY <1>1, <2>2 DEF ToSet
<1>2. CASE c.root # NoPkg
  <2>1. PICK q : q = PackagesOf(c)
    OBVIOUS
  <2>2. PICK ch : ch = c.children
    OBVIOUS
  <2>3. q = <<c.root>> \o ch /\ ch \in Seq(Packages)
    BY <1>2, <2>1, <2>2 DEF PackagesOf
  <2>4. <<c.root>> \in Seq({c.root} \cup Packages) /\ ch \in Seq({c.root} \cup Packages)
    BY <2>3
  <2>5. /\ DOMAIN q = 1..(1 + Len(ch)) /\ Len(ch) \in Nat /\ DOMAIN ch = 1..Len(ch)
        /\ q[1] = c.root
        /\ \A i \in 1..Len(ch) : q[i + 1] = ch[i]
    BY <2>3, <2>4
  <2>6. c.root \in ToSet(q)
    BY <2>5 DEF ToSet
  <2>7. \A i \in DOMAIN ch : ch[i] \in ToSet(q)
    <3> SUFFICES ASSUME NEW i \in DOMAIN ch PROVE ch[i] \in ToSet(q)
      OBVIOUS
    <3>1. i + 1 \in DOMAIN q /\ q[i + 1] = ch[i]
      BY <2>5
    <3> QED BY <3>1 DEF ToSet
  <2> QED BY <2>1, <2>2, <2>6, <2>7
<1> QED BY <1>1, <1>2

\* The files of two cases of one profile, and of one case, have different names.
LEMMA PathsDiffer ==
  /\ \A a, b, c, d : <<a, "hal">> # <<b, c, d>>
  /\ \A a, b, c, d, e, f : <<a, b, c>> = <<d, e, f>> => b = e /\ c = f
OBVIOUS

\* The unit of a case, its files and its images.
LEMMA CaseUnit ==
  ASSUME IInv, NEW u \in Units, st[u] \in CaseSteps
  PROVE  /\ u \in HereUnits /\ phase = "cases" /\ u.kind = "cases" /\ ArchOf(u) = Here
         /\ CaseFate(Here, CaseOf(u)) \in Verdicts
         /\ FilesOf(u)
         /\ Has(<<ArchOf(u).build, "hal">>, Here.name)
         /\ \A v \in HereUnits \ {u} : \A k, l : File(v, k) # File(u, l)
         /\ CaseOf(u).root # NoPkg => ImageOf(u, CaseOf(u).root) = OwnRoot(u)
         /\ CaseOf(u).children \in Seq(Packages)
         /\ \A i \in DOMAIN CaseOf(u).children :
              ImageOf(u, CaseOf(u).children[i]) = <<CaseOf(u).children[i], Here.name>>
<1>1. u \in HereUnits /\ u.kind = "cases"
  BY DEF IInv, WorkInv, UnitsOK, Working
<1>2. SerialInv
  BY DEF IInv
<1>3. phase = "cases" /\ ArchOf(u) = Here /\ Pooled
      /\ u.item \in DOMAIN HereCases /\ CaseOf(u) = HereCases[u.item]
  BY <1>1, <1>2, HereUnitOf
<1>4. ListsOK(at) /\ Sound(plan, args) /\ at \in DOMAIN plan
  BY <1>2, <1>3, InsideProfile DEF InProfile
<1>5. CaseFate(Here, CaseOf(u)) \in Verdicts
  BY <1>2, <1>3, VerdictOf
<1>6. FilesOf(u) /\ Has(<<Here.build, "hal">>, Here.name)
  BY <1>1, <1>3 DEF IInv, WorkInv, FilesOK
<1>7. ASSUME NEW v \in HereUnits \ {u}, NEW k, NEW l PROVE File(v, k) # File(u, l)
  <2>1. /\ v \in Units /\ v.arch = at /\ v.kind = phase
        /\ v.item \in DOMAIN HereCases /\ CaseOf(v) = HereCases[v.item]
    BY <1>2, <1>3, HereUnitOf
  <2>2. u.arch = at /\ u.kind = phase
    BY <1>1 DEF HereUnits
  <2>3. v.item # u.item
    BY <2>1, <2>2, UnitsDiffer
  <2>4. CaseOf(v).name # CaseOf(u).name
    BY <1>3, <1>4, <2>1, <2>3 DEF ListsOK, HereCases
  <2> QED BY <2>4, PathsDiffer DEF File
<1>8. \A p \in ToSet(PackagesOf(CaseOf(u))) : ImageOf(u, p) = <<p, Here.name>>
  <2>1. \A p \in ToSet(PackagesOf(CaseOf(u))) : \E k \in DOMAIN HerePkgs : p = HerePkgs[k]
    BY <1>3, <1>4, PackagesListed DEF HereCases, HerePkgs
  <2>2. \A k \in DOMAIN HerePkgs : image[ImagePath(HerePkgs[k])] = Here.name
    BY <1>3 DEF IInv, WorkInv, ImagesOK
  <2> QED BY <1>3, <2>1, <2>2 DEF ImageOf, ImagePath
<1>9. CaseOf(u).children \in Seq(Packages)
  <2>1. CaseOf(u) \in ToSet(TEST_CASES)
    BY <1>3, <1>4 DEF ListsOK, HereCases
  <2> QED BY <2>1, TablesAssumption DEF ToSet
<1>10. /\ CaseOf(u).root # NoPkg => CaseOf(u).root \in ToSet(PackagesOf(CaseOf(u)))
       /\ \A i \in DOMAIN CaseOf(u).children :
            CaseOf(u).children[i] \in ToSet(PackagesOf(CaseOf(u)))
  BY <1>9, PackagesOfCase
<1> QED BY <1>1, <1>3, <1>5, <1>6, <1>7, <1>8, <1>9, <1>10 DEF OwnRoot

\* A file is written, and no other.
LEMMA Written ==
  ASSUME NEW p, NEW c, Write(p, c)
  PROVE  /\ Has(p, c)'
         /\ \A q, d : Has(q, d) /\ q # p => Has(q, d)'
BY DEF Write, Has

\* The files and the images, when the unit of a case takes a step.
LEMMA FilesMove ==
  ASSUME IInv, NEW u \in Units, st[u] \in CaseSteps, NEW t, Moves(u, t), UNCHANGED image,
         art' = art \/ \E k, c : Write(File(u, k), c),
         FilesOf(u)'
  PROVE  FilesOK' /\ ImagesOK'
<1>1. Frame
  BY Framed DEF Moves
<1>2. /\ u \in HereUnits /\ phase = "cases"
      /\ \A v \in HereUnits \ {u} : \A k, l : File(v, k) # File(u, l)
  BY CaseUnit
<1>3. \A q, d : Has(q, d) /\ (\A k : q # File(u, k)) => Has(q, d)'
  <2>1. CASE art' = art
    BY <2>1 DEF Has
  <2>2. ASSUME NEW k, NEW c, Write(File(u, k), c)
        PROVE  \A q, d : Has(q, d) /\ q # File(u, k) => Has(q, d)'
    BY <2>2, Written
  <2> QED BY <2>1, <2>2
<1>4. st \in [Units -> {"none", "queued", "cancelled", "finished"} \cup Working]
  BY DEF IInv, WorkInv, UnitsOK
<1>5. \A v \in Units \ {u} : st'[v] = st[v]
  BY <1>4 DEF Moves
<1>6. ASSUME NEW v \in HereUnits, v # u PROVE FilesOf(v)'
  <2>1. FilesOf(v) /\ v \in Units
    BY <1>2 DEF IInv, WorkInv, FilesOK, HereUnits
  <2>2. \A q, d : Has(q, d) /\ (\A k : q # File(u, k)) => q \in DOMAIN art' /\ art'[q] = d
    BY <1>3 DEF Has
  <2>3. st'[v] = st[v]
    BY <1>5, <1>6, <2>1
  <2>4. /\ ArchOf(v)' = ArchOf(v) /\ CaseOf(v)' = CaseOf(v) /\ OwnElf(v)' = OwnElf(v)
        /\ OwnRoot(v)' = OwnRoot(v) /\ OwnRegions(v)' = OwnRegions(v)
        /\ \A k : File(v, k)' = File(v, k)
    BY <1>1 DEF Frame
  <2>5. \A k, d : Has(File(v, k), d) => File(v, k) \in DOMAIN art' /\ art'[File(v, k)] = d
    BY <1>2, <1>6, <2>2
  <2> QED BY <2>1, <2>3, <2>4, <2>5 DEF FilesOf, StageDir, Has
<1>7. (Pooled => Has(<<Here.build, "hal">>, Here.name))'
  <2>1. Has(<<Here.build, "hal">>, Here.name)
    BY <1>2 DEF IInv, WorkInv, FilesOK, Pooled
  <2>2. \A k : <<Here.build, "hal">> # File(u, k)
    BY PathsDiffer DEF File
  <2>3. <<Here.build, "hal">> \in DOMAIN art' /\ art'[<<Here.build, "hal">>] = Here.name
    BY <1>1, <1>3, <2>1, <2>2 DEF Has, Frame
  <2> QED BY <1>1, <2>3 DEF Has, Frame
<1>8. FilesOK'
  BY <1>1, <1>6, <1>7 DEF FilesOK, Frame
<1>9. ImagesOK'
  BY <1>1, <1>2 DEF IInv, WorkInv, ImagesOK, Frame
<1> QED BY <1>8, <1>9

\* A file of a case after the step: there with this content.
Then(u, k, c) == File(u, k) \in DOMAIN art' /\ art'[File(u, k)] = c

\* What a case has after it wrote one of its files.
LEMMA WroteOwn ==
  ASSUME NEW u, NEW k, NEW c, Write(File(u, k), c)
  PROVE  /\ Then(u, k, c)
         /\ \A l, d : l # k /\ Has(File(u, l), d) => Then(u, l, d)
<1>1. \A l : l # k => File(u, l) # File(u, k)
  BY PathsDiffer DEF File
<1> QED BY <1>1 DEF Write, Has, Then

\* The files of a case after its step to t.
FilesThen(u, t) ==
  /\ t \in {"stage", "assemble", "regions", "link"} =>
       Then(u, "obj", <<ArchOf(u).name, CaseOf(u).name>>)
  /\ t \in {"stage", "assemble"} => CaseOf(u).root # NoPkg
  /\ t = "assemble" => Then(u, "stage", OwnRoot(u))
  /\ t \in {"regions", "link"} /\ CaseOf(u).root # NoPkg => Then(u, "rootimg", OwnRoot(u))
  /\ t = "link" /\ CaseOf(u).children # <<>> => Then(u, "regions", OwnRegions(u))
  /\ t = "boot" => Then(u, "elf", OwnElf(u))

LEMMA CaseMoves ==
  ASSUME IInv, NEW u \in Units, st[u] \in CaseSteps,
         NEW t \in CaseSteps \ {"compile"}, st' = [st EXCEPT ![u] = t],
         fate.toolchain = "root",
         NEW k, NEW c, Write(File(u, k), c), FilesThen(u, t),
         UNCHANGED <<args, fate, plan, at, phase, next, closing, res, image>>
  PROVE  WorkInv'
<1>1. u \in HereUnits /\ u.kind = "cases"
  BY CaseUnit
<1>2. t \notin PackageSteps /\ t # "finished" /\ t \in Working \cup {"finished"}
  BY DEF CaseSteps, PackageSteps, Working
<1>3. Moves(u, t)
  BY <1>1, <1>2 DEF Moves, Working
<1>4. UnitsOK'
  <2>1. res' \in [Units -> Results]
    BY DEF IInv, WorkInv, UnitsOK, Results
  <2> QED BY <1>2, <1>3, <2>1, UnitMoves
<1>5. ResultsOK'
  BY <1>2, <1>3, ResultsMove
<1>6. FilesOf(u)'
  <2>1. Frame
    BY Framed
  <2>2. st'[u] = t
    BY DEF IInv, WorkInv, UnitsOK
  <2>3. /\ ArchOf(u)' = ArchOf(u) /\ CaseOf(u)' = CaseOf(u) /\ OwnElf(u)' = OwnElf(u)
        /\ OwnRoot(u)' = OwnRoot(u) /\ OwnRegions(u)' = OwnRegions(u)
        /\ \A l : File(u, l)' = File(u, l)
    BY <2>1 DEF Frame
  <2> QED BY <2>2, <2>3 DEF FilesOf, FilesThen, Then, StageDir, Has
<1>7. FilesOK' /\ ImagesOK'
  BY <1>3, <1>6, FilesMove
<1> QED BY <1>4, <1>5, <1>7 DEF WorkInv

LEMMA CaseFinishes ==
  ASSUME IInv, NEW u \in Units, st[u] \in CaseSteps, NEW r, Finish(u, r),
         r = IF fate.toolchain = "root" THEN CaseFate(Here, CaseOf(u)) ELSE "escapes",
         UNCHANGED <<args, fate, plan, at, phase, next, closing, image, art>>
  PROVE  WorkInv'
<1>1. u \in HereUnits /\ u.kind = "cases" /\ CaseFate(Here, CaseOf(u)) \in Verdicts
  BY CaseUnit
<1>2. st' = [st EXCEPT ![u] = "finished"] /\ res' = [res EXCEPT ![u] = r]
  BY DEF Finish
<1>3. Moves(u, "finished")
  BY <1>2 DEF Moves, Working, CaseSteps, PackageSteps
<1>4. r \in Results
  BY <1>1 DEF Results
<1>5. res \in [Units -> Results]
  BY DEF IInv, WorkInv, UnitsOK, Results
<1>6. res' \in [Units -> Results] /\ res'[u] = r /\ \A v \in Units \ {u} : res'[v] = res[v]
  BY <1>2, <1>4, <1>5
<1>7. UnitsOK'
  BY <1>3, <1>6, UnitMoves
<1>8. ResultsOK'
  BY <1>1, <1>3, <1>6, ResultsMove DEF CaseSteps
<1>9. FilesOf(u)'
  <2>1. st'[u] = "finished"
    BY <1>2 DEF IInv, WorkInv, UnitsOK
  <2> QED BY <2>1 DEF FilesOf
<1>10. FilesOK' /\ ImagesOK'
  BY <1>3, <1>9, FilesMove
<1> QED BY <1>7, <1>8, <1>10 DEF WorkInv

LEMMA CompileKeeps ==
  ASSUME IInv, NEW u \in Units, Compile(u)
  PROVE  WorkInv'
<1>1. st[u] = "compile"
      /\ UNCHANGED <<args, fate, plan, at, phase, next, closing, image>>
  BY DEF Compile, MainUnchanged
<1>2. st[u] \in CaseSteps
  BY <1>1 DEF CaseSteps
<1>3. ArchOf(u) = Here
  BY <1>2, CaseUnit
<1>4. CASE fate.toolchain # "root"
  <2>1. Finish(u, "escapes") /\ art' = art
    BY <1>4 DEF Compile
  <2> QED BY <1>1, <1>2, <1>4, <2>1, CaseFinishes
<1>5. CASE fate.toolchain = "root" /\ CaseFate(ArchOf(u), CaseOf(u)) = "build error"
  <2>1. Finish(u, "build error") /\ art' = art
    BY <1>5 DEF Compile
  <2> QED BY <1>1, <1>2, <1>3, <1>5, <2>1, CaseFinishes
<1>6. CASE fate.toolchain = "root" /\ CaseFate(ArchOf(u), CaseOf(u)) # "build error"
  <2>1. PICK t : t = AfterObj(CaseOf(u))
    OBVIOUS
  <2>2. /\ Write(File(u, "obj"), <<ArchOf(u).name, CaseOf(u).name>>)
        /\ st' = [st EXCEPT ![u] = t] /\ UNCHANGED res
    BY <1>6, <2>1 DEF Compile
  <2>3. Then(u, "obj", <<ArchOf(u).name, CaseOf(u).name>>)
    BY <2>2, WroteOwn
  <2>4. /\ t \in {"stage", "regions", "link"}
        /\ t = "stage" <=> CaseOf(u).root # NoPkg
        /\ t = "link" => CaseOf(u).children = <<>>
    BY <2>1 DEF AfterObj, AfterRoot
  <2>5. t \in CaseSteps \ {"compile"}
    BY <2>4 DEF CaseSteps
  <2>6. FilesThen(u, t)
    BY <2>3, <2>4 DEF FilesThen
  <2> QED BY <1>1, <1>2, <1>6, <2>2, <2>5, <2>6, CaseMoves
<1> QED BY <1>4, <1>5, <1>6

LEMMA StageRootKeeps ==
  ASSUME IInv, NEW u \in Units, StageRoot(u)
  PROVE  WorkInv'
<1>1. /\ st[u] = "stage" /\ st' = [st EXCEPT ![u] = "assemble"]
      /\ Write(File(u, "stage"), ImageOf(u, CaseOf(u).root))
      /\ UNCHANGED <<args, fate, plan, at, phase, next, closing, res, image>>
  BY DEF StageRoot, MainUnchanged, StageDir
<1>2. st[u] \in CaseSteps /\ "assemble" \in CaseSteps \ {"compile"}
      /\ st[u] \in CaseSteps \ {"compile"}
  BY <1>1 DEF CaseSteps
<1>3. /\ u \in HereUnits /\ FilesOf(u)
      /\ CaseOf(u).root # NoPkg => ImageOf(u, CaseOf(u).root) = OwnRoot(u)
  BY <1>2, CaseUnit
<1>4. fate.toolchain = "root"
  BY <1>2, <1>3 DEF IInv, WorkInv, ResultsOK
<1>5. Has(File(u, "obj"), <<ArchOf(u).name, CaseOf(u).name>>) /\ CaseOf(u).root # NoPkg
  BY <1>1, <1>3 DEF FilesOf
<1>6. /\ Then(u, "stage", OwnRoot(u))
      /\ Then(u, "obj", <<ArchOf(u).name, CaseOf(u).name>>)
  BY <1>1, <1>3, <1>5, WroteOwn
<1>7. FilesThen(u, "assemble")
  BY <1>5, <1>6 DEF FilesThen
<1> QED BY <1>1, <1>2, <1>4, <1>7, CaseMoves

LEMMA AssembleRootKeeps ==
  ASSUME IInv, NEW u \in Units, AssembleRoot(u)
  PROVE  WorkInv'
<1>1. PICK t : t = AfterRoot(CaseOf(u))
  OBVIOUS
<1>2. /\ st[u] = "assemble" /\ st' = [st EXCEPT ![u] = t]
      /\ Write(File(u, "rootimg"), art[StageDir(u)])
      /\ UNCHANGED <<args, fate, plan, at, phase, next, closing, res, image>>
  BY <1>1 DEF AssembleRoot, MainUnchanged
<1>3. st[u] \in CaseSteps /\ st[u] \in CaseSteps \ {"compile"}
  BY <1>2 DEF CaseSteps
<1>4. u \in HereUnits /\ FilesOf(u)
  BY <1>3, CaseUnit
<1>5. fate.toolchain = "root"
  BY <1>3, <1>4 DEF IInv, WorkInv, ResultsOK
<1>6. Has(File(u, "obj"), <<ArchOf(u).name, CaseOf(u).name>>) /\ art[StageDir(u)] = OwnRoot(u)
  BY <1>2, <1>4 DEF FilesOf, Has
<1>7. /\ Then(u, "rootimg", OwnRoot(u))
      /\ Then(u, "obj", <<ArchOf(u).name, CaseOf(u).name>>)
  BY <1>2, <1>6, WroteOwn
<1>8. t \in {"regions", "link"} /\ (t = "link" => CaseOf(u).children = <<>>)
  BY <1>1 DEF AfterRoot
<1>9. t \in CaseSteps \ {"compile"}
  BY <1>8 DEF CaseSteps
<1>10. FilesThen(u, t)
  BY <1>7, <1>8 DEF FilesThen
<1> QED BY <1>2, <1>3, <1>5, <1>9, <1>10, CaseMoves

LEMMA StitchRegionsKeeps ==
  ASSUME IInv, NEW u \in Units, StitchRegions(u)
  PROVE  WorkInv'
<1>1. PICK c : c = [i \in DOMAIN CaseOf(u).children |-> ImageOf(u, CaseOf(u).children[i])]
  OBVIOUS
<1>2. /\ st[u] = "regions" /\ st' = [st EXCEPT ![u] = "link"]
      /\ Write(File(u, "regions"), c)
      /\ UNCHANGED <<args, fate, plan, at, phase, next, closing, res, image>>
  BY <1>1 DEF StitchRegions, MainUnchanged
<1>3. st[u] \in CaseSteps /\ st[u] \in CaseSteps \ {"compile"} /\ "link" \in CaseSteps \ {"compile"}
  BY <1>2 DEF CaseSteps
<1>4. /\ u \in HereUnits /\ FilesOf(u) /\ ArchOf(u) = Here
      /\ \A i \in DOMAIN CaseOf(u).children :
           ImageOf(u, CaseOf(u).children[i]) = <<CaseOf(u).children[i], Here.name>>
  BY <1>3, CaseUnit
<1>5. fate.toolchain = "root"
  BY <1>3, <1>4 DEF IInv, WorkInv, ResultsOK
<1>6. c = OwnRegions(u)
  BY <1>1, <1>4 DEF OwnRegions
<1>7. /\ Has(File(u, "obj"), <<ArchOf(u).name, CaseOf(u).name>>)
      /\ CaseOf(u).root # NoPkg => Has(File(u, "rootimg"), OwnRoot(u))
  BY <1>2, <1>4 DEF FilesOf
<1>8. /\ Then(u, "regions", OwnRegions(u))
      /\ Then(u, "obj", <<ArchOf(u).name, CaseOf(u).name>>)
      /\ CaseOf(u).root # NoPkg => Then(u, "rootimg", OwnRoot(u))
  BY <1>2, <1>6, <1>7, WroteOwn
<1>9. FilesThen(u, "link")
  BY <1>8 DEF FilesThen
<1> QED BY <1>2, <1>3, <1>5, <1>9, CaseMoves

LEMMA LinkKeeps ==
  ASSUME IInv, NEW u \in Units, Link(u)
  PROVE  WorkInv'
<1>1. /\ st[u] = "link" /\ st' = [st EXCEPT ![u] = "boot"]
      /\ Write(File(u, "elf"), Linked(u))
      /\ UNCHANGED <<args, fate, plan, at, phase, next, closing, res, image>>
  BY DEF Link, MainUnchanged
<1>2. st[u] \in CaseSteps /\ st[u] \in CaseSteps \ {"compile"} /\ "boot" \in CaseSteps \ {"compile"}
  BY <1>1 DEF CaseSteps
<1>3. /\ u \in HereUnits /\ FilesOf(u) /\ ArchOf(u) = Here
      /\ Has(<<ArchOf(u).build, "hal">>, Here.name)
      /\ CaseOf(u).children \in Seq(Packages)
  BY <1>2, CaseUnit
<1>4. fate.toolchain = "root"
  BY <1>2, <1>3 DEF IInv, WorkInv, ResultsOK
<1>5. art[<<ArchOf(u).build, "hal">>] = ArchOf(u).name
  BY <1>3 DEF Has
<1>6. /\ art[File(u, "obj")] = <<ArchOf(u).name, CaseOf(u).name>>
      /\ CaseOf(u).root # NoPkg => art[File(u, "rootimg")] = OwnRoot(u)
      /\ CaseOf(u).children # <<>> => art[File(u, "regions")] = OwnRegions(u)
  BY <1>1, <1>3 DEF FilesOf, Has
<1>7. CaseOf(u).children = <<>> => OwnRegions(u) = <<>>
  BY DEF OwnRegions
<1>8. Linked(u) = OwnElf(u)
  <2>1. (IF CaseOf(u).children = <<>> THEN <<>> ELSE art[File(u, "regions")]) = OwnRegions(u)
    BY <1>6, <1>7
  <2>2. (IF CaseOf(u).root = NoPkg THEN NoPkg ELSE art[File(u, "rootimg")])
          = (IF CaseOf(u).root = NoPkg THEN NoPkg ELSE OwnRoot(u))
    BY <1>6
  <2> QED BY <1>5, <1>6, <2>1, <2>2 DEF Linked, OwnElf, OwnRoot, OwnRegions
<1>9. Then(u, "elf", OwnElf(u))
  BY <1>1, <1>8, WroteOwn
<1>10. FilesThen(u, "boot")
  BY <1>9 DEF FilesThen
<1> QED BY <1>1, <1>2, <1>4, <1>10, CaseMoves

LEMMA BootKeeps ==
  ASSUME IInv, NEW u \in Units, Boot(u)
  PROVE  WorkInv'
<1>1. st[u] = "boot"
      /\ UNCHANGED <<args, fate, plan, at, phase, next, closing, image, art>>
  BY DEF Boot, MainUnchanged
<1>2. st[u] \in CaseSteps /\ st[u] \in CaseSteps \ {"compile"}
  BY <1>1 DEF CaseSteps
<1>3. u \in HereUnits /\ FilesOf(u) /\ ArchOf(u) = Here
  BY <1>2, CaseUnit
<1>4. fate.toolchain = "root"
  BY <1>2, <1>3 DEF IInv, WorkInv, ResultsOK
<1>5. art[File(u, "elf")] = OwnElf(u)
  BY <1>1, <1>3 DEF FilesOf, Has
<1>6. Finish(u, CaseFate(Here, CaseOf(u)))
  BY <1>3, <1>5 DEF Boot
<1> QED BY <1>1, <1>2, <1>4, <1>6, CaseFinishes

LEMMA WorkKeeps ==
  ASSUME IInv, NEW u \in Units, Work(u)
  PROVE  WorkInv'
BY StartUnitKeeps, SweepStaleKeeps, BladeBuildKeeps, CompileKeeps, StageRootKeeps,
   AssembleRootKeeps, StitchRegionsKeeps, LinkKeeps, BootKeeps DEF Work

-----------------------------------------------------------------------------
(* The theorems.                                                           *)

LEMMA SuiteInitial == SuiteInit => IInv
<1> SUFFICES ASSUME SuiteInit PROVE IInv
  OBVIOUS
<1>1. SerialInv
  BY SerialInitial DEF SuiteInit
<1>2. st = [u \in Units |-> "none"] /\ phase = "arguments" /\ next = 1
  BY DEF SuiteInit, Init
<1>3. ~Pooled /\ \A u \in Units : u \notin HereUnits
  BY <1>2 DEF Pooled, HereUnits, Units
<1>4. HereUnits = {}
  BY <1>3 DEF HereUnits
<1>5. UnitsOK
  <2>1. /\ res \in [Units -> {"none", "built", "error", "escapes"} \cup Verdicts]
        /\ closing = FALSE
    BY DEF SuiteInit
  <2> QED BY <1>2, <1>4, <2>1 DEF UnitsOK, Submitted, Working, PackageSteps, CaseSteps
<1>6. ResultsOK
  BY <1>4 DEF ResultsOK
<1>7. ImagesOK
  BY <1>2 DEF ImagesOK, SuiteInit
<1>8. FilesOK
  BY <1>2, <1>3 DEF FilesOK
<1> QED BY <1>1, <1>5, <1>6, <1>7, <1>8 DEF IInv, WorkInv

LEMMA SuiteStep ==
  ASSUME IInv, [Next]_vars
  PROVE  IInv'
<1>1. SerialInv'
  BY StepIsSerial, SerialStep DEF IInv
<1>2. CASE UNCHANGED vars
  <2>1. UNCHANGED <<fate, plan, at, phase, next, closing, st, res, image, art>>
    BY <1>2 DEF vars
  <2>2. Frame
    BY <2>1, Framed
  <2>3. FilesOK' /\ ImagesOK' /\ ResultsOK'
    BY <2>1, <2>2, FilesStay, ResultsStay
  <2>4. Head1' = Head1 /\ (Pooled' <=> Pooled) /\ (Submitted' <=> Submitted)
    BY <2>1, <2>2 DEF Head1, Pooled, Submitted, Frame
  <2>5. UnitsOK'
    BY <2>1, <2>2, <2>4 DEF IInv, WorkInv, UnitsOK, Frame
  <2> QED BY <1>1, <2>3, <2>5 DEF IInv, WorkInv
<1>3. CASE Over
  BY <1>2, <1>3 DEF Over
<1>4. CASE Console
  BY <1>1, <1>4, MainKeeps, SubmitKeeps, AwaitKeeps, LeavePoolKeeps, GiveUpKeeps
     DEF Console, IInv
<1>5. ASSUME NEW u \in Units, Work(u) PROVE IInv'
  BY <1>1, <1>5, WorkKeeps DEF IInv
<1> QED BY <1>2, <1>3, <1>4, <1>5 DEF Next

\* The inductive invariant: where the printing thread is and what it has counted,
\* who is in the pool, and what every file made so far holds.
THEOREM SuiteInvariant == Spec => []IInv
<1>1. SuiteInit => IInv
  BY SuiteInitial
<1>2. IInv /\ [Next]_vars => IInv'
  BY SuiteStep
<1> QED BY <1>1, <1>2, PTL DEF Spec

\* Whatever the other workers copy, assemble and link meanwhile, a case boots its
\* own image, and no worker outlives its profile and phase (run_case, _map_ordered).
THEOREM WorkersKeepApart == Spec => []OwnWork
<1>1. IInv => OwnWork
  <2> SUFFICES ASSUME IInv PROVE OwnWork
    OBVIOUS
  <2>1. BootsItsOwn
    <3> SUFFICES ASSUME NEW u \in Units, st[u] = "boot"
                 PROVE  art[File(u, "elf")] = OwnElf(u)
      BY DEF BootsItsOwn
    <3>1. st[u] \in CaseSteps
      BY DEF CaseSteps
    <3>2. FilesOf(u)
      BY <3>1, CaseUnit
    <3> QED BY <3>2 DEF FilesOf, Has
  <2>2. NoStragglers
    BY DEF NoStragglers, IInv, WorkInv, UnitsOK, HereUnits
  <2> QED BY <2>1, <2>2 DEF OwnWork
<1> QED BY <1>1, SuiteInvariant, PTL

\* The exit status is 0 exactly when every selected case builds, boots and passes,
\* and the counts of the last line are those of the cases asked for (run_suite).
THEOREM ReportHolds == Spec => []ReportIsTruth
<1>1. IInv => ReportIsTruth
  <2> SUFFICES ASSUME IInv PROVE ReportIsTruth
    OBVIOUS
  <2>1. TypeOK
    BY DEF TypeOK, IInv, SerialInv, WhereOK, WorkInv, UnitsOK
  <2>2. VerdictIsTruth
    BY DEF IInv, SerialInv
  <2>3. CountsAddUp
    BY DEF CountsAddUp, IInv, SerialInv, WhereOK, Counted
  <2> QED BY <2>1, <2>2, <2>3 DEF ReportIsTruth
<1> QED BY <1>1, SuiteInvariant, PTL

\* "A parallel run's output is byte-identical to a serial one's": with any number
\* of workers the console shows a run of the serial harness (_map_ordered).
THEOREM ParallelImplementsSerial == Spec => ParallelIsSerial
<1>1. SuiteInit => Init
  BY DEF SuiteInit
<1>2. IInv /\ [Next]_vars => [SerialNext]_sVars
  BY StepIsSerial
<1> QED BY <1>1, <1>2, SuiteInvariant, PTL DEF Spec, ParallelIsSerial, SerialSpec

=============================================================================
