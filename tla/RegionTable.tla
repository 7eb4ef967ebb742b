---------------------------- MODULE RegionTable ----------------------------
(***************************************************************************)
(* The boot region table, end to end: tools/sos_runner.py decides a case's *)
(* rows (_region_rows), writes them as an assembly stub (_stitch_regions), *)
(* the linker gives the child images their addresses, and the kernel reads *)
(* the section back and mints one capability per row (kernel/core/         *)
(* process.saw, mint_boot_regions). tools/sosimg_dump.py --regions reads   *)
(* the same bytes.                                                         *)
(*                                                                         *)
(* A 64-bit word is four 16-bit limbs, least significant first, and a      *)
(* section is the sequence of its 16-bit units: two to a `.4byte', four to *)
(* an `.8byte'. The reserved bytes of the format are part of the layout.   *)
(***************************************************************************)
EXTENDS Naturals, Sequences, SequencesExt, FiniteSets

CONSTANTS
    Cases,           \* the cases of this run: records of module CaseTable
    BlobLens,        \* the lengths a child image may have
    BlobOffsets,     \* how far into the kernel image the linker puts the first
    MAX_MEMORIES, MAX_IOMEMORIES, MAX_HANDLES

VARIABLES
    job,      \* the case, and the profile it is built for
    phase,    \* "rows", "linked", "minting", then "refused", "booted" or "fatal"
    rows,     \* what _region_rows answered
    blobs,    \* where the linker put the child images
    section,  \* the .regions section
    minted    \* the capabilities the kernel has minted, in order

vars == <<job, phase, rows, blobs, section, minted>>

-----------------------------------------------------------------------------
(* Words.                                                                  *)
B == 65536

Word(n) == <<n % B, n \div B, 0, 0>>

Plus(w, n) ==
    LET a == w[1] + (n % B)
        b == w[2] + (n \div B) + (a \div B)
        c == w[3] + (b \div B)
    IN <<a % B, b % B, c % B, (w[4] + (c \div B)) % B>>

Less(v, w) ==
    \E i \in 1..4 : v[i] < w[i] /\ \A j \in (i + 1)..4 : v[j] = w[j]

\* The length of a region as a number: every one is far below 2^31.
Nat32(w) == w[1] + B * w[2]

-----------------------------------------------------------------------------
(* The profiles. `origin' is where the kernel is linked.                   *)
RISCV32 ==
    [name |-> "riscv32", hex_width |-> 8, tier |-> "isolated",
     origin |-> <<0, \h8000, 0, 0>>, root_entry |-> <<0, \h8020, 0, 0>>,
     child_region_base |-> <<0, \h8024, 0, 0>>, pool_base |-> <<0, \h8028, 0, 0>>,
     device_base |-> <<0, \h1000, 0, 0>>]

ARM64 ==
    [name |-> "arm64", hex_width |-> 16, tier |-> "isolated",
     origin |-> <<0, \h4000, \hFF80, \hFFFF>>, root_entry |-> <<0, \h4020, 0, 0>>,
     child_region_base |-> <<0, \h4024, 0, 0>>, pool_base |-> <<0, \h4028, 0, 0>>,
     device_base |-> <<0, \h0900, 0, 0>>]

RISCV32_FLAT == [RISCV32 EXCEPT !.name = "riscv32-flat", !.tier = "flat"]

ARCHES == {RISCV32, ARM64, RISCV32_FLAT}

\* Bug: the windows of the children are half as far apart as they are linked.
HALF_LEN == \h20000

CHILD_REGION_LEN == \h40000

POOL_LEN == \h40000
DEVICE_LEN == \h1000

RAM == 0
DEVICE == 1
RegionKinds == {RAM, DEVICE}

REGION_TABLE_MAGIC == <<\h5253, \h4E47>>
REGION_TABLE_VERSION == 2

-----------------------------------------------------------------------------
(* _region_rows: the children's images, their destinations, the pool, the  *)
(* device window, in this order. A blob row names a symbol of the linker's.*)
Literal(base, len, kind) == [blob |-> 0, base |-> base, len |-> Word(len), kind |-> kind]
Blob(i) == [blob |-> i, base |-> Word(0), len |-> Word(0), kind |-> RAM]

Destination(arch, i) == Plus(arch.child_region_base, (i - 1) * CHILD_REGION_LEN)

\* Bug: the pool row goes before the destination rows.
PoolBeforeDestinations(case, arch) ==
    LET n == Len(case.children)
    IN [i \in 1..n |-> Blob(i)]
       \o (IF case.pool THEN <<Literal(arch.pool_base, POOL_LEN, RAM)>> ELSE <<>>)
       \o [i \in 1..n |-> Literal(Destination(arch, i), CHILD_REGION_LEN, RAM)]
       \o (IF case.device THEN <<Literal(arch.device_base, DEVICE_LEN, DEVICE)>> ELSE <<>>)

RowsOf(case, arch) ==
    LET n == Len(case.children)
    IN [i \in 1..n |-> Blob(i)]
       \o [i \in 1..n |-> Literal(Destination(arch, i), CHILD_REGION_LEN, RAM)]
       \o (IF case.pool THEN <<Literal(arch.pool_base, POOL_LEN, RAM)>> ELSE <<>>)
       \o (IF case.device THEN <<Literal(arch.device_base, DEVICE_LEN, DEVICE)>> ELSE <<>>)

\* The raise ToolError: two children and a pool cannot coexist.
Refuses(case) == Len(case.children) > 1 /\ case.pool

HasTable(case) == case.children /= <<>> \/ case.pool \/ case.device

-----------------------------------------------------------------------------
(* _emit_word64, _emit_row and the header of _stitch_regions.              *)
Low32(w) == <<w[1], w[2]>>

EmitWord64(arch, w) == IF arch.hex_width = 8 THEN Low32(w) \o <<0, 0>> ELSE w

EmitRow(arch, r) ==
    EmitWord64(arch, r.base) \o EmitWord64(arch, r.len) \o <<r.kind, 0, 0, 0>>

EmitTable(arch, rs) ==
    REGION_TABLE_MAGIC \o <<REGION_TABLE_VERSION, Len(rs)>>
    \o FlattenSeq([i \in DOMAIN rs |-> EmitRow(arch, rs[i])])

\* The linker's work: the blobs one after another, each on a 16-byte boundary,
\* and the symbols of the blob rows replaced by their values.
Aligned(n) == ((n + 15) \div 16) * 16

Layout(arch, n, at, lens) ==
    LET offset[i \in 1..n] ==
            IF i = 1 THEN Aligned(at) ELSE offset[i - 1] + Aligned(lens[i - 1])
    IN [i \in 1..n |-> [base |-> Plus(arch.origin, offset[i]), len |-> Word(lens[i])]]

Resolve(r, bs) ==
    IF r.blob = 0 THEN r ELSE [r EXCEPT !.base = bs[r.blob].base, !.len = bs[r.blob].len]

-----------------------------------------------------------------------------
(* mint_boot_regions.                                                      *)
HeaderLen == 4
RowLen == 12

U64(at) == SubSeq(section, at + 1, at + 4)

RowAt(i) ==
    LET at == HeaderLen + (i - 1) * RowLen
    IN [base |-> U64(at), len |-> U64(at + 4), kind |-> section[at + 9] % 256]

Count == section[4] % 256

HeaderBad ==
    \/ Len(section) < HeaderLen
    \/ SubSeq(section, 1, 2) /= REGION_TABLE_MAGIC
    \/ section[3] /= REGION_TABLE_VERSION
    \/ Count > MAX_MEMORIES + MAX_IOMEMORIES
    \/ Count * RowLen > Len(section) - HeaderLen

FitsWord(arch, w) == arch.hex_width = 16 \/ (w[3] = 0 /\ w[4] = 0)

\* LINMAP_PHYS_MASK keeps 39 bits; the MPU profiles' virt_to_phys is the identity.
VirtToPhys(arch, w) ==
    IF arch.name = "arm64" THEN <<w[1], w[2], w[3] % 128, 0>> ELSE w

NotNormalized(arch, w) == w

MintedOf(kind) == Cardinality({i \in DOMAIN minted : minted[i].kind = kind})

SlotsOf(kind) == IF kind = RAM THEN MAX_MEMORIES ELSE MAX_IOMEMORIES

\* The System, Process and Thread handles of root are minted first.
BootHandles == 3

RowBad(r) ==
    \/ ~FitsWord(job.arch, r.base) \/ ~FitsWord(job.arch, r.len)
    \/ r.kind \notin RegionKinds
    \/ Len(minted) >= MAX_HANDLES
    \/ MintedOf(r.kind) >= SlotsOf(r.kind)
    \/ BootHandles + Len(minted) >= MAX_HANDLES

-----------------------------------------------------------------------------
Init ==
    /\ job \in {[case |-> c, arch |-> a] : c \in Cases, a \in ARCHES}
    /\ job.arch.name \in job.case.arches
    /\ job.case.tier \in {"any", job.arch.tier}
    /\ phase = "rows"
    /\ rows = <<>>
    /\ blobs = <<>>
    /\ section = <<>>
    /\ minted = <<>>

\* _region_rows raises.
Refuse ==
    /\ phase = "rows"
    /\ Refuses(job.case)
    /\ phase' = "refused"
    /\ UNCHANGED <<job, rows, blobs, section, minted>>

\* _stitch_regions, when the case has a table at all, and the link.
Stitch ==
    /\ phase = "rows"
    /\ ~Refuses(job.case)
    /\ HasTable(job.case)
    /\ rows' = RowsOf(job.case, job.arch)
    /\ \E at \in BlobOffsets, lens \in [1..Len(job.case.children) -> BlobLens] :
          blobs' = Layout(job.arch, Len(job.case.children), at, lens)
    /\ section' = EmitTable(job.arch, [i \in DOMAIN rows' |-> Resolve(rows'[i], blobs')])
    /\ phase' = "linked"
    /\ UNCHANGED <<job, minted>>

\* A case with no children, pool or device links no section, and the kernel
\* takes its `len == 0' return.
BootBare ==
    /\ phase = "rows"
    /\ ~HasTable(job.case)
    /\ phase' = "booted"
    /\ UNCHANGED <<job, rows, blobs, section, minted>>

ReadHeader ==
    /\ phase = "linked"
    /\ phase' = IF HeaderBad THEN "fatal" ELSE "minting"
    /\ UNCHANGED <<job, rows, blobs, section, minted>>

\* One turn of the loop: a capability whose tag is the row's ordinal.
MintRow ==
    /\ phase = "minting"
    /\ Len(minted) < Count
    /\ LET r == RowAt(Len(minted) + 1)
       IN /\ ~RowBad(r)
          /\ minted' = Append(minted, [tag |-> Len(minted), kind |-> r.kind, len |-> r.len,
                                       base |-> VirtToPhys(job.arch, r.base)])
    /\ UNCHANGED <<job, phase, rows, blobs, section>>

\* fatal_image: the machine stops at the row.
MintFatal ==
    /\ phase = "minting"
    /\ Len(minted) < Count
    /\ RowBad(RowAt(Len(minted) + 1))
    /\ phase' = "fatal"
    /\ UNCHANGED <<job, rows, blobs, section, minted>>

MintDone ==
    /\ phase = "minting"
    /\ Len(minted) = Count
    /\ phase' = "booted"
    /\ UNCHANGED <<job, rows, blobs, section, minted>>

Next == Refuse \/ Stitch \/ BootBare \/ ReadHeader \/ MintRow \/ MintFatal \/ MintDone

Spec == Init /\ [][Next]_vars

-----------------------------------------------------------------------------
(* tools/sosimg_dump.py, dump_regions: the same bytes at fixed offsets.    *)
Unpacked(off) ==
    [base |-> U64(off), len |-> U64(off + 4), kind |-> section[off + 9] % 256]

DumpRegions == [i \in 1..Count |-> Unpacked(4 + (i - 1) * 12)]

-----------------------------------------------------------------------------
Words == [1..4 -> 0..(B - 1)]

TypeOK ==
    /\ phase \in {"rows", "linked", "minting", "refused", "booted", "fatal"}
    /\ \A i \in DOMAIN section : section[i] \in 0..(B - 1)
    /\ \A i \in DOMAIN minted :
          minted[i].tag = i - 1 /\ minted[i].base \in Words /\ minted[i].len \in Words
    /\ BootHandles + Len(minted) <= MAX_HANDLES

Range64(base, len) == [base |-> base, len |-> Word(len)]

Overlap(r, s) ==
    /\ Less(r.base, Plus(s.base, Nat32(s.len)))
    /\ Less(s.base, Plus(r.base, Nat32(r.len)))

\* A booted machine's capabilities are the case's, each under the tag root's
\* configuration knows it by: child i's image (where the linker put it, as a
\* physical address), child i's destination, the pool, the device window. The
\* property spans the row order, the 32- and 64-bit encodings, the kernel's
\* decoding and the higher-half addresses of the arm64 kernel.
Physical(w) == IF w[4] = 0 THEN w ELSE <<w[1], w[2], 0, 0>>

Promised(case, arch, tag) ==
    LET n == Len(case.children)
        device == tag = 2 * n + (IF case.pool THEN 1 ELSE 0)
    IN CASE tag < n ->
              [tag |-> tag, kind |-> RAM, base |-> Physical(blobs[tag + 1].base),
               len |-> blobs[tag + 1].len]
         [] n <= tag /\ tag < 2 * n ->
              [tag |-> tag, kind |-> RAM, len |-> Word(\h40000),
               base |-> Plus(arch.child_region_base, (tag - n) * \h40000)]
         [] tag >= 2 * n /\ ~device ->
              [tag |-> tag, kind |-> RAM, base |-> arch.pool_base, len |-> Word(\h40000)]
         [] tag >= 2 * n /\ device ->
              [tag |-> tag, kind |-> DEVICE, base |-> arch.device_base,
               len |-> Word(\h1000)]

MintedAsPublished ==
    phase = "booted" =>
        /\ Len(minted) = 2 * Len(job.case.children) + (IF job.case.pool THEN 1 ELSE 0)
                         + (IF job.case.device THEN 1 ELSE 0)
        /\ \A i \in DOMAIN minted : minted[i] = Promised(job.case, job.arch, i - 1)

\* No two capabilities the kernel mints cover a common byte, and none covers a
\* byte of the window root runs in: the table never gives one range away under
\* two names.
WindowsDisjoint ==
    /\ \A i, j \in DOMAIN minted : i < j => ~Overlap(minted[i], minted[j])
    /\ \A i \in DOMAIN minted :
          ~Overlap(minted[i], Range64(job.arch.root_entry, \h40000))

\* _region_rows refuses a case only when the windows it would publish collide.
RefusalIsNeeded ==
    phase = "refused" =>
        LET rs == RowsOf(job.case, job.arch)
        IN \E i, j \in DOMAIN rs :
              i < j /\ rs[i].blob = 0 /\ rs[j].blob = 0 /\ Overlap(rs[i], rs[j])

\* What the dump tool prints of the section is what the kernel mints from it,
\* the base apart, which the dump shows as the linker wrote it.
DumpAgrees ==
    phase = "booted" /\ HasTable(job.case) =>
        /\ Len(DumpRegions) = Len(minted)
        /\ \A i \in DOMAIN minted :
              /\ DumpRegions[i].len = minted[i].len
              /\ DumpRegions[i].kind = minted[i].kind
              /\ Physical(DumpRegions[i].base) = minted[i].base

\* A table stops the boot only at a wall of the kernel's: there are more rows
\* than root's handle table or the slabs take. Nothing the stitcher writes is
\* malformed.
OnlyAWallIsFatal ==
    phase = "fatal" =>
        \/ Len(rows) > MAX_HANDLES - BootHandles
        \/ \E k \in RegionKinds :
              Cardinality({i \in DOMAIN rows : rows[i].kind = k}) > SlotsOf(k)

=============================================================================
