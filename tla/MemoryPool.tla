----------------------------- MODULE MemoryPool -----------------------------
(***************************************************************************)
(* The physical memory of the SawOS kernel: the pool roots minted at boot, *)
(* the regions Split cuts from them, the sorted free list a returned range *)
(* goes back to, and the three counts (handles, grant rows, bytes on loan) *)
(* that decide when a region is given back.                                *)
(*                                                                         *)
(* Addresses and lengths count protection grains.  A free list is the      *)
(* sequence of its nodes, and all lists draw their nodes from one slab.    *)
(* The handles and rows of a region are only counted: whose they are shows *)
(* when a process ends and takes any number of them away.  A call of       *)
(* memory_release_if_idle is a step of its own that nothing else can       *)
(* precede, because the last thing the code does in it is to call it again *)
(* for the root.                                                           *)
(***************************************************************************)
EXTENDS Integers, Sequences, FiniteSets, FiniteSetsExt, SequencesExt

CONSTANTS NSlots,        \* MAX_MEMORIES
          Boot,          \* Boot[r]: the range of pool root r
          MaxFreeRanges, \* MAX_FREE_RANGES, the nodes the image is built with
          MaxRefs,       \* bound on the handles of one region
          MaxMaps,       \* bound on the grant rows of one region
          MaxNodes,      \* bound on the nodes donations bring the slab to
          MaxDonated,    \* bound on the grains donated
          Mortal         \* whether processes end

Slots == 1..NSlots
Roots == DOMAIN Boot

ASSUME BootOK ==
  /\ NSlots \in Nat /\ Roots \subseteq Slots
  /\ MaxFreeRanges \in Nat /\ MaxRefs \in Nat \ {0} /\ MaxMaps \in Nat /\ MaxNodes \in Nat
  /\ MaxDonated \in Nat
  /\ MaxFreeRanges <= MaxNodes /\ Mortal \in BOOLEAN
  /\ \A r \in Roots : Boot[r].base \in Nat /\ Boot[r].len \in Nat
  /\ \A r, q \in Roots : r # q =>
       \/ Boot[r].base + Boot[r].len <= Boot[q].base
       \/ Boot[q].base + Boot[q].len <= Boot[r].base

VARIABLES
  mem,     \* MEMORIES, a root's free list included
  nodes,   \* the capacity of FREE_RANGES
  donated, \* history: the grains that became slab extents
  release, \* the slot memory_release_if_idle is to look at next, 0 when none
  scan,    \* where reap_unreferenced has got to; 0 when no process is ending
  doomed   \* the grant rows of the ending process, by region

vars == <<mem, nodes, donated, release, scan, doomed>>

-----------------------------------------------------------------------------
(* Ranges and slots.                                                       *)

Top(n) == n.base + n.len
Cells(n) == n.base .. Top(n) - 1

AllCells == UNION {Cells(Boot[r]) : r \in Roots}
Grains   == Cardinality(AllCells)

NoRows == [s \in Slots |-> 0]

\* What a slot in the Free state holds.
Gone == [live |-> FALSE, base |-> 0, len |-> 0, refs |-> 0, maps |-> 0,
         root |-> 0, free |-> <<>>, out_bytes |-> 0, dropped |-> 0]

Region(base, len, root) ==
  [Gone EXCEPT !.live = TRUE, !.base = base, !.len = len, !.refs = 1, !.root = root]

\* alloc_memory takes the lowest Free slot; 0 stands for NO_MEMORY.
FreeSlots == {s \in Slots : ~mem[s].live}
alloc_memory == IF FreeSlots = {} THEN 0 ELSE Min(FreeSlots)

IsRoot(s) == mem[s].live /\ mem[s].root = s
Derived(s) == mem[s].live /\ mem[s].root # s

\* alloc_free_range finds a node.
node_free == MapThenSumSet(LAMBDA s : Len(mem[s].free), Slots) < nodes

-----------------------------------------------------------------------------
(* The pool.  Each operator maps a slot of MEMORIES to its next value.     *)

FirstFit(m, len) == SelectInSeq(m.free, LAMBDA n : n.len >= len)

\* A root also draws on its free list; a derived region names its own range.
pool_can_serve(s, len) ==
  \/ mem[s].len >= len
  \/ mem[s].root = s /\ FirstFit(mem[s], len) # 0

\* First fit off the free list, the front of the cursor's range otherwise.
CutBase(m, k) == IF k = 0 THEN m.base ELSE m.free[k].base

CutFrom(m, k, len) ==
  IF k = 0 THEN [m EXCEPT !.base = @ + len, !.len = @ - len]
  ELSE LET n == m.free[k]
       IN [m EXCEPT !.free =
             IF n.len = len THEN RemoveAt(@, k)
             ELSE [@ EXCEPT ![k] = [base |-> n.base + len, len |-> n.len - len]]]

\* The first node above an address; 0 when all are below it.
NextNode(free, base) == SelectInSeq(free, LAMBDA f : f.base > base)

\* Mutant: a range joins only the neighbour below it.
pool_insert_range_below(m, n, room) ==
  LET next  == NextNode(m.free, n.base)
      at    == IF next = 0 THEN Len(m.free) ELSE next - 1
      below == at > 0 /\ Top(m.free[at]) = n.base
  IN IF below THEN [m EXCEPT !.free[at].len = @ + n.len]
     ELSE IF room THEN [m EXCEPT !.free = InsertAt(@, at + 1, [base |-> n.base, len |-> n.len])]
     ELSE [m EXCEPT !.dropped = @ + n.len]

\* The insert is the coalesce: the range joins the neighbour it touches below,
\* above, or both; alone it needs a node, and without one its bytes are lost.
pool_insert_range(m, n, room) ==
  LET next  == NextNode(m.free, n.base)
      at    == IF next = 0 THEN Len(m.free) ELSE next - 1
      below == at > 0 /\ Top(m.free[at]) = n.base
      above == next # 0 /\ Top(n) = m.free[next].base
      lo    == IF below THEN m.free[at].base ELSE n.base
      hi    == IF above THEN Top(m.free[next]) ELSE Top(n)
      left  == SubSeq(m.free, 1, IF below THEN at - 1 ELSE at)
      right == SubSeq(m.free, IF above THEN at + 2 ELSE at + 1, Len(m.free))
  IN IF below \/ above \/ room
     THEN [m EXCEPT !.free = left \o <<[base |-> lo, len |-> hi - lo]>> \o right]
     ELSE [m EXCEPT !.dropped = @ + n.len]

\* The last node folds back into the cursor when it touches it.
pool_fold_frontier(m) ==
  IF m.free # <<>> /\ Top(Last(m.free)) = m.base
  THEN [m EXCEPT !.base = Last(m.free).base,
                 !.len  = @ + Last(m.free).len,
                 !.free = Front(m.free)]
  ELSE m

\* Mutant: a return that does not touch the ledger.
pool_return_unbooked(m, n, room) ==
  IF n.len = 0 THEN m ELSE pool_fold_frontier(pool_insert_range(m, n, room))

pool_return(m, n, room) ==
  IF n.len = 0 THEN m
  ELSE pool_fold_frontier(
         pool_insert_range([m EXCEPT !.out_bytes = @ - n.len], n, room))

-----------------------------------------------------------------------------
(* The steps.                                                              *)

Init ==
  /\ mem = [s \in Slots |->
              IF s \in Roots THEN Region(Boot[s].base, Boot[s].len, s) ELSE Gone]
  /\ nodes = MaxFreeRanges
  /\ donated = {}
  /\ release = 0
  /\ scan = 0
  /\ doomed = NoRows

\* No syscall and no teardown is under way.
Resting == release = 0 /\ scan = 0

\* Memory Split: the child is cut once its slot and handle are certain, and
\* carries the root down.
Split(s, len) ==
  LET new == alloc_memory
      k   == IF mem[s].root = s THEN FirstFit(mem[s], len) ELSE 0
  IN /\ Resting
     /\ mem[s].refs > 0
     /\ len > 0
     /\ pool_can_serve(s, len)
     /\ new # 0
     /\ mem' = [mem EXCEPT
          ![s]   = [CutFrom(mem[s], k, len) EXCEPT
                      !.out_bytes = IF mem[s].root = s THEN @ + len ELSE @],
          ![new] = Region(CutBase(mem[s], k), len, mem[s].root)]
     /\ UNCHANGED <<nodes, donated, release, scan, doomed>>

\* Another handle of the region: mint_sibling, or one moved through a pipe.
ref_object(s) ==
  /\ Resting
  /\ mem[s].refs \in 1..MaxRefs - 1
  /\ mem' = [mem EXCEPT ![s].refs = @ + 1]
  /\ UNCHANGED <<nodes, donated, release, scan, doomed>>

\* A handle goes; free_object is reached when it was the last.
unref_object(s) ==
  /\ Resting
  /\ mem[s].refs > 0
  /\ mem' = [mem EXCEPT ![s].refs = @ - 1]
  /\ release' = IF mem[s].refs = 1 THEN s ELSE 0
  /\ UNCHANGED <<nodes, donated, scan, doomed>>

\* A grant row that names the region (Map).
ref_region_row(s) ==
  /\ Resting
  /\ mem[s].refs > 0
  /\ mem[s].len > 0
  /\ mem[s].maps < MaxMaps
  /\ mem' = [mem EXCEPT ![s].maps = @ + 1]
  /\ UNCHANGED <<nodes, donated, release, scan, doomed>>

\* Mutant: the last row goes without asking whether the region is idle.
unref_region_row_silent(s) ==
  /\ mem[s].maps > 0
  /\ mem' = [mem EXCEPT ![s].maps = @ - 1]
  /\ UNCHANGED <<nodes, donated, release>>

\* A grant row goes (Unmap, or clear_domain).
unref_region_row(s) ==
  /\ mem[s].maps > 0
  /\ mem' = [mem EXCEPT ![s].maps = @ - 1]
  /\ release' = s
  /\ UNCHANGED <<nodes, donated>>

Unmap(s) == Resting /\ unref_region_row(s) /\ UNCHANGED <<scan, doomed>>

\* Mutant: a root is given back under its loans.
idle_lent(s) == mem[s].live /\ mem[s].refs = 0 /\ mem[s].maps = 0

\* The second zero; a root has a third.
idle(s) ==
  /\ mem[s].live
  /\ mem[s].refs = 0
  /\ mem[s].maps = 0
  /\ mem[s].root = s => mem[s].out_bytes = 0

\* A root's nodes go back to their slab with it; a derived region's range goes
\* back to the root, which is looked at next.
memory_release_if_idle ==
  LET s == release
      r == mem[s].root
  IN /\ release # 0
     /\ IF ~idle(s)
        THEN mem' = mem /\ release' = 0
        ELSE IF r = s
        THEN mem' = [mem EXCEPT ![s] = Gone] /\ release' = 0
        ELSE /\ mem' = [mem EXCEPT ![r] = pool_return(@, mem[s], node_free), ![s] = Gone]
             /\ release' = r
     /\ UNCHANGED <<nodes, donated, scan, doomed>>

\* The sole handle of an unmapped region with nothing on loan is consumed and
\* its bytes become slots of a slab, FREE_RANGES or another; they never return.
slab_donate(s) ==
  /\ Resting
  /\ mem[s].refs = 1
  /\ mem[s].maps = 0
  /\ mem[s].root = s => mem[s].out_bytes = 0
  /\ mem[s].len > 0
  /\ Cardinality(donated) + mem[s].len <= MaxDonated
  /\ nodes' \in {nodes} \cup (nodes + 1 .. MaxNodes)
  /\ mem' = [mem EXCEPT ![s] = Gone]
  /\ donated' = donated \cup Cells(mem[s])
  /\ UNCHANGED <<release, scan, doomed>>

\* A process ends with some of the handles and some of the rows.  Its handles
\* are dropped without freeing anything, what nothing names is reaped in slot
\* order, and its grant record is cleared last.
end_process(handles, rows) ==
  /\ Mortal
  /\ Resting
  /\ mem' = [s \in Slots |-> [mem[s] EXCEPT !.refs = @ - handles[s]]]
  /\ scan' = 1
  /\ doomed' = rows
  /\ UNCHANGED <<nodes, donated, release>>

reap_unreferenced ==
  LET left == {s \in scan..NSlots : mem[s].live /\ mem[s].refs = 0}
      s    == IF left = {} THEN 0 ELSE Min(left)
  IN /\ release = 0
     /\ scan \in Slots
     /\ release' = s
     /\ scan' = IF left = {} THEN NSlots + 1 ELSE s + 1
     /\ UNCHANGED <<mem, nodes, donated, doomed>>

clear_domain(s) ==
  /\ release = 0
  /\ scan = NSlots + 1
  /\ doomed[s] > 0
  /\ unref_region_row(s)
  /\ doomed' = [doomed EXCEPT ![s] = @ - 1]
  /\ UNCHANGED scan

process_ended ==
  /\ release = 0
  /\ scan = NSlots + 1
  /\ doomed = NoRows
  /\ scan' = 0
  /\ UNCHANGED <<mem, nodes, donated, release, doomed>>

\* What a process may hold of counts: any part of them, none of what is none.
Part(count, bound) ==
  LET some == {s \in Slots : count[s] # 0}
  IN {[s \in Slots |-> IF s \in some THEN f[s] ELSE 0] :
        f \in {g \in [some -> 0..bound] : \A s \in some : g[s] <= count[s]}}

Operate ==
  \/ \E s \in Slots :
       \/ \E len \in 1..Grains : Split(s, len)
       \/ ref_object(s) \/ unref_object(s) \/ ref_region_row(s) \/ Unmap(s)
       \/ slab_donate(s) \/ clear_domain(s)
  \/ memory_release_if_idle \/ reap_unreferenced \/ process_ended

ProcessEnds ==
  \E handles \in Part([s \in Slots |-> mem[s].refs], MaxRefs),
     rows \in Part([s \in Slots |-> mem[s].maps], MaxMaps) : end_process(handles, rows)

Next == Operate \/ ProcessEnds

Spec == Init /\ [][Next]_vars

-----------------------------------------------------------------------------
(* Properties.                                                             *)

Node == [base : Nat, len : Nat \ {0}]

\* Every slot of MEMORIES is well formed; only a root keeps a free list and a
\* ledger, and a Free slot is blank (memory_release_if_idle resets every field).
TypeOK ==
  /\ mem \in [Slots -> [live : BOOLEAN, base : Nat, len : Nat, refs : Nat, maps : Nat,
                        root : 0..NSlots, free : Seq(Node), out_bytes : Nat, dropped : Nat]]
  /\ \A s \in Slots :
       /\ mem[s].live => mem[s].root # 0
       /\ ~mem[s].live => mem[s] = Gone
       /\ Derived(s) => mem[s].free = <<>> /\ mem[s].out_bytes = 0 /\ mem[s].dropped = 0
  /\ nodes \in Nat
  /\ donated \subseteq AllCells
  /\ release \in 0..NSlots
  /\ scan \in 0..NSlots + 1
  /\ doomed \in [Slots -> Nat]

\* The grains a root can hand out: its cursor's range and its free nodes.
NodeCells(r) == UNION {Cells(mem[r].free[k]) : k \in DOMAIN mem[r].free}
AtHome(r)    == Cells(mem[r]) \cup NodeCells(r)

Holdings ==
  {<<s, 0, Cells(mem[s])>> : s \in {q \in Slots : mem[q].live}}
    \cup (UNION {{<<s, k, Cells(mem[s].free[k])>> : k \in DOMAIN mem[s].free} : s \in Slots})
    \cup {<<0, 0, donated>>}

\* No grain is in two places: two regions, a region and what its pool can hand
\* out, or a pool and a slab extent (pool_cut, pool_return, slab_donate).
OneOwner ==
  /\ \A a, b \in Holdings : a # b => a[3] \cap b[3] = {}
  /\ \A s \in Slots : mem[s].live => Cells(mem[s]) \subseteq Cells(Boot[mem[s].root])

\* The grains a pool has on loan: those of the regions cut from it, however often
\* they were cut again, and those that became slab extents.
Lent(r) ==
  (UNION {Cells(mem[s]) : s \in {q \in Slots : Derived(q) /\ mem[q].root = r}})
    \cup (donated \cap Cells(Boot[r]))

\* The ledger of a pool balances: what is home, on loan and lost is what it was
\* born with, and the loan is the grains of the regions and extents cut from it.
Balanced ==
  \A r \in Slots : IsRoot(r) =>
    /\ Boot[r].len = Cardinality(AtHome(r)) + mem[r].out_bytes + mem[r].dropped
    /\ mem[r].out_bytes = Cardinality(Lent(r))

\* A grain has one owner and the books of its pool say so (pool_cut, pool_return,
\* memory_release_if_idle, slab_donate).
PoolInv == TypeOK /\ OneOwner /\ Balanced

\* "What lets a fully-freed pool return to its boot state": with nothing on loan
\* and nothing lost the free list is empty and the cursor is where boot put it.
WholeAgain ==
  \A r \in Slots : IsRoot(r) /\ mem[r].out_bytes = 0 /\ mem[r].dropped = 0 =>
    mem[r].free = <<>> /\ mem[r].base = Boot[r].base /\ mem[r].len = Boot[r].len

\* Split's refusal is true fragmentation: a root serves every length it holds
\* in one run of grains, whatever order they came home in.
ServesEveryRun ==
  \A r \in Slots : IsRoot(r) =>
    \A lo, hi \in AtHome(r) : lo..hi \subseteq AtHome(r) =>
      (hi >= lo => pool_can_serve(r, hi - lo + 1))

\* Whatever order its loans come home in, a pool is put together again
\* (pool_insert_range, pool_fold_frontier).
Coalesced == WholeAgain /\ ServesEveryRun

\* Between syscalls and teardowns no region is left behind that nothing names.
NoStranded == Resting => \A s \in Slots : ~idle(s)

\* The fatal_kernel arms of pool_return and unref_region_row are unreachable: a
\* region with bytes has its pool, the pool lent them, and the row of a dying
\* process still holds its region when clear_domain comes to it.
NoFatal ==
  /\ \A s \in Slots : Derived(s) /\ mem[s].len > 0 =>
       IsRoot(mem[s].root) /\ mem[s].len <= mem[mem[s].root].out_bytes
  /\ \A s \in Slots : doomed[s] <= mem[s].maps

\* A region goes back when its last name goes: not later, when nothing would ever
\* return it, and not sooner, when the kernel would stop at a name still in use
\* (memory_release_if_idle, release_memory_slot).
ReleasedInTime == NoStranded /\ NoFatal

\* Where a grain is, for the contract: the slot of its region, or one of these.
InPool == 0
InSlab == -1
Lost   == -2

Place(c) ==
  CASE c \in donated                                       -> InSlab
    [] \E s \in Slots : Derived(s) /\ c \in Cells(mem[s])  -> CHOOSE s \in Slots :
                                                    Derived(s) /\ c \in Cells(mem[s])
    [] \E r \in Slots : IsRoot(r) /\ c \in AtHome(r)       -> InPool
    [] OTHER                                               -> Lost

Contract == INSTANCE PoolContract WITH
  Grain <- AllCells, Holder <- Slots, Pool <- {Cells(Boot[r]) : r \in Roots},
  Home <- InPool, Kernel <- InSlab, Lost <- Lost, place <- [c \in AllCells |-> Place(c)]

\* The pool implements its contract: a grain moves only from the pool or one
\* holder to a new one, from a holder home (or is lost), or into the kernel.
KeepsPoolContract == Contract!CSpec
=============================================================================
