# SawOS: specification and verification

SawOS is a small capability microkernel written in sawlang (`kernel/core`, about
16,000 lines of which 6,200 are code) for 32-bit RISC-V and arm64 machines,
built and tested by a Python harness (`tools/`, about 7,200 lines). This
directory holds TLA+ models of both, the TLC runs that check them on small
instances, and TLAPS proofs for every instance size.

Contents: [the system](#the-system), [the modules](#the-modules),
[the runs](#the-runs), [the proofs](#the-proofs),
[disagreements](#disagreements-with-the-comments),
[what is not modelled](#what-is-not-modelled), [what is left](#what-is-left).

## The system

**The kernel** is uniprocessor and not preemptible: a syscall runs from trap to
return without another thread in between. What interleaves is therefore
*syscalls*: a thread parks inside one and is finished later by somebody else's,
a process ends between any two of them, and an interrupt is delivered in user
mode, in the idle loop and at a few preemption points (`irq.saw`
`preempt_point`) inside long copies. Nothing is persisted.

| component | state it keeps | operations | talks to | correct when |
|---|---|---|---|---|
| **pipes** (`dispatch.saw` 3211-4345, `objects.saw` 1688-2380, `refs.saw`) | `PIPES` (two reference columns, the queue of staged requests), `EXCHANGES` (state, claim and obligation columns, caller, held handles) | create, post, call, take, resolve, reply, release | handle tables, parked threads | columns exact, every waiter answered once, ring slots recycled, handles in one place |
| **memory pools** (`objects.saw` 808-1384) | `MEMORIES` (range, counts, root, free list, loans, losses), `FREE_RANGES` | split, map, unmap, release, donate | grants, teardown, slabs | no grain with two owners, ledger balanced, everything comes back |
| **threads and scheduler** (`threads.saw`, `sched.saw` 99-264) | `THREADS`, the ready list | create, start, exit, join, yield, pick | tick, waiters | every runnable thread on the list once, and run |
| **waiters, events, interrupts** (`waitables.saw`, `refs.saw` 1545-1740, `irq.saw`) | `WAITERS`, attachments, blocked threads, levels | add, remove, wait, signal, receive, bind, ack | scheduler | no level raised with a thread asleep on it |
| **timers and clock** (`time.saw`, `irq.saw` 33-238) | `TIMERS`, next tick, the comparator | arm, disarm, fire | waiters, hardware comparator | no period lost or counted twice, every deadline served in time |
| **process life** (`process.saw`, `pslot.saw`, `sched.saw` 303-760) | `PROCESSES`, grant rows, `MAPPINGS`, `IOMEMORIES`, quota ledgers, attachments on processes | create, give, start, map, unmap, watch, exit, reclaim | teardown, every slab | counts exact, positions agree, a slot reused only when nothing names it |

**The harness** is concurrent: worker threads build packages and boot cases,
typist threads write to guests, several harnesses share one toolchain cache, and
everything it starts can die or hang.

| component | state it keeps | operations | correct when |
|---|---|---|---|
| **toolchain resolver** (`toolchain.py`) | environment, pin, the cache and its staging directory | name, search the PATH, fetch, refuse | the compiler is the one the rules name; a killed fetch leaves nothing that looks whole, and never wedges the cache |
| **suite runner** (`sos_runner.py` `main`, `_run_arch`, `_map_ordered`) | the plan, worker pool, build directories, report, counts | plan, build, run, report | the console of a serial run, and a true exit status |
| **QEMU driver** (`_run_qemu`) | descriptors, typist threads, guests | boot, type, time out, kill | a descriptor number is used only by its owner; everything returns |
| **transcript verdict** (`_check`) | the console | strip, search, judge | the verdict is the transcript's, not the interleaving's |
| **region tables** (`_region_rows`, `_stitch_regions`, `process.saw` `mint_boot_regions`, `sosimg_dump.py`) | rows, the section's bytes, capabilities | emit, link, mint, dump | root's capabilities are what the case asked for |
| **case table** (`TEST_CASES`, profiles) | one record per case | | every case boots and is judged as meant |
| **ESP32-C3 smoke** (`--board esp32c3`) | the emulator, its output | poll, drain, kill, judge | ends, with a true verdict and no emulator left |
| **seam check** (`_check_arch_free`) | the scan | find, forgive, report | reports every leak |

**What is hard.** In the kernel, a waiting thread is finished by code running on
behalf of someone else, along one of several paths, each of which must drop
exactly the references the thread held. Frees cascade. Teardown deliberately
drops references *without* freeing and reaps later, so every count passes
through states no ordinary call produces. Slots are recycled while other tables
still hold their numbers. In the harness, a descriptor number, a build directory
and a cache directory are shared by threads and processes that do not know of
each other. `PROJECT.json` lists these hazards line by line with the properties
that cover them.

## The modules

| module | what it is | composed with |
|---|---|---|
| `Pipe`, `CallContract` | one connection with its processes; what it promises to a waiting thread | `KeepsContract`: `Pipe` implements `CallContract` |
| `MemoryPool`, `PoolContract` | pools, regions, free lists, donation; what they promise of one grain | `KeepsPoolContract`: refinement |
| `Sched` | threads, ready queue, waiters, events, timers, interrupts, idle, preemption points | |
| `Clock` | deadlines, missed periods, the shared comparator, the tick | |
| `ProcessLife` | slots, handles onto processes and device windows, mappings, quotas, teardown | |
| `Toolchain` | several resolvers over one cache | |
| `SuitePlan`, `SerialSuite`, `Suite` | what a command line asks for; the serial harness; the parallel one | each extends the one before; `ParallelIsSerial`: `Suite` implements `SerialSuite` |
| `QemuRun`, `Transcript`, `C3Smoke`, `SeamScan` | the stages of a boot and of a run | `MCHarness` instantiates them; `MCSeam` extends `SeamScan` |
| `RegionTable`, `CaseTable`, `CaseBoot` | the table pipeline end to end; the 80 or so cases; the cases taken through the pipeline | `CaseBoot` extends both |
| `PipeProofs`, `MemoryPoolProofs`, `SchedProofs`, `ClockProofs`, `ProcessLifeProofs`, `ToolchainProofs`, `SuiteProofs`, `QemuProofs` | theorems | extend the module they are about |
| `MC...` | instances for TLC | |

One action is one syscall or handler with every call it makes. Where the code
loops and something observable happens per turn, the loop is cut into steps.

### Pipe

| TLA+ | code |
|---|---|
| `table[p][h]` | `PROCESSES[p].handles[h]`: kind and target; rights and generation left out |
| `live`, `inlet_refs`, `outlet_refs`, `staged` | `PIPES[c]`; the queue is the `staged` head and the `next` links |
| `state`, `reply_refs`, `request_refs`, `caller`, `held` | the fields of `EXCHANGES[x]` |
| `call_pipe`, `call_claim` | the fields of `THREADS[t]` that say what it is parked on |
| `call_args` | the handles named by the send record of a call parked for room |
| `answered` | the status the last step wrote into the frame of a thread it woke |
| `serving`, `gone`, `dying` | `notify_room` has another turn to do; processes Gone; the one being torn down |

One turn of `notify_room` (`resume_call_room`), and one thread or one handle of
a teardown (`release_pending_calls`, `close_all`, `reap_unreferenced`) are steps
during which nothing else is enabled. The order of the code is kept: lowest free
exchange, lowest unbound entry, lowest parked thread slot. `drop_last_outlet`
states the result of three walks of the code (`pipe_drop_staged`,
`notify_room`, `notify_claims`) at once.

Abstractions: one connection (`move_entry` stands for every way a handle reaches
another process without it); other objects are opaque handles (`Caps`); a
syscall that faults before any store is the end of its process, a refusal before
any store is a stuttering step; a handle word whose entry was unbound does not
resolve again, so `Forget` takes a handle that leaves a process out of its
pending records; no level goes to a Waiter.

### MemoryPool

`mem[s]` is `MEMORIES[s]` (`free` is the list from `free_head`), `nodes` the
capacity of `FREE_RANGES`, `donated` a history of the grains that became slab
extents, `release` the slot `memory_release_if_idle` is about to look at (it
calls itself for the root last of all), `scan` and `doomed` the progress of a
teardown. Addresses count protection grains. A region's handles and rows are
counted, not attributed; `end_process` takes any of them away in the code's two
passes. `Balanced` compares the two counters the code keeps (`out_bytes`,
`dropped`) with the grains themselves: those the pool can hand out (`AtHome`) and
those on loan (`Lent`).

### Sched

`state`, `code`, `joiners`, `ready`, `cur`, `resched`, `slice` are the thread
table and the scheduler's globals; `level[x]` is whether waitable x is ready
(an Event's word, a Timer's count, an Interrupt's pending flag); `att` and
`attached` are the back pointer and the Waiter's list of the same attachment,
`blocked` the threads parked on a Waiter. `wrote` holds the results the last
step wrote for callers of Join and Wait, `told` is a history of the interrupt
lines whose present fire somebody was told of. `pc` says where the machine is:
user mode, the user-return boundary (`pick_next`), a long operation, the expiry
loop (cut timer by timer, because it has a wake in every turn), the idle loop,
or the end. Time is left out: an armed Timer may come due at any moment.

### Clock

Time is a number up to `Never` (UInt64.max scaled down); `since` and `called` are
histories (a Timer's deadline when its count was last zero; the clock at the
last call that changed the schedule). `prompt` never
changes: where it is FALSE the clock runs past the comparator by any amount,
because interrupts are masked in the kernel; where it is TRUE an interrupt is
taken as soon as its line is raised, which is where promises about lateness can
be measured. `Interrupt` is `on_timer_interrupt`
whole: tick, expiry of every due Timer, reprogramming.

### ProcessLife

`held` is how many entries of a table name an object, `refs` the object's
column, `att` who watches a process, `rows` a grant record (with, as history,
which Mapping installed each row), `maps` and `io` the Mapping and IoMemory
slabs, `used` two rows of the quota ledger, `lost` the processes whose only
thread was left Running by an Exit called on another process. A teardown is one
step (`end_process` runs with interrupts masked) and follows the order of the
code: attachments, handles, windows, mappings, rows, ledger, slot.

### Toolchain

The steps of `resolve()` before the fetch read only what a process started
with, so each is one action; `_fetch` is one action per command, because a
process can be killed between two of them and another can run its own in
between. A cache directory is the set of what commands have put in it; git,
python and pip are external. `overlap` is a history: two processes have been
inside `_fetch` at once.

### Suite

A unit of work is the build of a package or the build and boot of a case. A
file's content is who made it, so that a case that boots another's image is
visible (`art`, `image`). `fate` says what the tree and the host do. The
consumer awaits units in order and leaves the pool early when a package fails;
`closing` is the pool's shutdown. `SerialSuite` is the same program with each
unit done in one step by the thread that prints. `CountsAddUp` compares the two
counters of the report with the rows of the plan (`RowsOf`).

### The stages of a boot

`QemuRun`: workers, typists and guests over one descriptor table, lowest free
number first. A `Popen` that raises is an action of its own: the quiet case
closes its pipe in its `finally`, the case with input leaves both ends open
(`sos_runner.py:5902`), which `NoFdLeak` and `EverythingReturns` except.
`Transcript`: the guest's kernel and process write to one console;
`StripKernelDiagnostics` and the greedy cursor are compared with reference
definitions. `C3Smoke`: time is counted in polls; the halt marker is two pieces
so that a read can end inside it. `SeamScan`: one turn of the while loop is a
step; what a leak is (`Leaks`) is stated with words, as the comments do, and not
with the code's test for an embedding. `RegionTable`: words are four 16-bit limbs and a section the sequence of
its 16-bit units, so both profiles' encodings, the kernel's decoding by offset
and the dump tool's are checked against each other; the linker is external.
`CaseTable` is the table itself, with the fields that decide anything.

## The runs

Each finishes in under five minutes with two workers. A property in front of a
parenthesis is the conjunction of the named parts inside it.

| run | instance | shows |
|---|---|---|
| `pipe_death` | 3 client threads, 1 server, ring of 2, tables of 2, one transferable handle, either process dies at any moment | `TypeOK`, `RefsExact`, `NoDangling`, `CallerTie`, `NoLostWakeup`, `StagedQueue`, `NothingLeftBehind` (`NoLeak`, `RoomWhileAlive`), `KeepsContract`: refinement of `CallContract` |
| `pipe_service` | 3 clients, ring of 2, tables of 3, one transferable handle, a client with one or two inlets, a server that works, either process may die | `CapsInOnePlace`, `ServiceRuns` (`CallReturns`, `KernelReturns`) |
| `pipe_lost_room` | 2 clients, ring of 1, deaths | violation of `RoomWaitersFull` |
| `pool` | pools of 4 and 1 grains side by side, 1 node (a donation adds a second): the larger cut into up to 4 regions that come home in any order; both cut and donated; or the larger with shared handles and rows and deaths | `PoolInv` (`TypeOK`, `OneOwner`, `Balanced`), `Coalesced` (`WholeAgain`, `ServesEveryRun`), `ReleasedInTime` (`NoStranded`, `NoFatal`), `KeepsPoolContract`: refinement of `PoolContract` |
| `sched` | 3 threads and a Timer; or 2 threads with an Event and two exit codes, with a line and a Timer, or with two Timers | `TypeOK`, `ListsAgree` (`OneList`, `AttachmentsAgree`, `NoStrandedJoin`), `NoLostWakeup`, `WokenWithTheAnswer`, `RunnableRuns`, `SleepEnds` |
| `clock` | 2 Timers and the tick, the end of time two tick periods past the bound on the clock, counts up to 3, interrupts taken at once or late by any amount | `TypeOK`, `FiresExact`, `LateByTheLead` |
| `clock_tick` | the same | violation of `TickIsInviolate` |
| `life` | 3 slots, 2 windows, 2 mappings, quotas at their limits | `RefsExact`, `NoStaleName`, `LedgersAgree` (`TypeOK`, `RowsAgree`, `RowLedger`, `NeverOvercharged`) |
| `toolchain` | every environment with every pin; two processes that both fetch, one kill and one failing command | `ProvenanceOK`, `FetchIsSound` (`TypeOK`, `PublishedIsWhole`, `FetchedIsUsable`, `NoTraceback`), `CacheServes` (`PublishedStays`, `FetchSucceeds`) |
| `suite` | 4 cases on the 2 profiles that share a target triple, 9 command lines, 40 or so fates, 2 or 3 workers | `ReportIsTruth` (`TypeOK`, `VerdictIsTruth`, `CountsAddUp`), `OwnWork` (`BootsItsOwn`, `NoStragglers`), `ParallelIsSerial`, `Terminates` |
| `harness` | each stage on its own instance; every case of the table on every profile, and made-up cases up to the walls | `ConsoleIsItsOwn` and `EveryStageEnds` (`QemuRun`, `C3Smoke`), `SmokeIsTruth` (`C3Smoke`), `TranscriptIsJudged` (`Transcript`), `ReportsEveryWord` (`SeamScan`), `RegionsAsPublished` (`RegionTable`), `TableIsSound` (`CaseBoot`) |
| `seam_prose` | every line of up to 5 letters and blanks, a token between blanks and one of letters | violation of `LeaksAreReported` |

In `sched`, `life`, `pool` and `harness` a behaviour is about one side
of the instance, chosen in the initial state (`focus`, `stage`), so that each
side can be as large as it needs to be. In `sched` a focus refuses calls of
threads only, never a step its fairness is about; in `pool` it bounds what the
operations between two teardowns may build, never a step of one.

**Bounds.** Two exchanges and three client threads are the least at which a
thread is parked for room while others are parked on a staged and on a taken
request. Tables of two or three entries are full often enough to reach the
refused mints; in `pipe_service` a client with two inlets and an open claim has
no room for the handle of an answer, and its caller is woken all the same. Four
grains, four derived regions and a node slab of one that a
donation takes to two are the least at which a hole in the middle, a join on
both sides and a return without a node all happen. Counts of two separate "the
last one" from "one of them". Three threads are the least at which a queue's
order can starve somebody. Three process slots are the least for a supervisor, a
supervised process and a third that outlives both. The clock's delays include
zero, one within the tick period and one that saturates. A line of four
characters holds two overlapping copies of a token and a letter on each side,
one of five a token between blanks between two words. Two processes in `_fetch` show every
pairwise overlap of its commands.
`CHECK_DEADLOCK FALSE` is said for the pipes and pools (a system whose processes
have ended, or whose threads are all parked, may stop) and for the harness
stages, which end.

**Fairness.** Kernel steps (`Pipe`, `Sched`) are weakly fair: they continue a
handler that runs to completion. In `Sched` the tick and an armed Timer's
deadline are level interrupts of the comparator, so they are taken in the end
although the kernel masks them again and again: strong fairness, but only of
behaviours in which timer calls (`timer_arm`, `timer_disarm`) come to an end,
because each of them may put the line off by the lead again (`clock_tick`).
`RunnableRuns` has the same condition: a thread that goes on arming a Timer
within the lead starves the others. `SleepEnds` needs none, since nobody calls
while the machine idles. A long operation has a fixed number of pages: strong
fairness of its end. `ServiceSpec`
of `MCPipe` also assumes a server that keeps taking and answering and a client
thread that collects its claims, a statement about user programs; with three
calling threads the highest slot can be overtaken for ever, which `waitables.saw`
846-851 documents as accepted. In the harness the operating system runs every
thread and every command ends (a boot by the hard timeout); an operator whose
fetch failed runs the harness again (`Toolchain`, strong fairness of `Start`).
Guests have no fairness, except that a smoke's guest that is due to write does.

## The proofs

For any number of processes, threads, slots, handles, Waiters, waitables,
Timers, windows, pools, grains, cases and workers, from the named `ASSUME`s on
the constants alone (`ConstantsOK`, `BootOK`, `SchedAssumption`,
`ClockAssumption`, `LifeAssumption`, `BoundsAssumption`, `SetupsAssumption`,
`TablesAssumption`, `FatesAssumption`, `PlanAssumption`, which TLC evaluates in
the runs). They say what the limits of the code say (`ImageRows + QuotaMaps <=
RowBudget` is the `static_assert` of `limits.saw`; the pools of `BootOK` are the
disjoint ranges of the boot table) and that a model value is none of the values
it stands apart from. `PlanAssumption` is of another kind: it says, with sets,
what the list operators of `SuitePlan` return for the tables (a plan has the
cases that were asked for and no others, each case and each package of a profile
once). That is a fact about filters and concatenations of lists, which takes an
induction over data; TLC evaluates it for every command line of the instance,
and the theorems about `Suite` hold for the tables for which it does.
`ConsoleSafe` has its only assumption, that an input has a
length, in its statement (`FeedAssumption`; `MCHarness` assumes it of its
instance).

| module | theorem | states |
|---|---|---|
| `PipeProofs` | `TypeCorrect` | `Spec => []TypeOK` |
| | `RefsAreExact`, `CallersTied`, `NoWakeupLost`, `QueueIsStaged`, `NothingDangles` | `RefsExact`, `CallerTie`, `NoLostWakeup`, `StagedQueue`, `NoDangling` |
| | `NothingIsLeft`, `CapsStayInOnePlace` | `NothingLeftBehind`, `CapsInOnePlace` |
| | `ContractKept` | `Spec => KeepsContract`: the refinement of `CallContract` |
| `MemoryPoolProofs` | `PoolSafe`, `PoolCoalesced`, `ReleaseSafe` | `PoolInv`, `Coalesced`, `ReleasedInTime` |
| | `PoolImplementsContract` | `Spec => KeepsPoolContract`: the refinement of `PoolContract` |
| `SchedProofs` | `TypeCorrect`, `WakeupsAreNotLost`, `ListsAlwaysAgree` | `TypeOK`, `NoLostWakeup`, `ListsAgree` |
| | `WakesAnswer` | the action property `WokenWithTheAnswer` |
| `ClockProofs` | `TypeCorrect`, `DeadlinesKept`, `CountsAreExact` | `TypeOK`, `LateByTheLead`, `FiresExact` |
| `ProcessLifeProofs` | `RefsStayExact`, `NamesNeverStale`, `LedgersAlwaysAgree` | `RefsExact`, `NoStaleName`, `LedgersAgree` |
| `ToolchainProofs` | `FetchSafe`, `ProvenanceSafe` | `FetchIsSound`, `ProvenanceOK` |
| | `CheckoutStays` | the action property `PublishedStays` |
| `SuiteProofs` | `WorkersKeepApart`, `ReportHolds` | `OwnWork`, `ReportIsTruth` |
| | `ParallelImplementsSerial` | `Spec => ParallelIsSerial`: the refinement of `SerialSuite` |
| `QemuProofs` | `ConsoleSafe` | `ConsoleIsItsOwn` |

**Pipe.** None of the five invariants after `TypeOK` is inductive. The
inductive one is
`IInv == TypeOK /\ RefInv /\ LifeInv /\ RoomInv /\ CallerTie /\ NoLostWakeup /\
StagedQueue`. `RefInv` ties each column to its holders: for the endpoints it is
the count, for a claim and an obligation it says that at most one entry, or one
parked thread instead, names it, and that the column is zero exactly when nobody
does; that value decides whether an exchange settles. `LifeInv` says what the
columns imply about the state, which the cascade of the last outlet needs.
`RoomInv` says that a thread parked for room has an outlet, no claim and a
living process; without it a turn of `notify_room` could stage a request on a
closed pipe. `CallerTie`, `NoLostWakeup` and `StagedQueue` support each other.

**Pipe, what is left and what is promised.** `NothingLeftBehind` needs `LeftInv`
beside `IInv`: the process being torn down is one of the dead, outside a
teardown nothing is pinned by a process that is gone, and while all live a
caller parked for room faces a full ring unless the turn of `notify_room` is
still to come (the lowest free slot is taken, so a slot is left only if there is
none: `LowestExists`). `ContractKept` maps the phase of a thread (calling,
waiting, answered) to `CallContract` and shows, action by action from `IInv` and
`LeftInv`, that each step is one of the contract's or a stutter; the hard case
is the loss of the last outlet, which in one step must answer every thread not
yet served. `CapsInOnePlace` counts and is not inductive; `CapInv` says for each
pair of places that a handle is not in both, that only an untaken request or an
uncollected reply carries handles, and that a send record waiting for room names
handles its process still has.

**MemoryPool.** The inductive invariant is `MemoryIInv == Geometry /\ CtlType /\
Attended /\ DoomedOK`. `Geometry` is where the grains are. A pool's free list is
in address order with a gap of at least a grain between two nodes and between
the last node and the cursor (`RootsOK`); without the gaps a run of free grains
could lie in two nodes, and neither `WholeAgain` nor `ServesEveryRun` would
follow, with them a run lies in one node or behind the cursor. Every region lies
in the range its pool was born with, and a region that has grains keeps its root
alive (`Tied`); regions, pools and slab extents are apart (`Apart`). `Balanced`
keeps the counters equal to cardinalities of these sets; that a pool with grains
on loan has `out_bytes > 0` is what stops its root from being released, so
`Tied` and `Balanced` need each other. `Attended` says that a region nothing
names is the one `memory_release_if_idle` is about to look at or lies ahead of
the teardown's scan, and `DoomedOK` that the rows a teardown will take away are
still counted; `ReleasedInTime` follows from the two. The list work is done once:
what a cut takes out of a record (`CutDone`), and what a return makes of it for
each of the ways the range can touch a node below, a node above and the cursor,
and for the return that finds no node. Free lists are described by their
positions, so no induction over a list is needed. `PoolImplementsContract` uses
`PlaceOK`, which says where the refinement mapping puts a grain, and shows of
each action that it moves the grains it should to one place and no other.

**Suite.** The inductive invariant is `IInv == SerialInv /\ WorkInv`. `SerialInv`
is about the thread that prints: where it is (`WhereOK`), that its counts are
the rows before it (`Counted`), what has been found in order to get here
(`PassedSoFar`), and that no failure yet means everything so far is good
(`Judged`). `WorkInv` is about the pool: who may be in it (`UnitsOK`), that a
finished unit's result is what the tree deserves whatever ran beside it
(`ResultsOK`), and that the files and images it will read are those it or its
own profile wrote (`FilesOK`, `ImagesOK`). `ResultsOK` needs `FilesOK`, because a
boot judges the image it finds; `FilesOK` needs that two units of one profile
write different paths, which is where `PlanAssumption` is used. The refinement is
proved first: from `IInv` a step of a worker is a stutter of `SerialSuite`, and
each step of the thread that prints is one of its steps (`StepIsSerial`), since
the result it takes is the one the serial program would compute there. So
`SerialInv` has to be shown inductive for the serial steps only, and `WorkInv`
for each action of the pool.

**Sched.** `NoLostWakeup` speaks of lines through the history `told`, which
makes it inductive together with `TypeOK`: every way a level rises goes through
`notify_ready` (`NotifyKeepsWakeup`) or `Add` (`AddKeepsWakeup`), a park looks
at every attachment first (`WaitKeepsWakeup`), and the other steps only lower
levels, unlink attachments or empty blocked lists. `ListsAgree` counts positions;
its inductive form `ListInv` says of each list that it has no entry twice and
that its members are exactly the threads whose state says so, of each attachment
that both links exist or neither, and that no thread joins one that has exited.
`WokenWithTheAnswer` follows from `ListInv` step by step: what is popped from a
list was parked on it, so the answer written is the one it waits for.

**Clock.** `LateByTheLead` is about the clock and the deadlines, and is not
inductive; what is says where the comparator stands. The clock of a prompt
machine does not pass it (`Ahead`), and it is within the lead of every deadline
owed, or of the last call (`Covered`). `reprogram_timer` alone gives the lead
from *now* (`Reprogrammed`); that an interrupt does not start the lead of a
deadline anew needs that everything owed after it lies ahead of the clock
(`InterruptServesAll`), for a periodic Timer by the division in `fire`
(`NextDeadlineIsAhead`).
`FiresExact` divides and is not inductive; `Grid`, which says that the distance
of the deadline from `since` is a whole number of intervals and that this number
is the count, is.

**ProcessLife.** The three invariants need each other and two facts more
(`LifeInv` of `ProcessLifeProofs`). A slot is handed on clean because its count
was exact; a count stays exact through a teardown that writes off the Mappings
of the dead process without counting because nobody but the owner ever holds a
Mapping (`MapsLive`); the credit of an unmapped row finds a charge because no
Mapping names a row of the image (`RowsCounted`), which is also why a Map within
its quota finds a row. The counting is done once for a bind, an unbind and a
closed table (`BindCount`, `UnbindCount`, `ClearCount`), once for a reference
dropped whatever it frees (`UnrefKeeps`), and once for the compaction of a
record (`RowRemoved`).

**Toolchain.** `FetchIsSound` is proved with `FetchInv`: as long as no two
fetches have overlapped at most one process is between its first and its last
command, the staging directory is that process's own, and the published name
holds a whole checkout or nothing. `ProvenanceOK` needs that nobody who named a
compiler gets as far as the fetch, and holds with overlaps. `PublishedStays`
needs no invariant about overlaps at all: `os.replace` only fills a name that
holds nothing.

**QemuRun.** A descriptor number is reused as soon as it is closed, so
`ConsoleIsItsOwn` is not inductive. `ConsoleInv` adds where worker and typist
are relative to each other (`InStep`), which thread owns each of the three ends
at each of these places, and how the bytes typed, those in the pipe and those
read add up.

**Only model-checked.** Liveness under fairness (out of the prover's reach):
`ServiceRuns`, the `FetchSucceeds` of `CacheServes`, `Terminates`,
`EveryStageEnds`, `ReportsEveryWord`, `RunnableRuns`, `SleepEnds`. The invariants
of `C3Smoke`, `Transcript`, `RegionTable` and `CaseTable`, and what the list
operators of `SuitePlan` compute. Searches and folds over sequences
(`Transcript`'s cursor, a plan) need induction over data, which the prover cannot
do here, and the table modules are functions of a finite table that TLC evaluates
completely. `SmokeVerdict` of `C3Smoke` compares a guest's console with the one
script of its instance (`Hopeless`), so it is no theorem for every `Smokes`: a
longer console that contains the expected lines passes too.

## Disagreements with the comments

Shown by a run:

- **A caller parked for room is forgotten** (`pipe_lost_room`).
  `reap_unreferenced` settles a dead process's exchanges by `exchange_settle`
  (`refs.saw:912`), so `notify_room` is not called. A thread of another process
  stays parked although there is room and a live outlet. `refs.saw:1907`
  promises "nothing parked can be silently doomed". While both processes live
  the promise holds (`RoomWhileAlive`).
- **The tick can be put off** (`clock_tick`). Every timer call raises the
  comparator to at least the lead from now (`time.saw:427`), also when the tick
  is due before or past due. Calls in a row, each made before the comparator is
  reached, move it past the tick again and again, although "A Timer deadline can
  only ever move the hardware EARLIER than the tick, never later, so the tick's
  cadence is unchanged by any number of Timers" (`time.saw:334-336`; `spec.md`
  3165-3167: "thereby inviolate by construction"). `TickIsInviolate` grants the
  documented lead once, and TLC finds three calls that exceed it. What does hold
  is `LateByTheLead`.
- **A token between blanks is forgiven in prose** (`seam_prose`).
  `_is_english_embedding` (`sos_runner.py:1009-1013`) looks at the characters on
  both sides of the token; `" svc "` (`:986`) brings its blanks along, so in "an
  svc to" it sees the letters of two other words. By the comments a token is
  forgiven when "BURIED IN A LONGER ENGLISH WORD" (`:996`, `:1007-1008`), and the
  check is to "Fail the run if an architecture name appears" (`:5434`). For every
  other token the scan reports exactly the leaks (`ReportsEveryWord`).

Met while modelling; the models have the behaviour, and the properties above are
stated so that they hold with it:

- *An idle loop without a wake source* (`irq.saw:440`). `pick_next` asks for a
  wake source once; when the last one is a one-shot Timer nobody waits for, it
  fires in the loop, wakes nobody, and no deadlock is reported, although "a
  system holding only those is as deadlocked as one holding none"
  (`irq.saw:378`). A Timer somebody waits for does wake the machine
  (`SleepEnds`).
- *The cursor needs a node* (`objects.saw:1170`). A range that touches the
  cursor is first put on the free list, which takes a node, and only then
  folded; with no node left it is lost, although "a cut-and-drop loop ... never
  touches a node at all" (`objects.saw:946-948`). `WholeAgain` counts `dropped`.
- *A root can go before its regions* (`objects.saw:1334`). A region split down to
  nothing counts no bytes on loan, so its root may go, and the back-reference
  names whoever takes the slot next (`objects.saw:885-887`, `1226-1227` say it
  cannot). Harmless: an empty range returns before the root is looked at, which
  is how `NoFatal` is stated.
- *A Gone slot is not reclaimed by a death* (`refs.saw:517`, `process.saw:178`).
  The teardown that drops the last handle onto a Gone process leaves its slot
  Gone for ever; `RefsExact` excepts it.
- *A credit to the next process* (`objects.saw:703`, `sched.saw:699`). A window
  released after its owner's slot was reused credits the new owner; the charge
  is then too low, never too high (`NeverOvercharged`).
- *Process.Exit on another process* (`dispatch.saw:630`, `sched.saw:438`) leaves
  the caller's own thread Running and never resumed.
- *Two fetches at once* (`toolchain.py:329`) share one staging directory; the
  promises of `_fetch` hold as long as none overlapped (`overlap`). The text of
  the refusal (`toolchain.py:435`) says variables are unset that may be set.
- *The suite* ends in a traceback when the toolchain has no checkout
  (`sos_runner.py:6130`), and does not name the excluded cases of a profile it
  gives up (`:6109`).
  `VerdictIsTruth` counts the traceback as red.
- *A raising Popen* (`sos_runner.py:5902`) leaves both ends of a fed case's pipe
  open for the rest of the harness's life; `NoFdLeak` excepts them.
- *thread_preempt* (`sos_runner.py:1434`) says who runs first; its expectations
  pass either order with four crossings (`ThreeCrossingsToPass`).

## What is not modelled

- Waiters attached to pipes, hence the cascade of a freed Waiter over pipe ends
  (`refs.saw:623-666`), `pipe_reply_wait` (`dispatch.saw:4205`), and the passes
  of a teardown over Events, Timers and Interrupts of one process among several:
  each needs `Pipe` and `Sched` in one state space.
- Generations of handle words and their wrap (`objects.saw:582`, documented as
  accepted), rights masks, the ledgers of the other object kinds, the extent
  chain of a slab.
- Sequential or without shared behaviour: the image loader, trap decoding, byte
  movers, statistics, ABI constants, the user library, the language runtime.
  Out of reach: HAL, page tables and assembly.
- In the harness: the wording of messages and the flags of the tools it starts.

## What is left

1. Proofs: `SmokeIsTruth`, with `Hopeless` restated for any console.
2. `Ipc`: `Pipe` with Waiters attached to its four kinds of end, then
   `pipe_reply_wait` and the attachment sweep of a teardown.
3. `Handles`: generations with a small modulus, rights that only shrink.
