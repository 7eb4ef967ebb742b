------------------------------ MODULE ProcessLife ------------------------------
(***************************************************************************)
(* The life of a process slot: creation, handles onto processes and device *)
(* windows moving between tables, mappings installed as rows of another    *)
(* process's grant record, supervisors attached to a process, the quota    *)
(* ledger, the teardown, and the reuse of the slot by the next process.    *)
(*                                                                         *)
(* A system call runs to completion with interrupts masked, the teardown   *)
(* included, so each is one step.  A process has one thread here; rights   *)
(* are those process_rights, iomemory_rights and mapping_rights mint (a    *)
(* Mapping cannot be transferred), and a call that faults is an exit.  A   *)
(* message that carries a handle is one step from the sender's table to    *)
(* the receiver's: nobody is charged for it in between.  Memory regions,   *)
(* whose rows also count, are in module MemoryPool.                        *)
(***************************************************************************)
EXTENDS Naturals, Sequences, FiniteSets

CONSTANTS
    NSlots,         \* process slots; slot 0 is root
    NWindows,       \* slots of the IoMemory slab
    NMaps,          \* slots of the Mapping slab
    MaxHandles,     \* MAX_HANDLES: the entries of a table, root's only limit
    QuotaHandles,   \* DEFAULT_QUOTA_HANDLES
    RowBudget,      \* hal.GRANT_ROW_BUDGET
    ImageRows,      \* rows an image takes of it
    QuotaWindows,   \* DEFAULT_QUOTA_IOMEMORIES
    QuotaMaps,      \* DEFAULT_QUOTA_MAPPINGS
    MaxRefs,        \* bound: references one object may have
    None            \* model value: an empty slot, no attachment, no row

ASSUME LifeAssumption ==
    /\ {NSlots, NWindows, MaxRefs} \subseteq Nat \ {0}
    /\ {NMaps, MaxHandles, QuotaHandles, RowBudget, ImageRows, QuotaWindows, QuotaMaps}
         \subseteq Nat
    /\ ImageRows + QuotaMaps <= RowBudget      \* the static_assert of limits.saw
    /\ MaxHandles >= 2 /\ QuotaHandles <= MaxHandles
    /\ None \notin Nat
    /\ None \notin [by : Nat, once : BOOLEAN]
    /\ None \notin [owner : Nat, target : Nat, row : {None} \cup Nat]

Slots == 0..(NSlots - 1)
Root == 0
Windows == 1..NWindows
Maps == 1..NMaps
Proc(s) == <<"process", s>>
Io(k) == <<"iomemory", k>>
Mapping(m) == <<"mapping", m>>
Unnamed == 0        \* a row no Mapping names: the image's, or a leaked one
Image == [i \in 1..ImageRows |-> Unnamed]
Objects == {Proc(s) : s \in Slots} \cup {Io(k) : k \in Windows}
             \cup {Mapping(m) : m \in Maps}

VARIABLES
    st,         \* PROCESSES[s].state
    held,       \* how many entries of a table name an object
    refs,       \* the object's refs column
    att,        \* PROCESSES[s].attachment: who watches it, and whether once
    rows,       \* PROCESSES[s].grants; history: which Mapping installed a row
    maps,       \* MAPPINGS[m]: owner, target, row
    io,         \* IOMEMORIES[k].process: who is charged for the window
    used,       \* PROCESSES[s].quota_used, the rows of maps and of windows
    lost        \* processes whose thread was left Running and never resumed

vars == <<st, held, refs, att, rows, maps, io, used, lost>>
tableVars == <<held, refs>>
mapVars == <<rows, maps>>
ledgerVars == <<io, used>>

Init ==
    /\ st = [s \in Slots |-> IF s = Root THEN "Running" ELSE "Free"]
    /\ held = [s \in Slots |-> [o \in Objects |->
                 IF s = Root /\ o \in {Proc(Root), Io(1)} THEN 1 ELSE 0]]
    /\ refs = [o \in Objects |-> IF o \in {Proc(Root), Io(1)} THEN 1 ELSE 0]
    /\ att = [s \in Slots |-> None]
    /\ rows = [s \in Slots |-> IF s = Root THEN Image ELSE <<>>]
    /\ maps = [m \in Maps |-> None]
    /\ io = [k \in Windows |-> IF k = 1 THEN Root ELSE None]
    /\ used = [s \in Slots |-> [maps |-> 0, windows |-> IF s = Root THEN 1 ELSE 0]]
    /\ lost = {}

(***************************************************************************)
(* Tables, counts and the ledger.                                          *)
(***************************************************************************)
\* mint_handle has room: the budget counts the entries, and so does the table.
Entries(p) == Cardinality({e \in Objects \X (1..MaxHandles) : e[2] <= held[p][e[1]]})
HandleRoom(p) == Entries(p) < IF p = Root THEN MaxHandles ELSE QuotaHandles

LowestFree(Free) == CHOOSE x \in Free : \A y \in Free : x <= y

\* quota_credit: nothing is taken from a row that is at zero.
Less(n, d) == IF n < d THEN 0 ELSE n - d

(* install_quota_limits: root may hold what the machine holds; a mapping    *)
(* budget never exceeds the rows the image has left.                        *)
MapLimit(t) == LET want == IF t = Root THEN NMaps ELSE QuotaMaps
               IN  IF want < RowBudget - ImageRows THEN want ELSE RowBudget - ImageRows
WindowRoom(p) == p = Root \/ used[p].windows < QuotaWindows

\* mint_handle and unbind_handle.
Bind(h, p, o) == [h EXCEPT ![p][o] = @ + 1]
Unbind(h, p, o) == [h EXCEPT ![p][o] = @ - 1]

\* The history of a row outlives the Mapping that named it.
Leaked(S, r) == [t \in Slots |-> [i \in DOMAIN r[t] |->
                   IF r[t][i] \in S THEN Unnamed ELSE r[t][i]]]

(* free_object, the three arms: a Gone slot is reclaimed and any other is   *)
(* left; a window is credited to the process its slot names; a Mapping goes *)
(* and leaves its row installed.                                            *)
free_object(o) ==
    \/ \E s \in Slots :
         /\ o = Proc(s)
         /\ st' = [st EXCEPT ![s] = IF @ = "Gone" THEN "Free" ELSE @]
         /\ UNCHANGED <<mapVars, ledgerVars>>
    \/ \E k \in Windows :
         /\ o = Io(k)
         /\ io' = [io EXCEPT ![k] = None]
         /\ used' = [used EXCEPT ![io[k]].windows = Less(@, 1)]
         /\ UNCHANGED <<st, mapVars>>
    \/ \E m \in Maps :
         /\ o = Mapping(m)
         /\ maps' = [maps EXCEPT ![m] = None]
         /\ rows' = Leaked({m}, rows)
         /\ UNCHANGED <<st, ledgerVars>>

\* unref_object: zero frees.
unref_object(o) ==
    /\ refs' = [refs EXCEPT ![o] = @ - 1]
    /\ IF refs[o] = 1 THEN free_object(o)
                      ELSE UNCHANGED <<st, mapVars, ledgerVars>>

(***************************************************************************)
(* System calls.  The machine stops with root.                             *)
(***************************************************************************)
Acting(p) == st[Root] = "Running" /\ st[p] = "Running" /\ p \notin lost

(* process_create: the lowest free slot, its image's rows, a fresh ledger,  *)
(* no attachment, and one handle.                                           *)
Create(p) ==
    LET s == LowestFree({x \in Slots : st[x] = "Free"})
    IN  /\ Acting(p)
        /\ \E x \in Slots : st[x] = "Free"
        /\ HandleRoom(p)
        /\ st' = [st EXCEPT ![s] = "Created"]
        /\ held' = Bind(held, p, Proc(s))
        /\ refs' = [refs EXCEPT ![Proc(s)] = 1]
        /\ rows' = [rows EXCEPT ![s] = @ \o Image]
        /\ att' = [att EXCEPT ![s] = None]
        /\ used' = [used EXCEPT ![s] = [maps |-> 0, windows |-> 0]]
        /\ UNCHANGED <<maps, io, lost>>

Start(p, s) ==
    /\ Acting(p)
    /\ held[p][Proc(s)] > 0
    /\ st[s] = "Created"
    /\ st' = [st EXCEPT ![s] = "Running"]
    /\ UNCHANGED <<tableVars, att, mapVars, ledgerVars, lost>>

\* mint_sibling.
Mint(p, o) ==
    /\ Acting(p)
    /\ held[p][o] > 0
    /\ refs[o] < MaxRefs
    /\ HandleRoom(p)
    /\ held' = Bind(held, p, o)
    /\ refs' = [refs EXCEPT ![o] = @ + 1]
    /\ UNCHANGED <<st, att, mapVars, ledgerVars, lost>>

(* A transferable handle changes tables: process_give to a child that has   *)
(* not started, or a message one Running process sent and another took.     *)
(* The count goes up before it goes down, so nothing is freed.              *)
Transfer(p, q, o) ==
    /\ Acting(p)
    /\ p # q
    /\ held[p][o] > 0 /\ o[1] # "mapping"
    /\ \/ st[q] = "Created" /\ held[p][Proc(q)] > 0
       \/ Acting(q)
    /\ HandleRoom(q)
    /\ held' = Bind(Unbind(held, p, o), q, o)
    /\ UNCHANGED <<st, refs, att, mapVars, ledgerVars, lost>>

Release(p, o) ==
    /\ Acting(p)
    /\ held[p][o] > 0
    /\ held' = Unbind(held, p, o)
    /\ unref_object(o)
    /\ UNCHANGED <<att, lost>>

(* waiter_add on a Process: the attachment is a reference; a consuming one  *)
(* takes the place of the caller's handle.  A slot that is Gone already is  *)
(* delivered at once to a thread parked on the Waiter, which ends a         *)
(* one-shot: what is left is the handle, or its release.                    *)
Watch(p, s, once, consuming, parked) ==
    /\ Acting(p)
    /\ held[p][Proc(s)] > 0
    /\ att[s] = None
    /\ consuming \/ refs[Proc(s)] < MaxRefs
    /\ parked => once /\ st[s] = "Gone"
    /\ held' = IF consuming THEN Unbind(held, p, Proc(s)) ELSE held
    /\ IF parked
         THEN /\ UNCHANGED att
              /\ IF consuming
                   THEN unref_object(Proc(s))
                   ELSE UNCHANGED <<st, refs, mapVars, ledgerVars>>
         ELSE /\ att' = [att EXCEPT ![s] = [by |-> p, once |-> once]]
              /\ refs' = [refs EXCEPT ![Proc(s)] = IF consuming THEN @ ELSE @ + 1]
              /\ UNCHANGED <<st, mapVars, ledgerVars>>
    /\ UNCHANGED lost

\* A mutant of Unwatch: what the attachment counted stays counted.
DetachesOnly(p, s) ==
    /\ Acting(p)
    /\ att[s] # None /\ att[s].by = p
    /\ att' = [att EXCEPT ![s] = None]
    /\ UNCHANGED <<st, tableVars, mapVars, ledgerVars, lost>>

(* Waiter.Remove, the release of the Waiter, and the Wait that reports a    *)
(* Gone process to a one-shot attachment all detach and then unref.         *)
Unwatch(p, s) ==
    /\ Acting(p)
    /\ att[s] # None /\ att[s].by = p
    /\ att' = [att EXCEPT ![s] = None]
    /\ unref_object(Proc(s))
    /\ UNCHANGED <<held, lost>>

\* IoMemory.Carve.
Carve(p, k) ==
    LET n == LowestFree({x \in Windows : io[x] = None})
    IN  /\ Acting(p)
        /\ held[p][Io(k)] > 0
        /\ WindowRoom(p)
        /\ \E x \in Windows : io[x] = None
        /\ HandleRoom(p)
        /\ held' = Bind(held, p, Io(n))
        /\ refs' = [refs EXCEPT ![Io(n)] = 1]
        /\ io' = [io EXCEPT ![n] = p]
        /\ used' = [used EXCEPT ![p].windows = @ + 1]
        /\ UNCHANGED <<st, att, mapVars, lost>>

\* install_row: the target is charged, the caller holds the Mapping.
Map(p, k, t) ==
    LET m == LowestFree({x \in Maps : maps[x] = None})
    IN  /\ Acting(p)
        /\ held[p][Io(k)] > 0 /\ held[p][Proc(t)] > 0
        /\ st[t] \in {"Created", "Running"}
        /\ used[t].maps < MapLimit(t)
        /\ \E x \in Maps : maps[x] = None
        /\ HandleRoom(p)
        /\ held' = Bind(held, p, Mapping(m))
        /\ refs' = [refs EXCEPT ![Mapping(m)] = 1]
        /\ rows' = [rows EXCEPT ![t] = Append(@, m)]
        /\ maps' = [maps EXCEPT ![m] = [owner |-> p, target |-> t, row |-> Len(rows[t]) + 1]]
        /\ used' = [used EXCEPT ![t].maps = @ + 1]
        /\ UNCHANGED <<st, att, io, lost>>

\* A mutant of compact_mapping_rows: later rows keep their old positions.
Stays(t, removed) == maps

(* compact_mapping_rows: every Mapping of a later row of t moves down with  *)
(* it.                                                                      *)
compact_mapping_rows(t, removed) ==
    [m \in Maps |->
       IF maps[m] # None /\ maps[m].target = t /\ maps[m].row # None
            /\ maps[m].row > removed
         THEN [maps[m] EXCEPT !.row = @ - 1] ELSE maps[m]]

(* Unmap: remove_grant compacts the record, the Mapping has no row any      *)
(* more, the target is credited; the Mapping itself stays.  On a Mapping    *)
(* without a row it faults.                                                 *)
Unmap(p, m) ==
    LET t == maps[m].target
        r == maps[m].row
    IN  /\ Acting(p)
        /\ held[p][Mapping(m)] > 0
        /\ r # None
        /\ rows' = [rows EXCEPT ![t] = SubSeq(@, 1, r - 1) \o SubSeq(@, r + 1, Len(@))]
        /\ maps' = [compact_mapping_rows(t, r) EXCEPT ![m].row = None]
        /\ used' = [used EXCEPT ![t].maps = Less(@, 1)]
        /\ UNCHANGED <<st, tableVars, att, io, lost>>

(***************************************************************************)
(* The teardown.                                                           *)
(***************************************************************************)

\* The Mapping slots of a dead owner are freed; those into a dead target lose
\* their row.
SweepMaps(c) ==
    [m \in Maps |->
       IF maps[m] = None \/ maps[m].owner = c THEN None
       ELSE IF maps[m].target = c THEN [maps[m] EXCEPT !.row = None] ELSE maps[m]]

(* end_process(c): the watcher is told (with a thread parked, and once, its *)
(* attachment ends there), the table is closed counting without freeing,    *)
(* c's attachments are unhooked from what they watch, windows nobody names  *)
(* are reaped with their credit, Mappings come apart from both ends, the    *)
(* domain and the ledger are cleared and the slot is reclaimed if nothing   *)
(* names it.                                                                *)
EndWith(c, watching) ==
    \E told \in {FALSE, att[c] # None /\ att[c].once} :
      LET found == watching \ (IF told THEN {c} ELSE {})
          drops(o) == held[c][o]
                      + Cardinality({s \in found : o = Proc(s)})
                      + (IF told /\ o = Proc(c) THEN 1 ELSE 0)
          left == [o \in Objects |->
                     IF o[1] = "mapping" /\ maps[o[2]] # None /\ maps[o[2]].owner = c
                       THEN 0 ELSE Less(refs[o], drops(o))]
          reaped == {k \in Windows : io[k] # None /\ left[Io(k)] = 0}
          mine == {m \in Maps : maps[m] # None /\ maps[m].owner = c}
      IN  /\ refs' = left
          /\ held' = [held EXCEPT ![c] = [o \in Objects |-> 0]]
          /\ att' = [s \in Slots |-> IF s \in found \/ (told /\ s = c)
                                       THEN None ELSE att[s]]
          /\ io' = [k \in Windows |-> IF k \in reaped THEN None ELSE io[k]]
          /\ maps' = SweepMaps(c)
          /\ rows' = [Leaked(mine, rows) EXCEPT ![c] = <<>>]
          /\ used' = [s \in Slots |->
                        IF s = c THEN [maps |-> 0, windows |-> 0]
                        ELSE [used[s] EXCEPT !.windows =
                               Less(@, Cardinality({k \in reaped : io[k] = s}))]]
          /\ st' = [st EXCEPT ![c] = IF left[Proc(c)] = 0 THEN "Free" ELSE "Gone"]

\* What the Waiters of c watch.
Watching(c) == {s \in Slots : att[s] # None /\ att[s].by = c}

\* A mutant of end_process: the attachments are freed and not unhooked.
ForgetsTheWatched(c) == EndWith(c, {})

end_process(c) == EndWith(c, Watching(c))

(* An exit, a fault or the end of the last thread; or Process.Exit through  *)
(* a handle onto any process, in whatever state: the caller's thread is     *)
(* then neither current nor queued.                                         *)
End(p, c) ==
    /\ Acting(p)
    /\ c # p => held[p][Proc(c)] > 0
    /\ end_process(c)
    /\ lost' = (lost \cup {p}) \ {c}

\* Nothing runs and nothing can wake it: root is ended as deadlocked.
Stranded ==
    /\ st[Root] = "Running" /\ \A p \in Slots : ~Acting(p)
    /\ end_process(Root)
    /\ lost' = lost \ {Root}

Halted == st[Root] # "Running" /\ UNCHANGED vars

Next ==
    \/ \E p \in Slots :
         \/ Create(p)
         \/ \E o \in Objects : Mint(p, o) \/ Release(p, o)
         \/ \E s \in Slots : Start(p, s) \/ Unwatch(p, s) \/ End(p, s)
         \/ \E s \in Slots, once, consuming, parked \in BOOLEAN :
              Watch(p, s, once, consuming, parked)
         \/ \E q \in Slots, o \in Objects : Transfer(p, q, o)
         \/ \E k \in Windows : Carve(p, k) \/ \E t \in Slots : Map(p, k, t)
         \/ \E m \in Maps : Unmap(p, m)
    \/ Stranded
    \/ Halted

Spec == Init /\ [][Next]_vars

-----------------------------------------------------------------------------
(* The tables hold what they are declared to hold.                          *)
TypeOK ==
    /\ st \in [Slots -> {"Free", "Created", "Running", "Gone"}]
    /\ held \in [Slots -> [Objects -> 0..MaxHandles]]
    /\ refs \in [Objects -> Nat]
    /\ att \in [Slots -> {None} \cup [by : Slots, once : BOOLEAN]]
    /\ rows \in [Slots -> Seq({Unnamed} \cup Maps)]
    /\ maps \in [Maps -> {None} \cup [owner : Slots, target : Slots,
                                       row : {None} \cup 1..RowBudget]]
    /\ io \in [Windows -> {None} \cup Slots]
    /\ used \in [Slots -> [maps : 0..RowBudget, windows : 0..NWindows]]
    /\ lost \subseteq Slots

(* A count is what the tables and the attachments say: every handle and     *)
(* every watcher is one reference, across transfers, one-shot deliveries    *)
(* and the deaths of holder and watcher.  What nobody names is not in a     *)
(* slab, a Gone process apart: a teardown that drops the last handle onto   *)
(* one does not reclaim its slot (unref_teardown).                          *)
RefsExact ==
    /\ \A o \in Objects :
         refs[o] = Cardinality({e \in Slots \X (1..MaxHandles) : e[2] <= held[e[1]][o]})
                   + Cardinality({s \in Slots : o = Proc(s) /\ att[s] # None})
    /\ \A k \in Windows : io[k] # None <=> refs[Io(k)] > 0
    /\ \A m \in Maps : maps[m] # None <=> refs[Mapping(m)] > 0

(* Positions agree: a Mapping that has a row names the row it installed,    *)
(* however many rows below it were removed, and a row some Mapping          *)
(* installed is named by it until one of them goes.                         *)
RowsAgree ==
    /\ \A m \in Maps : maps[m] # None /\ maps[m].row # None =>
         /\ maps[m].row \in DOMAIN rows[maps[m].target]
         /\ rows[maps[m].target][maps[m].row] = m
    /\ \A t \in Slots : \A i \in DOMAIN rows[t] : rows[t][i] \in Maps =>
         maps[rows[t][i]] # None /\ maps[rows[t][i]].target = t /\ maps[rows[t][i]].row = i

(* The rows charged to a process are the rows beyond its image, a leaked    *)
(* one included, so a Map that passes the quota finds a row: the            *)
(* fatal_kernel of install_row is never reached.                            *)
RowLedger ==
    \A t \in Slots : st[t] \in {"Created", "Running"} =>
        /\ Len(rows[t]) = ImageRows + used[t].maps
        /\ used[t].maps < MapLimit(t) => Len(rows[t]) < RowBudget

(* A slot passes to its next process clean: nothing that names a slot       *)
(* outlives what it named.  A Free slot has no handle, watcher, row or      *)
(* charge; the dead watch nothing and own no Mapping, and a Mapping into a  *)
(* dead process has no row.                                                 *)
NoStaleName ==
    /\ \A s \in Slots : st[s] = "Free" =>
         /\ refs[Proc(s)] = 0 /\ att[s] = None
         /\ rows[s] = <<>> /\ used[s].maps = 0
         /\ \A p \in Slots : held[p][Proc(s)] = 0
    /\ \A s \in Slots : st[s] \in {"Free", "Gone"} =>
         \A o \in Objects : held[s][o] = 0
    /\ \A s \in Slots : att[s] # None => st[att[s].by] = "Running"
    /\ \A m \in Maps : maps[m] # None =>
         /\ st[maps[m].owner] = "Running"
         /\ maps[m].row # None => st[maps[m].target] \in {"Created", "Running"}

(* Nobody pays for a window that is gone: what a process is charged is at   *)
(* most the windows its slot is written on, whoever released them, by a     *)
(* call or by dying with the last handle.                                   *)
NeverOvercharged ==
    \A p \in Slots : st[p] \in {"Created", "Running"} =>
        used[p].windows <= Cardinality({k \in Windows : io[k] = p})

(* The records of rows and windows and the ledgers that pay for them agree, *)
(* whoever unmaps, releases, ends or is ended, in whatever order            *)
(* (compact_mapping_rows, quota_charge, quota_credit).                      *)
LedgersAgree == TypeOK /\ RowsAgree /\ RowLedger /\ NeverOvercharged

=============================================================================
