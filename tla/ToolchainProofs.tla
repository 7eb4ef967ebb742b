-------------------------- MODULE ToolchainProofs --------------------------
(***************************************************************************)
(* Proofs about the toolchain resolver, for any number of processes, any   *)
(* setups and any number of crashes and failed commands.                   *)
(*                                                                         *)
(* FetchIsSound is not inductive: that os.replace publishes a whole        *)
(* checkout depends on what every earlier command left in <sha>.partial,   *)
(* and that depends on nobody else being inside _fetch.  FetchInv says     *)
(* both.                                                                   *)
(***************************************************************************)
EXTENDS Toolchain, TLAPS

\* What <sha>.partial holds when a process is about to run each step after the
\* sweep.
TmpBefore ==
    [mkdir |-> NoTree, init |-> {}, remote |-> {"git"}, fetch |-> {"git", "remote"},
     checkout |-> {"git", "remote", "fetched"},
     venv |-> {"git", "remote", "fetched", "sawc.py"},
     pip |-> {"git", "remote", "fetched", "sawc.py", "venv"},
     publish |-> Parts]

\* Without an overlap one process at a time is inside _fetch, ...
OneFetch == \A p, q \in Procs : Fetching(p) /\ Fetching(q) => p = q

\* ... a process past the lookup has found no checkout and works on exactly what
\* its own commands have made, ...
OwnTmp ==
    \A p \in Procs :
        /\ Fetching(p) /\ pc[p] # "lookup" => dest = NoTree
        /\ pc[p] \in DOMAIN TmpBefore => tmp = TmpBefore[pc[p]]

\* ... and the cache holds a whole checkout or none.
WholeOrNone == dest \in {NoTree, Parts}

FetchInv ==
    /\ TypeOK
    /\ ~overlap => OneFetch /\ OwnTmp /\ WholeOrNone
    /\ FetchedIsUsable
    /\ NoTraceback

\* Nobody who named a compiler gets as far as the fetch.
ProvenanceInv ==
    /\ ProvenanceOK
    /\ \A p \in Procs : Fetching(p) => ~Named(env[p])

-----------------------------------------------------------------------------
\* The model's directories: the marker of a checkout, and what lies in none.
LEMMA TreeFacts ==
    /\ NoTree # Parts /\ NoTree # {} /\ Parts # {}
    /\ NoTree \in Trees /\ {} \in Trees /\ Parts \in Trees
    /\ ~LooksLikeSawlang(NoTree) /\ ~LooksLikeSawlang({}) /\ LooksLikeSawlang(Parts)
    /\ \A t \in Trees : t # NoTree => t \in SUBSET Parts
    /\ \A t \in SUBSET Parts : t # NoTree /\ t \in Trees
<1>1. "absent" \notin Parts /\ "git" \in Parts /\ "sawc.py" \in Parts
    BY DEF Parts
<1>2. ASSUME NEW t \in SUBSET Parts PROVE t # NoTree /\ t \in Trees
    <2>1. "absent" \notin t /\ "absent" \in NoTree
        BY <1>1 DEF NoTree
    <2> QED
        BY <2>1 DEF Trees
<1>3. NoTree \in Trees /\ {} \in Trees /\ Parts \in Trees
    BY DEF Trees
<1>4. NoTree # Parts /\ NoTree # {} /\ Parts # {}
    BY <1>1, "absent" \in NoTree DEF NoTree
<1>5. ~LooksLikeSawlang(NoTree) /\ ~LooksLikeSawlang({}) /\ LooksLikeSawlang(Parts)
    BY <1>1 DEF NoTree, LooksLikeSawlang
<1> QED
    BY <1>2, <1>3, <1>4, <1>5 DEF Trees

\* Every command of _fetch adds a part of a checkout, stands at a step of it and
\* leads to another, starts and succeeds on what the earlier ones have made, and
\* makes exactly what the next one needs.
LEMMA CommandFacts ==
    ASSUME NEW c \in Commands
    PROVE  /\ c.adds \in Parts /\ c.at \in FetchSteps /\ c.next \in FetchSteps
           /\ c.at \in DOMAIN TmpBefore /\ c.next \in DOMAIN TmpBefore
           /\ c.at # "mkdir" /\ c.at # "lookup" /\ c.next # "lookup"
           /\ tmp = TmpBefore[c.at] =>
                /\ ~CannotStart(c)
                /\ tmp # NoTree
                /\ tmp \cup {c.adds} = TmpBefore[c.next]
BY DEF Commands, Parts, FetchSteps, TmpBefore, CannotStart, NoTree

\* The parts of TypeOK that arithmetic and Boolean reasoning need apart.
LEMMA TypeFacts ==
    TypeOK =>
        /\ pc \in [Procs -> {"idle", "resolve"} \cup FetchSteps \cup Ends]
        /\ tmp \in Trees /\ dest \in Trees
        /\ crashes \in 0..MaxCrashes /\ fails \in 0..MaxFails
BY Zenon DEF TypeOK

LEMMA TypeInit == Init => TypeOK
<1> SUFFICES ASSUME Init PROVE TypeOK
    OBVIOUS
<1>1. env \in [Procs -> Environments] /\ pin \in Pins
    BY SetupsAssumption DEF Init
<1>2. tmp \in Trees /\ dest \in Trees
    <2>1. {"git"} \in SUBSET Parts /\ Parts \ {"llvmlite"} \in SUBSET Parts
        BY DEF Parts
    <2> QED
        BY <2>1, TreeFacts DEF Init
<1>3. crashes \in 0..MaxCrashes /\ fails \in 0..MaxFails
    BY BoundsAssumption DEF Init
<1> QED
    BY <1>1, <1>2, <1>3 DEF Init, TypeOK

\* Every step keeps the types of the variables.
LEMMA TypeNext == TypeOK /\ [Next]_vars => TypeOK'
<1> SUFFICES ASSUME TypeOK, [Next]_vars PROVE TypeOK'
    OBVIOUS
<1>1. CASE UNCHANGED vars
    BY <1>1 DEF vars, TypeOK
<1>2. ASSUME NEW p \in Procs, Start(p) \/ Step(p) \/ Kill(p) PROVE TypeOK'
    <2>1. UNCHANGED <<env, pin>> /\ env' \in [Procs -> Environments] /\ pin' \in Pins
        BY <1>2 DEF TypeOK, Step, Start, RefuseInput, ResolveNamed, ResolvePath, ResolveFetch,
                    Refuse, CacheHit, CacheMiss, Sweep, MakeTmp, RunCommand, Publish, Kill
    <2>2. CASE \/ Start(p) \/ RefuseInput(p) \/ ResolveNamed(p) \/ ResolvePath(p)
               \/ ResolveFetch(p) \/ Refuse(p) \/ CacheHit(p) \/ CacheMiss(p)
        BY <2>1, <2>2 DEF TypeOK, Start, RefuseInput, ResolveNamed, ResolvePath, ResolveFetch,
                          Refuse, CacheHit, CacheMiss, Answer, Goto, FetchSteps, Ends
    <2>3. CASE Sweep(p) \/ MakeTmp(p) \/ Publish(p)
        BY <2>1, <2>3, TreeFacts DEF TypeOK, Sweep, MakeTmp, Publish, Answer, Goto, FetchSteps, Ends
    <2>4. CASE RunCommand(p)
        <3>1. PICK c \in Commands :
                 /\ pc[p] = c.at
                 /\ tmp' \in {tmp, NoTree, (IF tmp = NoTree THEN {} ELSE tmp) \cup {c.adds}}
                 /\ pc' \in {[pc EXCEPT ![p] = c.next], [pc EXCEPT ![p] = "traceback"],
                             [pc EXCEPT ![p] = "refused"]}
                 /\ \/ fails' = fails
                    \/ fails < MaxFails /\ fails' = fails + 1
                 /\ UNCHANGED <<env, pin, source, dest, crashes, overlap>>
            BY <2>4 DEF RunCommand, Goto
        <3>2. tmp' \in Trees
            BY <3>1, CommandFacts, TreeFacts, TypeFacts
        <3>3. pc' \in [Procs -> {"idle", "resolve"} \cup FetchSteps \cup Ends]
            BY <3>1, CommandFacts DEF TypeOK, Ends
        <3>4. fails' \in 0..MaxFails
            BY <3>1, BoundsAssumption, TypeFacts
        <3> QED
            BY <2>1, <3>1, <3>2, <3>3, <3>4 DEF TypeOK
    <2>5. CASE Kill(p)
        <3>1. tmp' \in Trees
            BY <2>5, TreeFacts, TypeFacts DEF Kill
        <3>2. crashes' \in 0..MaxCrashes
            BY <2>5, BoundsAssumption, TypeFacts DEF Kill
        <3> QED
            BY <2>1, <2>5, <3>1, <3>2 DEF Kill, Goto, TypeOK, Ends
    <2> QED
        BY <1>2, <2>2, <2>3, <2>4, <2>5 DEF Step
<1> QED
    BY <1>1, <1>2 DEF Next

-----------------------------------------------------------------------------
LEMMA FetchInit == Init => FetchInv
<1> SUFFICES ASSUME Init PROVE FetchInv
    OBVIOUS
<1>1. \A p \in Procs : pc[p] = "idle"
    BY DEF Init
<1>2. OneFetch /\ OwnTmp /\ WholeOrNone
    BY <1>1 DEF Init, OneFetch, OwnTmp, WholeOrNone, Fetching, FetchSteps, TmpBefore
<1> QED
    BY <1>1, <1>2, TypeInit DEF FetchInv, FetchedIsUsable, NoTraceback

\* A step of the code outside _fetch, or one that leaves it, keeps FetchInv as long
\* as it touches neither directory and no process is handed what is not there.
LEMMA FetchQuiet ==
    ASSUME FetchInv, TypeOK', NEW p \in Procs, NEW where,
           Goto(p, where), where \notin FetchSteps, where # "traceback",
           UNCHANGED <<tmp, dest, overlap>>,
           \A q \in Procs : q # p => source'[q] = source[q],
           where = "done" /\ source'[p] = "fetch" => LooksLikeSawlang(dest)
    PROVE  FetchInv'
<1>1. /\ pc' = [pc EXCEPT ![p] = where]
      /\ pc'[p] = where /\ \A q \in Procs : q # p => pc'[q] = pc[q]
    BY DEF Goto, FetchInv, TypeOK
<1>2. CASE overlap
    BY <1>1, <1>2 DEF FetchInv, FetchedIsUsable, NoTraceback
<1>3. CASE ~overlap
    <2>0. DOMAIN TmpBefore \subseteq FetchSteps
        BY DEF TmpBefore, FetchSteps
    <2>1. OneFetch' /\ OwnTmp' /\ WholeOrNone'
        BY <1>1, <1>3, <2>0 DEF FetchInv, OneFetch, OwnTmp, WholeOrNone, Fetching
    <2>2. FetchedIsUsable'
        BY <1>1, <1>3, TreeFacts DEF FetchInv, FetchedIsUsable, WholeOrNone, Whole
    <2> QED
        BY <1>1, <1>3, <2>1, <2>2 DEF FetchInv, NoTraceback
<1> QED
    BY <1>2, <1>3

\* A step inside _fetch keeps FetchInv when it leaves the cached directory alone
\* and its own directory as the next step needs it.
LEMMA FetchInside ==
    ASSUME FetchInv, TypeOK', NEW p \in Procs, NEW where,
           Goto(p, where), Fetching(p), where \in FetchSteps, where # "lookup",
           UNCHANGED <<source, dest, overlap>>,
           ~overlap => /\ dest = NoTree
                       /\ where \in DOMAIN TmpBefore => tmp' = TmpBefore[where]
    PROVE  FetchInv'
<1>1. /\ pc' = [pc EXCEPT ![p] = where]
      /\ pc'[p] = where /\ \A q \in Procs : q # p => pc'[q] = pc[q]
    BY DEF Goto, FetchInv, TypeOK
<1>0. where \notin Ends
    BY DEF FetchSteps, Ends
<1>2. CASE overlap
    BY <1>0, <1>1, <1>2 DEF FetchInv, FetchedIsUsable, NoTraceback
<1>3. CASE ~overlap
    <2>1. \A q \in Procs : q # p => pc'[q] \notin FetchSteps
        BY <1>1, <1>3 DEF FetchInv, OneFetch, Fetching
    <2>2. DOMAIN TmpBefore \subseteq FetchSteps
        BY DEF TmpBefore, FetchSteps
    <2>3. OneFetch' /\ OwnTmp' /\ WholeOrNone'
        BY <1>1, <1>3, <2>1, <2>2 DEF FetchInv, OneFetch, OwnTmp, WholeOrNone, Fetching
    <2>4. FetchedIsUsable' /\ NoTraceback'
        BY <1>0, <1>1, <1>3 DEF FetchInv, FetchedIsUsable, NoTraceback, Ends
    <2> QED
        BY <1>3, <2>3, <2>4 DEF FetchInv
<1> QED
    BY <1>2, <1>3

\* A process that leaves _fetch for good, with whatever it leaves in its own
\* directory, keeps FetchInv: nobody else is in there to be surprised.
LEMMA FetchLeft ==
    ASSUME FetchInv, TypeOK', NEW p \in Procs, NEW where,
           Goto(p, where), Fetching(p), where \in {"refused", "killed"},
           UNCHANGED <<source, dest, overlap>>
    PROVE  FetchInv'
<1>1. /\ pc' = [pc EXCEPT ![p] = where]
      /\ pc'[p] = where /\ \A q \in Procs : q # p => pc'[q] = pc[q]
    BY DEF Goto, FetchInv, TypeOK
<1>2. CASE overlap
    BY <1>1, <1>2 DEF FetchInv, FetchedIsUsable, NoTraceback
<1>3. CASE ~overlap
    <2>1. where \notin FetchSteps /\ DOMAIN TmpBefore \subseteq FetchSteps
        BY DEF TmpBefore, FetchSteps
    <2>2. \A q \in Procs : pc'[q] \notin FetchSteps
        BY <1>1, <1>3, <2>1 DEF FetchInv, OneFetch, Fetching
    <2>3. OneFetch' /\ OwnTmp' /\ WholeOrNone'
        BY <1>3, <2>1, <2>2 DEF FetchInv, OneFetch, OwnTmp, WholeOrNone, Fetching
    <2>4. FetchedIsUsable' /\ NoTraceback'
        BY <1>1, <1>3 DEF FetchInv, FetchedIsUsable, NoTraceback
    <2> QED
        BY <1>3, <2>3, <2>4 DEF FetchInv
<1> QED
    BY <1>2, <1>3

\* os.replace hands the process that ran it a whole checkout; nobody is left inside
\* _fetch.
LEMMA FetchPublished ==
    ASSUME FetchInv, TypeOK', NEW p \in Procs, Publish(p), ~overlap
    PROVE  FetchInv'
<1>0. /\ Fetching(p) /\ dest = NoTree /\ tmp = Parts /\ pc[p] = "publish"
    BY DEF Publish, FetchInv, OwnTmp, TmpBefore, Fetching, FetchSteps
<1>1. /\ pc' = [pc EXCEPT ![p] = "done"]
      /\ source' = [source EXCEPT ![p] = "fetch"]
      /\ dest' = Parts /\ tmp' = NoTree /\ ~overlap'
    BY <1>0, TreeFacts DEF Publish, Answer, Goto
<1>2. pc'[p] = "done" /\ \A q \in Procs : q # p => pc'[q] = pc[q]
    BY <1>1 DEF FetchInv, TypeOK
<1>3. "done" \notin FetchSteps /\ DOMAIN TmpBefore \subseteq FetchSteps
    BY DEF TmpBefore, FetchSteps
<1>4. \A q \in Procs : pc'[q] \notin FetchSteps
    BY <1>0, <1>2, <1>3 DEF FetchInv, OneFetch, Fetching
<1>5. OneFetch' /\ OwnTmp' /\ WholeOrNone'
    BY <1>1, <1>3, <1>4 DEF OneFetch, OwnTmp, WholeOrNone, Fetching
<1> QED
    BY <1>1, <1>2, <1>5 DEF FetchInv, FetchedIsUsable, NoTraceback, Whole

LEMMA FetchNext == FetchInv /\ [Next]_vars => FetchInv'
<1> SUFFICES ASSUME FetchInv, [Next]_vars PROVE FetchInv'
    OBVIOUS
<1>1. TypeOK /\ TypeOK'
    BY TypeNext DEF FetchInv
<1>2. CASE UNCHANGED vars
    <2>1. UNCHANGED <<pc, source, tmp, dest, overlap>>
        BY <1>2 DEF vars
    <2>2. OneFetch' <=> OneFetch
        BY <2>1 DEF OneFetch, Fetching
    <2>3. OwnTmp' <=> OwnTmp
        BY <2>1 DEF OwnTmp, Fetching
    <2>4. (WholeOrNone' <=> WholeOrNone) /\ (FetchedIsUsable' <=> FetchedIsUsable)
          /\ (NoTraceback' <=> NoTraceback)
        BY <2>1 DEF WholeOrNone, FetchedIsUsable, NoTraceback, Whole
    <2> QED
        BY <1>1, <2>1, <2>2, <2>3, <2>4 DEF FetchInv
\* Once two fetches have overlapped FetchInv says no more than TypeOK does.
<1>3. CASE overlap'
    BY <1>1, <1>3 DEF FetchInv, FetchedIsUsable, NoTraceback
<1>4. ASSUME NEW p \in Procs, Start(p) \/ Step(p) \/ Kill(p), ~overlap' PROVE FetchInv'
    <2>1. ~overlap
        BY <1>4 DEF Step, Start, RefuseInput, ResolveNamed, ResolvePath, ResolveFetch,
                    Refuse, CacheHit, CacheMiss, Sweep, MakeTmp, RunCommand, Publish, Kill
    <2>2. CASE Start(p)
        <3>1. \A q \in Procs : q # p => source'[q] = source[q]
            BY <2>2, <1>1 DEF Start, TypeOK
        <3> QED
            BY <1>1, <2>2, <3>1, FetchQuiet DEF Start, FetchSteps
    <2>3. CASE RefuseInput(p) \/ Refuse(p)
        <3>1. \A q \in Procs : q # p => source'[q] = source[q]
            BY <2>3, <1>1 DEF RefuseInput, Refuse, TypeOK
        <3> QED
            BY <1>1, <2>3, <3>1, FetchQuiet DEF RefuseInput, Refuse, FetchSteps
    <2>4. CASE ResolveNamed(p)
        <3>1. source'[p] = "named" /\ \A q \in Procs : q # p => source'[q] = source[q]
            BY <2>4, <1>1 DEF ResolveNamed, Answer, TypeOK
        <3> QED
            BY <1>1, <2>4, <3>1, FetchQuiet DEF ResolveNamed, Answer, FetchSteps
    <2>5. CASE ResolvePath(p)
        <3>1. source'[p] # "fetch" /\ \A q \in Procs : q # p => source'[q] = source[q]
            BY <2>5, <1>1 DEF ResolvePath, Answer, TypeOK
        <3> QED
            BY <1>1, <2>5, <3>1, FetchQuiet DEF ResolvePath, Answer, FetchSteps
    <2>6. CASE ResolveFetch(p)
        <3>1. /\ pc' = [pc EXCEPT ![p] = "lookup"]
              /\ pc'[p] = "lookup" /\ \A q \in Procs : q # p => pc'[q] = pc[q]
            BY <2>6, <1>1 DEF ResolveFetch, Goto, TypeOK
        <3>2. \A q \in Procs : q # p => pc'[q] \notin FetchSteps
            BY <1>4, <2>6, <3>1 DEF ResolveFetch, Fetching
        <3>3. "lookup" \notin DOMAIN TmpBefore /\ DOMAIN TmpBefore \subseteq FetchSteps
            BY DEF TmpBefore, FetchSteps
        <3>4. OneFetch' /\ OwnTmp' /\ WholeOrNone'
            BY <2>1, <2>6, <3>1, <3>2, <3>3
               DEF ResolveFetch, FetchInv, OneFetch, OwnTmp, WholeOrNone, Fetching
        <3> QED
            BY <1>1, <2>1, <2>6, <3>1, <3>4
               DEF ResolveFetch, FetchInv, FetchedIsUsable, NoTraceback
    <2>7. CASE CacheHit(p)
        <3>1. \A q \in Procs : q # p => source'[q] = source[q]
            BY <2>7, <1>1 DEF CacheHit, Answer, TypeOK
        <3> QED
            BY <1>1, <2>7, <3>1, FetchQuiet DEF CacheHit, Answer, FetchSteps
    <2>8. CASE CacheMiss(p)
        <3>1. Fetching(p) /\ dest = NoTree
            BY <2>1, <2>8, TreeFacts DEF CacheMiss, Fetching, FetchSteps, FetchInv, WholeOrNone
        <3>2. CASE env[p].tools
            <4>1. "sweep" \in FetchSteps /\ "sweep" \notin DOMAIN TmpBefore
                BY DEF FetchSteps, TmpBefore
            <4> QED
                BY <1>1, <2>8, <3>1, <3>2, <4>1, FetchInside DEF CacheMiss
        <3>3. CASE ~env[p].tools
            BY <1>1, <2>8, <3>1, <3>3, FetchLeft DEF CacheMiss
        <3> QED
            BY <3>2, <3>3
    <2>9. CASE Sweep(p)
        <3>1. Fetching(p) /\ dest = NoTree
            BY <2>1, <2>9 DEF Sweep, Fetching, FetchSteps, FetchInv, OwnTmp
        <3>2. "mkdir" \in FetchSteps /\ tmp' = TmpBefore["mkdir"]
            BY <2>9 DEF Sweep, FetchSteps, TmpBefore
        <3> QED
            BY <1>1, <2>9, <3>1, <3>2, FetchInside DEF Sweep
    <2>10. CASE MakeTmp(p)
        <3>1. Fetching(p) /\ dest = NoTree /\ tmp = NoTree
            BY <2>1, <2>10 DEF MakeTmp, Fetching, FetchSteps, FetchInv, OwnTmp, TmpBefore
        <3>2. "init" \in FetchSteps /\ tmp' = TmpBefore["init"]
            BY <2>10, <3>1 DEF MakeTmp, FetchSteps, TmpBefore
        <3> QED
            BY <1>1, <2>10, <3>1, <3>2, FetchInside DEF MakeTmp
    <2>11. CASE RunCommand(p)
        <3>1. UNCHANGED <<source, dest, overlap>>
            BY <2>11 DEF RunCommand
        <3>2. PICK c \in Commands :
                 /\ pc[p] = c.at
                 /\ \/ /\ tmp' = (IF tmp = NoTree THEN {} ELSE tmp) \cup {c.adds}
                       /\ Goto(p, c.next)
                    \/ CannotStart(c)
                    \/ Goto(p, "refused")
            BY <2>11 DEF RunCommand
        <3>3. Fetching(p) /\ dest = NoTree /\ tmp = TmpBefore[c.at]
            BY <2>1, <3>2, CommandFacts DEF Fetching, FetchInv, OwnTmp
        <3>4. CASE Goto(p, "refused")
            BY <1>1, <3>1, <3>3, <3>4, FetchLeft
        <3>5. CASE /\ tmp' = (IF tmp = NoTree THEN {} ELSE tmp) \cup {c.adds}
                   /\ Goto(p, c.next)
            <4>1. tmp' = TmpBefore[c.next] /\ c.next \in FetchSteps /\ c.next # "lookup"
                BY <3>3, <3>5, CommandFacts
            <4> QED
                BY <1>1, <3>1, <3>3, <3>5, <4>1, FetchInside
        <3> QED
            BY <3>2, <3>3, <3>4, <3>5, CommandFacts
    <2>12. CASE Publish(p)
        BY <1>1, <2>1, <2>12, FetchPublished
    <2>13. CASE Kill(p)
        BY <1>1, <2>13, FetchLeft DEF Kill
    <2> QED
        BY <1>4, <2>2, <2>3, <2>4, <2>5, <2>6, <2>7, <2>8, <2>9, <2>10, <2>11, <2>12, <2>13
           DEF Step
<1> QED
    BY <1>2, <1>3, <1>4 DEF Next

-----------------------------------------------------------------------------
\* What a fetch leaves in the cache, finished, refused or killed at any command, is
\* whole or is seen to be incomplete, whoever was handed it can use it for good,
\* and no resolution dies of an exception nobody catches, for any number of
\* processes, crashes and failed commands, as long as no two fetches have
\* overlapped (_fetch).
THEOREM FetchSafe == Spec => []FetchIsSound
<1>1. FetchInv => FetchIsSound
    <2>1. FetchInv => PublishedIsWhole
        BY TreeFacts DEF FetchInv, WholeOrNone, PublishedIsWhole, Whole
    <2> QED
        BY <2>1 DEF FetchInv, FetchIsSound
<1> QED
    BY <1>1, FetchInit, FetchNext, PTL DEF Spec

-----------------------------------------------------------------------------
LEMMA ProvenanceInit == Init => ProvenanceInv
BY DEF Init, ProvenanceInv, ProvenanceOK, Fetching, FetchSteps

\* A step that moves one process keeps ProvenanceInv when that process does.
LEMMA ProvenanceMoved ==
    ASSUME TypeOK, ProvenanceInv, NEW p \in Procs, NEW where, Goto(p, where),
           UNCHANGED <<env, pin>>,
           \A q \in Procs : q # p => source'[q] = source[q],
           where \in FetchSteps => ~Named(env[p]),
           where = "done" =>
               /\ source'[p] = "PATH" => VersionOK(env[p])
               /\ Named(env[p]) => source'[p] = "named"
    PROVE  ProvenanceInv'
<1>1. pc'[p] = where /\ \A q \in Procs : q # p => pc'[q] = pc[q]
    BY TypeFacts DEF Goto
<1>2. \A q \in Procs : pc'[q] \in FetchSteps => ~Named(env[q])
    BY <1>1 DEF ProvenanceInv, Fetching
<1>3. ASSUME NEW q \in Procs, pc'[q] = "done"
      PROVE  /\ source'[q] = "PATH" /\ pin.file = "read" /\ pin.version # "unstated"
                  => env[q].sawc = pin.version
             /\ Named(env[q]) => source'[q] = "named"
             /\ (source'[q] = "fetch" \/ (source'[q] = "named" /\ ResolveRoot(env[q])))
                  /\ (env[q].BLADE \/ (source'[q] = "PATH" /\ env[q].blade))
                  => env[q].BLADE
    BY <1>1, <1>3 DEF ProvenanceInv, ProvenanceOK, HasRoot, BladeBinary, VersionOK
<1> QED
    BY <1>2, <1>3 DEF ProvenanceInv, ProvenanceOK, HasRoot, BladeBinary, Fetching, Named,
                      ResolveRoot

LEMMA ProvenanceNext == TypeOK /\ ProvenanceInv /\ [Next]_vars => ProvenanceInv'
<1> SUFFICES ASSUME TypeOK, ProvenanceInv, [Next]_vars PROVE ProvenanceInv'
    OBVIOUS
<1>1. CASE UNCHANGED vars
    BY <1>1 DEF vars, ProvenanceInv, ProvenanceOK, Fetching, Named, ResolveRoot, HasRoot, BladeBinary
<1>2. ASSUME NEW p \in Procs, Start(p) \/ Step(p) \/ Kill(p) PROVE ProvenanceInv'
    <2>1. UNCHANGED <<env, pin>>
        BY <1>2 DEF Step, Start, RefuseInput, ResolveNamed, ResolvePath, ResolveFetch,
                    Refuse, CacheHit, CacheMiss, Sweep, MakeTmp, RunCommand, Publish, Kill
    <2>2. source \in [Procs -> {"none", "input", "named", "PATH", "version", "fetch", "all unset"}]
        BY Zenon DEF TypeOK
    <2>3. CASE Start(p) \/ RefuseInput(p) \/ Refuse(p)
        <3>1. \A q \in Procs : q # p => source'[q] = source[q]
            BY <2>2, <2>3 DEF Start, RefuseInput, Refuse
        <3> QED
            BY <2>1, <2>3, <3>1, ProvenanceMoved DEF Start, RefuseInput, Refuse, FetchSteps
    <2>4. CASE ResolveNamed(p)
        <3>1. source'[p] = "named" /\ \A q \in Procs : q # p => source'[q] = source[q]
            BY <2>2, <2>4 DEF ResolveNamed, Answer
        <3> QED
            BY <2>1, <2>4, <3>1, ProvenanceMoved DEF ResolveNamed, Answer, FetchSteps
    <2>5. CASE ResolvePath(p)
        <3>1. \A q \in Procs : q # p => source'[q] = source[q]
            BY <2>2, <2>5 DEF ResolvePath, Answer
        <3>2. CASE VersionOK(env[p])
            BY <2>1, <2>5, <3>1, <3>2, ProvenanceMoved DEF ResolvePath, Answer, FetchSteps
        <3>3. CASE ~VersionOK(env[p])
            BY <2>1, <2>5, <3>1, <3>3, ProvenanceMoved DEF ResolvePath, FetchSteps
        <3> QED
            BY <3>2, <3>3
    <2>6. CASE ResolveFetch(p)
        BY <2>1, <2>6, ProvenanceMoved DEF ResolveFetch
    <2>7. ASSUME Fetching(p), NEW where, Goto(p, where),
                 \A q \in Procs : q # p => source'[q] = source[q],
                 where = "done" => source'[p] = "fetch"
          PROVE  ProvenanceInv'
        <3>1. ~Named(env[p])
            BY <2>7 DEF ProvenanceInv
        <3> QED
            BY <2>1, <2>7, <3>1, ProvenanceMoved
    <2>8. CASE CacheHit(p)
        <3>1. source'[p] = "fetch" /\ \A q \in Procs : q # p => source'[q] = source[q]
            BY <2>2, <2>8 DEF CacheHit, Answer
        <3> QED
            BY <2>7, <2>8, <3>1 DEF CacheHit, Answer, Fetching, FetchSteps
    <2>9. CASE CacheMiss(p) \/ Sweep(p) \/ MakeTmp(p) \/ Kill(p)
        BY <2>7, <2>9 DEF CacheMiss, Sweep, MakeTmp, Kill, Fetching, FetchSteps
    <2>10. CASE RunCommand(p)
        <3>1. /\ source' = source
              /\ \E c \in Commands :
                    /\ pc[p] = c.at
                    /\ \E where \in {c.next, "traceback", "refused"} : Goto(p, where)
            BY <2>10 DEF RunCommand
        <3>2. \A c \in Commands : c.next # "done"
            BY DEF Commands
        <3> QED
            BY <2>7, <3>1, <3>2, CommandFacts DEF Fetching
    <2>11. CASE Publish(p)
        <3>1. Fetching(p)
            BY <2>11 DEF Publish, Fetching, FetchSteps
        <3>2. CASE tmp # NoTree /\ dest \in {NoTree, {}}
            <4>1. source'[p] = "fetch" /\ \A q \in Procs : q # p => source'[q] = source[q]
                BY <2>2, <2>11, <3>2 DEF Publish, Answer
            <4> QED
                BY <2>7, <2>11, <3>1, <3>2, <4>1 DEF Publish, Answer
        <3>3. CASE ~(tmp # NoTree /\ dest \in {NoTree, {}})
            BY <2>7, <2>11, <3>1, <3>3 DEF Publish
        <3> QED
            BY <3>2, <3>3
    <2> QED
        BY <1>2, <2>3, <2>4, <2>5, <2>6, <2>8, <2>9, <2>10, <2>11 DEF Step
<1> QED
    BY <1>1, <1>2 DEF Next

\* No build runs on a $PATH compiler that the pin rules out, none falls back to the
\* $PATH or to a fetch when the operator named a compiler, and a checkout builds
\* its own package manager unless the operator named another one, whatever any
\* number of processes were started with, overlaps included (resolve).
THEOREM ProvenanceSafe == Spec => []ProvenanceOK
<1>1. ProvenanceInv => ProvenanceOK
    BY DEF ProvenanceInv
<1> QED
    BY <1>1, TypeInit, TypeNext, ProvenanceInit, ProvenanceNext, PTL DEF Spec

\* No step takes a published checkout away or replaces it, not even when fetches
\* overlap: os.replace only ever fills a name that holds nothing (_fetch).
THEOREM CheckoutStays == Spec => PublishedStays
<1>1. [Next]_vars => [LooksLikeSawlang(dest) => dest' = dest]_dest
    <2> SUFFICES ASSUME Next, LooksLikeSawlang(dest) PROVE dest' = dest
        BY DEF vars
    <2>1. PICK p \in Procs : Start(p) \/ Step(p) \/ Kill(p)
        BY DEF Next
    <2>2. CASE Publish(p)
        BY <2>2, TreeFacts DEF Publish
    <2>3. CASE ~Publish(p)
        BY <2>1, <2>3 DEF Step, Start, RefuseInput, ResolveNamed, ResolvePath, ResolveFetch,
                    Refuse, CacheHit, CacheMiss, Sweep, MakeTmp, RunCommand, Kill
    <2> QED
        BY <2>2, <2>3
<1> QED
    BY <1>1, PTL DEF Spec, PublishedStays

=============================================================================
