----------------------------- MODULE Toolchain -----------------------------
(***************************************************************************)
(* The sawlang toolchain resolver (tools/toolchain.py): where the compiler,*)
(* the package manager and the Saw packages a build needs come from.       *)
(*                                                                         *)
(* Several harness processes of one machine share one consumer repository  *)
(* (one sawlang.pin) and one cache directory.  Each process resolves in    *)
(* the order of resolve(): what the operator named, the $PATH, the pinned  *)
(* fetch, a refusal.  The steps before the fetch only read what a process  *)
(* started with, so each of them is one action; the fetch is one action    *)
(* per command, because a process can die between two of them and another  *)
(* process can run its own commands in between.                            *)
(*                                                                         *)
(* A directory of the cache is the set of what its commands have put in    *)
(* it.  git, python and pip are not in this repository; they are modelled  *)
(* by what the resolver needs of them and what they leave behind.          *)
(***************************************************************************)
EXTENDS Naturals

CONSTANTS
    Procs,       \* harness processes of the machine
    Versions,    \* what a `sawc --version` may print
    Setups,      \* what the processes may be started with: [env, pin]
    MaxCrashes,  \* how many processes may be killed in the middle of a fetch
    MaxFails     \* how many commands may return a non-zero status

ASSUME BoundsAssumption == MaxCrashes \in Nat /\ MaxFails \in Nat

VARIABLES
    env,      \* [Procs -> environment]: what each process was started with
    pin,      \* the consumer's sawlang.pin
    pc,       \* [Procs -> where the process is]
    source,   \* [Procs -> which step of resolve() answered]
    tmp,      \* <cache>/<sha>.partial
    dest,     \* <cache>/<sha>
    crashes,  \* processes killed so far
    fails,    \* commands that failed so far
    overlap   \* history: two processes have been inside _fetch at once

vars == <<env, pin, pc, source, tmp, dest, crashes, fails, overlap>>

\* What the commands of _fetch leave in the directory they work on.
Parts == {"git", "remote", "fetched", "sawc.py", "venv", "llvmlite"}

\* A path that names no directory.
NoTree == {"absent"}

Trees == (SUBSET Parts) \cup {NoTree}

\* `_looks_like_sawlang`: the compiler entry point is the marker.
LooksLikeSawlang(tree) == "sawc.py" \in tree

\* A version that is not one: no `sawc` found, or one that would not say.
NoSawc == "no sawc"
Mute == "mute"

\* What an operator may have set up before starting the harness: SAWLANG_ROOT
\* (unset, unset in a repository that is itself a sawlang checkout, naming a
\* checkout, naming something else), SAWC, BLADE, the `sawc` and the `blade`
\* of the $PATH, and whether git and python3 are there.
Environments ==
    [ROOT : {"unset", "here", "checkout", "other"}, SAWC : BOOLEAN, BLADE : BOOLEAN,
     sawc : Versions \cup {NoSawc, Mute}, blade : BOOLEAN, tools : BOOLEAN]

\* The pin as `_read_pin` returns it: no file, a malformed line, or the keys.
NoPin == [file |-> "missing"]
BadPin == [file |-> "malformed"]
Pins == {NoPin, BadPin}
        \cup [file : {"read"}, version : Versions \cup {"unstated"}, sha : BOOLEAN]

ASSUME SetupsAssumption == Setups \subseteq [env : [Procs -> Environments], pin : Pins]

\* Where a process is inside _fetch.
FetchSteps == {"lookup", "sweep", "mkdir", "init", "remote", "fetch",
               "checkout", "venv", "pip", "publish"}

\* How a process ends: with a toolchain, with a ToolchainError, with some other
\* exception, or killed from outside.
Ends == {"done", "refused", "traceback", "killed"}

Fetching(p) == pc[p] \in FetchSteps

-----------------------------------------------------------------------------
\* A checkout to build against: the named one, or the repository itself.
ResolveRoot(e) == e.ROOT \in {"checkout", "here"}

\* Step 1 answers: SAWC names a compiler, or a checkout supplies it.
Named(e) == e.SAWC \/ ResolveRoot(e)

\* Bug: any `sawc` that names its version is good enough.
AnyVersion(e) ==
    pin.file = "read" /\ pin.version # "unstated" => e.sawc # Mute

\* Step 2's check: a pin that states a version is obeyed.
VersionOK(e) ==
    pin.file = "read" /\ pin.version # "unstated" => e.sawc = pin.version

\* The pin names a commit to fetch.
PinHasSha == pin.file = "read" /\ pin.sha

Init ==
    /\ \E s \in Setups : env = s.env /\ pin = s.pin
    /\ pc = [p \in Procs |-> "idle"]
    /\ source = [p \in Procs |-> "none"]
    \* An earlier run may have died anywhere, or have published.
    /\ tmp \in {NoTree, {}, {"git"}, Parts \ {"llvmlite"}}
    /\ dest \in {NoTree, Parts}
    /\ crashes = 0 /\ fails = 0 /\ overlap = FALSE

-----------------------------------------------------------------------------
Goto(p, where) == pc' = [pc EXCEPT ![p] = where]

\* A process that found its toolchain, and which step answered.
Answer(p, step) ==
    /\ Goto(p, "done")
    /\ source' = [source EXCEPT ![p] = step]

\* The harness is started, for the first time or again after an earlier end.
Start(p) ==
    /\ pc[p] \in {"idle"} \cup Ends
    /\ Goto(p, "resolve")
    /\ source' = [source EXCEPT ![p] = "none"]
    /\ UNCHANGED <<env, pin, tmp, dest, crashes, fails, overlap>>

\* A pin nobody can read, or a SAWLANG_ROOT that is no checkout, is refused
\* before any step is tried.
RefuseInput(p) ==
    /\ pc[p] = "resolve"
    /\ pin = BadPin \/ env[p].ROOT = "other"
    /\ Goto(p, "refused")
    /\ source' = [source EXCEPT ![p] = "input"]
    /\ UNCHANGED <<env, pin, tmp, dest, crashes, fails, overlap>>

Resolving(p) ==
    pc[p] = "resolve" /\ pin # BadPin /\ env[p].ROOT # "other"

\* Step 1: what the operator named.  The pin is not consulted.
ResolveNamed(p) ==
    /\ Resolving(p)
    /\ Named(env[p])
    /\ Answer(p, "named")
    /\ UNCHANGED <<env, pin, tmp, dest, crashes, fails, overlap>>

\* Step 2: the $PATH.  A `sawc` of another version than the pin's, or one that
\* will not name its version while the pin states one, is refused.
ResolvePath(p) ==
    /\ Resolving(p)
    /\ ~Named(env[p]) /\ env[p].sawc # NoSawc
    /\ IF VersionOK(env[p])
         THEN Answer(p, "PATH")
         ELSE /\ Goto(p, "refused")
              /\ source' = [source EXCEPT ![p] = "version"]
    /\ UNCHANGED <<env, pin, tmp, dest, crashes, fails, overlap>>

\* Step 3: the pin names a commit; `_fetch` is called.
ResolveFetch(p) ==
    /\ Resolving(p)
    /\ ~Named(env[p]) /\ env[p].sawc = NoSawc /\ PinHasSha
    /\ Goto(p, "lookup")
    /\ overlap' = (overlap \/ \E q \in Procs \ {p} : Fetching(q))
    /\ UNCHANGED <<env, pin, source, tmp, dest, crashes, fails>>

\* Step 4: refuse, naming the three steps and why each did not fire.
Refuse(p) ==
    /\ Resolving(p)
    /\ ~Named(env[p]) /\ env[p].sawc = NoSawc /\ ~PinHasSha
    /\ Goto(p, "refused")
    /\ source' = [source EXCEPT ![p] = "all unset"]
    /\ UNCHANGED <<env, pin, tmp, dest, crashes, fails, overlap>>

-----------------------------------------------------------------------------
(***************************************************************************)
(* _fetch.                                                                 *)
(***************************************************************************)

\* A hit is the steady state.
CacheHit(p) ==
    /\ pc[p] = "lookup"
    /\ LooksLikeSawlang(dest)
    /\ Answer(p, "fetch")
    /\ UNCHANGED <<env, pin, tmp, dest, crashes, fails, overlap>>

\* A miss needs git and python3; the refusal says so.
CacheMiss(p) ==
    /\ pc[p] = "lookup"
    /\ ~LooksLikeSawlang(dest)
    /\ Goto(p, IF env[p].tools THEN "sweep" ELSE "refused")
    /\ UNCHANGED <<env, pin, source, tmp, dest, crashes, fails, overlap>>

\* Bug: the leftover of a fetch that died is not removed first.
KeepLeftover(p) ==
    /\ pc[p] = "sweep"
    /\ Goto(p, "mkdir")
    /\ UNCHANGED <<env, pin, source, tmp, dest, crashes, fails, overlap>>

\* Whatever an earlier fetch left behind is removed.
Sweep(p) ==
    /\ pc[p] = "sweep"
    /\ tmp' = NoTree
    /\ Goto(p, "mkdir")
    /\ UNCHANGED <<env, pin, source, dest, crashes, fails, overlap>>

\* os.makedirs(tmp) insists that the directory is new.
MakeTmp(p) ==
    /\ pc[p] = "mkdir"
    /\ IF tmp = NoTree
         THEN tmp' = {} /\ Goto(p, "init")
         ELSE UNCHANGED tmp /\ Goto(p, "traceback")
    /\ UNCHANGED <<env, pin, source, dest, crashes, fails, overlap>>

\* The commands: [at, what the directory must hold, what is added, the next
\* command, does it start when the directory (or the pip it names) is missing].
Commands ==
    {[at |-> "init",     needs |-> {},          adds |-> "git",      next |-> "remote",   makes |-> TRUE],
     [at |-> "remote",   needs |-> {"git"},     adds |-> "remote",   next |-> "fetch",    makes |-> FALSE],
     [at |-> "fetch",    needs |-> {"remote"},  adds |-> "fetched",  next |-> "checkout", makes |-> FALSE],
     [at |-> "checkout", needs |-> {"fetched"}, adds |-> "sawc.py",  next |-> "venv",     makes |-> FALSE],
     [at |-> "venv",     needs |-> {},          adds |-> "venv",     next |-> "pip",      makes |-> TRUE],
     [at |-> "pip",      needs |-> {"venv"},    adds |-> "llvmlite", next |-> "publish",  makes |-> FALSE]}

\* `git remote add` refuses a remote that is already there; the other commands
\* need what the earlier ones made.
Succeeds(c) ==
    /\ c.needs \subseteq tmp
    /\ c.at = "remote" => "remote" \notin tmp

\* A command that cannot even be started raises OSError, which nothing catches:
\* its working directory, or the pip it names, is not there.
CannotStart(c) ==
    \/ tmp = NoTree /\ ~c.makes
    \/ c.at = "pip" /\ "venv" \notin tmp

\* Bug: the commands work in the cached directory itself.
FetchInPlace(p) ==
    \E c \in Commands :
        /\ pc[p] = c.at
        /\ dest' = (IF dest = NoTree THEN {} ELSE dest) \cup {c.adds}
        /\ IF c.next = "publish" THEN Answer(p, "fetch")
                               ELSE Goto(p, c.next) /\ UNCHANGED source
        /\ UNCHANGED <<env, pin, tmp, crashes, fails, overlap>>

\* One command of _fetch, as `run` drives it.
RunCommand(p) ==
    \E c \in Commands :
        /\ pc[p] = c.at
        /\ \/ /\ ~CannotStart(c) /\ Succeeds(c)
              /\ tmp' = (IF tmp = NoTree THEN {} ELSE tmp) \cup {c.adds}
              /\ Goto(p, c.next)
              /\ UNCHANGED fails
           \/ /\ CannotStart(c)
              /\ Goto(p, "traceback")
              /\ UNCHANGED <<tmp, fails>>
           \* A non-zero status removes the directory and refuses.
           \/ /\ ~CannotStart(c)
              /\ \/ ~Succeeds(c) /\ UNCHANGED fails
                 \/ fails < MaxFails /\ fails' = fails + 1
              /\ tmp' = NoTree
              /\ Goto(p, "refused")
        /\ UNCHANGED <<env, pin, source, dest, crashes, overlap>>

\* os.replace(tmp, dest): a directory that is not empty is not replaced, and a
\* source that is gone is an error; both are OSError, which nothing catches.
Publish(p) ==
    /\ pc[p] = "publish"
    /\ IF tmp # NoTree /\ dest \in {NoTree, {}}
         THEN dest' = tmp /\ tmp' = NoTree /\ Answer(p, "fetch")
         ELSE Goto(p, "traceback") /\ UNCHANGED <<dest, tmp, source>>
    /\ UNCHANGED <<env, pin, crashes, fails, overlap>>

\* A process is killed in the middle of its fetch; killed while it removes the
\* leftover directory, it leaves any part of it.
Kill(p) ==
    /\ Fetching(p)
    /\ crashes < MaxCrashes
    /\ crashes' = crashes + 1
    /\ Goto(p, "killed")
    /\ IF pc[p] = "sweep" /\ tmp # NoTree
         THEN tmp' \in SUBSET tmp
         ELSE UNCHANGED tmp
    /\ UNCHANGED <<env, pin, source, dest, fails, overlap>>

-----------------------------------------------------------------------------
Step(p) ==
    \/ RefuseInput(p) \/ ResolveNamed(p) \/ ResolvePath(p) \/ ResolveFetch(p)
    \/ Refuse(p) \/ CacheHit(p) \/ CacheMiss(p) \/ Sweep(p) \/ MakeTmp(p)
    \/ RunCommand(p) \/ Publish(p)

Next == \E p \in Procs : Start(p) \/ Step(p) \/ Kill(p)

Spec == Init /\ [][Next]_vars

\* A started process keeps running, and an operator whose run failed runs the
\* harness again until it works.
FairSpec ==
    /\ Spec
    /\ \A p \in Procs : WF_vars(Step(p)) /\ SF_vars(pc[p] # "done" /\ Start(p))

-----------------------------------------------------------------------------
\* The fields of the Toolchain a process was handed: does it carry a checkout,
\* and a built `blade` (BLADE, or with a $PATH compiler the $PATH's)?
HasRoot(p) ==
    source[p] = "fetch" \/ (source[p] = "named" /\ ResolveRoot(env[p]))
BladeBinary(p) == env[p].BLADE \/ (source[p] = "PATH" /\ env[p].blade)

TypeOK ==
    /\ env \in [Procs -> Environments]
    /\ pin \in Pins
    /\ pc \in [Procs -> {"idle", "resolve"} \cup FetchSteps \cup Ends]
    /\ source \in [Procs -> {"none", "input", "named", "PATH", "version",
                             "fetch", "all unset"}]
    /\ tmp \in Trees /\ dest \in Trees
    /\ crashes \in 0..MaxCrashes /\ fails \in 0..MaxFails /\ overlap \in BOOLEAN

\* Everything a bootstrapped checkout is made of.
Whole(tree) == tree = Parts

\* As long as no two fetches have overlapped, a directory of the cache that a
\* later run takes for a checkout is a whole one: "a fetch that dies half way
\* leaves nothing a later run can mistake for a complete checkout" (_fetch).
PublishedIsWhole == ~overlap /\ LooksLikeSawlang(dest) => Whole(dest)

\* A process that was handed a fetched toolchain can use it, now and later: its
\* root holds the compiler and the venv it runs in, whatever the other
\* processes of the machine do (_fetch, _sawc_from_root).
FetchedIsUsable ==
    ~overlap =>
        \A p \in Procs : pc[p] = "done" /\ source[p] = "fetch" => Whole(dest)

\* No build runs on a $PATH compiler that the pin rules out, none falls back to
\* the $PATH or to a fetch when the operator named a compiler, and a checkout
\* builds its own package manager unless the operator named another one.
ProvenanceOK ==
    \A p \in Procs : pc[p] = "done" =>
        /\ source[p] = "PATH" /\ pin.file = "read" /\ pin.version # "unstated"
             => env[p].sawc = pin.version
        /\ Named(env[p]) => source[p] = "named"
        /\ HasRoot(p) /\ BladeBinary(p) => env[p].BLADE

\* Nothing but a refusal the operator can read ends a resolution: as long as no
\* two fetches have overlapped, none dies of an exception nobody catches,
\* whatever an earlier one left behind.
NoTraceback == ~overlap => \A p \in Procs : pc[p] # "traceback"

\* A checkout somebody may be compiling from is never taken away or replaced,
\* even when two fetches overlap: os.replace does not replace a directory that
\* holds something.
PublishedStays == [][LooksLikeSawlang(dest) => dest' = dest]_dest

\* A process that needs the pinned fetch and has git and python3 gets its
\* toolchain in the end, however its fetches were interrupted: a leftover
\* directory never wedges the cache, unless two fetches have overlapped.
FetchSucceeds ==
    \A p \in Procs :
        (pc[p] = "lookup" /\ env[p].tools) ~> (pc[p] = "done" \/ overlap)

\* What a fetch leaves in the cache, finished or killed, is whole or is seen to be
\* incomplete, and who is handed it can use it (_fetch).
FetchIsSound == TypeOK /\ PublishedIsWhole /\ FetchedIsUsable /\ NoTraceback

\* The cache serves: nobody's checkout is pulled from under it, and everybody who
\* waits for one gets one (_fetch, resolve).
CacheServes == PublishedStays /\ FetchSucceeds

=============================================================================
