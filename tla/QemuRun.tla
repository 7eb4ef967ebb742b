------------------------------ MODULE QemuRun ------------------------------
(***************************************************************************)
(* Booting cases under QEMU (tools/sos_runner.py: _run_qemu), several at a *)
(* time in one harness process.  What the boots share is the process's     *)
(* table of file descriptors: a descriptor is a number, a number is handed *)
(* out again as soon as it is closed, and a thread that still uses it then *)
(* reaches somebody else's pipe.                                           *)
(*                                                                         *)
(* Each boot has a pipe for the guest's console.  A case with input has a  *)
(* typist thread that writes it byte by byte and closes the write end; a   *)
(* case without holds an empty pipe open until its guest is gone.  The     *)
(* n-th byte of the input of case c is <<c, n>>.                           *)
(*                                                                         *)
(* A new descriptor is the lowest free number, so a number that was closed *)
(* is in use again at the next opening.                                    *)
(***************************************************************************)
EXTENDS Naturals, Sequences, FiniteSets

CONSTANTS
    Cases,   \* the cases being run
    Feed,    \* [Cases -> length of its `stdin`, or Quiet]
    Quiet,   \* the case has no input
    Guest,   \* [Cases -> what its guest does, see GuestKinds]
    Jobs,    \* worker threads
    FDs      \* descriptor numbers

\* A guest halts after it has read its whole input, or may stop at any time;
\* neither has to.
GuestKinds == {"halts", "faults"}

FeedAssumption == Quiet \notin Nat /\ Feed \in [Cases -> Nat \cup {Quiet}]
GuestAssumption == Guest \in [Cases -> GuestKinds]
JobsAssumption == Jobs \in Nat \ {0}
FDsAssumption == FDs \subseteq Nat \ {0}

\* An end of a pipe of some boot, and no end at all.
Ends == [of : Cases, end : {"read", "write", "out"}]
Free == [of |-> "nobody", end |-> "free"]

VARIABLES
    fdtab,         \* [FDs -> what the number stands for]
    pc,            \* [Cases -> where its worker is]
    tpc,           \* [Cases -> where its typist is]
    rfd, wfd, ofd, \* [Cases -> the numbers its threads remember]
    typed,         \* [Cases -> bytes its typist has written]
    buf,           \* [Cases -> bytes in its console pipe]
    guest,         \* [Cases -> the state of its QEMU]
    got,           \* [Cases -> bytes its guest has read]
    eof,           \* [Cases -> its guest has seen the end of its input]
    result         \* [Cases -> what _run_qemu returned]

worker == <<pc, rfd, wfd, ofd, result>>
typist == <<tpc, typed>>
console == <<buf, got, eof>>
vars == <<fdtab, worker, typist, console, guest>>

Fed == {c \in Cases : Feed[c] # Quiet}

\* A remembered number before there is one: the harness's own standard input is
\* never handed out.
NoFd == 0

Init ==
    /\ fdtab = [f \in FDs |-> Free]
    /\ pc = [c \in Cases |-> "idle"]
    /\ tpc = [c \in Cases |-> "none"]
    /\ rfd = [c \in Cases |-> NoFd] /\ wfd = rfd /\ ofd = rfd
    /\ typed = [c \in Cases |-> 0]
    /\ buf = [c \in Cases |-> <<>>] /\ got = buf
    /\ eof = [c \in Cases |-> FALSE]
    /\ guest = [c \in Cases |-> "none"]
    /\ result = [c \in Cases |-> "none"]

-----------------------------------------------------------------------------
Opened(c, end) == [of |-> c, end |-> end]
FreeFds == {f \in FDs : fdtab[f] = Free}
Lowest(S) == {f \in S : \A g \in S : f <= g}
Active == {c \in Cases : pc[c] \notin {"idle", "done", "raised"}}

Goto(c, where) == pc' = [pc EXCEPT ![c] = where]

\* close(f) closes whatever f stands for now; on a free number it fails and
\* changes nothing.
Close(f) == fdtab' = [g \in FDs |-> IF g = f THEN Free ELSE fdtab[g]]

\* A number that is not used again is forgotten.
Forget(numbers, c) == [numbers EXCEPT ![c] = NoFd]

\* A guest that runs holds the read end of its own pipe; the harness may too.
Readable(c) == guest[c] = "runs" \/ \E f \in FDs : fdtab[f] = Opened(c, "read")
Writable(c) == \E f \in FDs : fdtab[f] = Opened(c, "write")

\* os.pipe(), when a worker takes the case.
MakePipe(c) ==
    /\ pc[c] = "idle" /\ Cardinality(Active) < Jobs
    /\ \E r \in Lowest(FreeFds) : \E w \in Lowest(FreeFds \ {r}) :
        /\ fdtab' = [fdtab EXCEPT ![r] = Opened(c, "read"), ![w] = Opened(c, "write")]
        /\ rfd' = [rfd EXCEPT ![c] = r] /\ wfd' = [wfd EXCEPT ![c] = w]
    /\ Goto(c, "spawn")
    /\ UNCHANGED <<ofd, result, typist, console, guest>>

\* Popen: the guest inherits the read end as its standard input and nothing
\* else; the harness gets a descriptor for its output.
Spawn(c) ==
    /\ pc[c] = "spawn"
    /\ \E f \in Lowest(FreeFds) :
        /\ fdtab' = [fdtab EXCEPT ![f] = Opened(c, "out")]
        /\ ofd' = [ofd EXCEPT ![c] = f]
    /\ guest' = [guest EXCEPT ![c] = "runs"]
    /\ Goto(c, IF c \in Fed THEN "hand over" ELSE "wait")
    /\ UNCHANGED <<rfd, wfd, result, typist, console>>

\* Popen raises: there is no guest.  A quiet case goes on to its `finally'; a case
\* with input leaves both ends of its pipe open, and nobody to close them.
SpawnRaises(c) ==
    /\ pc[c] = "spawn"
    /\ result' = [result EXCEPT ![c] = "raised"]
    /\ Goto(c, IF c \in Fed THEN "raised" ELSE "return")
    /\ UNCHANGED <<fdtab, rfd, wfd, ofd, typist, console, guest>>

\* The read end is the guest's alone.
HandOver(c) ==
    /\ pc[c] = "hand over"
    /\ Close(rfd[c]) /\ rfd' = Forget(rfd, c)
    /\ Goto(c, "start")
    /\ UNCHANGED <<wfd, ofd, result, typist, console, guest>>

StartTypist(c) ==
    /\ pc[c] = "start"
    /\ tpc' = [tpc EXCEPT ![c] = "typing"]
    /\ Goto(c, "wait")
    /\ UNCHANGED <<fdtab, rfd, wfd, ofd, result, typed, console, guest>>

-----------------------------------------------------------------------------
(***************************************************************************)
(* The typist.                                                             *)
(***************************************************************************)
Typing(c) == tpc[c] = "typing" /\ typed[c] < Feed[c]

\* os.write puts the byte into the pipe the number stands for now.
Type(c) ==
    /\ Typing(c)
    /\ \E d \in Cases :
        /\ fdtab[wfd[c]] = Opened(d, "write") /\ Readable(d)
        /\ buf' = [buf EXCEPT ![d] = Append(@, <<c, typed[c] + 1>>)]
    /\ typed' = [typed EXCEPT ![c] = @ + 1]
    /\ UNCHANGED <<fdtab, worker, tpc, got, eof, guest>>

\* A pipe nobody reads, or a number that stands for no pipe's write end: the
\* OSError ends the typing.
TypeFails(c) ==
    /\ Typing(c)
    /\ \A d \in Cases : fdtab[wfd[c]] = Opened(d, "write") => ~Readable(d)
    /\ tpc' = [tpc EXCEPT ![c] = "closing"]
    /\ UNCHANGED <<fdtab, worker, typed, console, guest>>

\* The write end is closed by the typist, which owns it.
CloseWrite(c) ==
    /\ \/ tpc[c] = "closing"
       \/ tpc[c] = "typing" /\ typed[c] = Feed[c]
    /\ Close(wfd[c]) /\ wfd' = Forget(wfd, c)
    /\ tpc' = [tpc EXCEPT ![c] = "ended"]
    /\ UNCHANGED <<pc, rfd, ofd, result, typed, console, guest>>

-----------------------------------------------------------------------------
(***************************************************************************)
(* The guest, as far as its console and its end go.                        *)
(***************************************************************************)
GuestReads(c) ==
    /\ guest[c] = "runs" /\ buf[c] # <<>>
    /\ got' = [got EXCEPT ![c] = Append(@, Head(buf[c]))]
    /\ buf' = [buf EXCEPT ![c] = Tail(@)]
    /\ UNCHANGED <<fdtab, worker, typist, eof, guest>>

GuestSeesEnd(c) ==
    /\ guest[c] = "runs" /\ buf[c] = <<>> /\ ~Writable(c) /\ ~eof[c]
    /\ eof' = [eof EXCEPT ![c] = TRUE]
    /\ UNCHANGED <<fdtab, worker, typist, buf, got, guest>>

GuestStops(c) ==
    /\ guest[c] = "runs"
    /\ \/ Guest[c] = "faults"
       \/ Guest[c] = "halts" /\ (c \in Fed => Len(got[c]) >= Feed[c])
    /\ guest' = [guest EXCEPT ![c] = "stopped"]
    /\ UNCHANGED <<fdtab, worker, typist, console>>

-----------------------------------------------------------------------------
(***************************************************************************)
(* The worker waits for its guest.                                         *)
(***************************************************************************)
\* communicate() returns: the guest is gone and its output is read.
Collect(c) ==
    /\ pc[c] = "wait" /\ guest[c] = "stopped"
    /\ result' = [result EXCEPT ![c] = "status"]
    /\ Close(ofd[c]) /\ ofd' = Forget(ofd, c)
    /\ Goto(c, "return")
    /\ UNCHANGED <<rfd, wfd, typist, console, guest>>

\* Bug: a wait that timed out is begun again.
WaitAgain(c) == pc[c] = "wait" /\ UNCHANGED vars

\* QEMU_TIMEOUT_S is over: the guest is a hang, even one that stops just now.
TimeOut(c) ==
    /\ pc[c] = "wait"
    /\ result' = [result EXCEPT ![c] = "timed out"]
    /\ Goto(c, "kill")
    /\ UNCHANGED <<fdtab, rfd, wfd, ofd, typist, console, guest>>

\* kill(), then the second communicate().
Kill(c) ==
    /\ pc[c] = "kill"
    /\ guest' = [guest EXCEPT ![c] = IF @ = "runs" THEN "killed" ELSE @]
    /\ Close(ofd[c]) /\ ofd' = Forget(ofd, c)
    /\ Goto(c, "return")
    /\ UNCHANGED <<rfd, wfd, result, typist, console>>

\* Bug: the worker closes the write end too, to be safe.
CloseTwice(c) ==
    /\ pc[c] = "return" /\ c \in Fed
    /\ Close(wfd[c])
    /\ Goto(c, "done")
    /\ UNCHANGED <<rfd, wfd, ofd, result, typist, console, guest>>

\* A case with input: its typist may still be typing.
ReturnFed(c) ==
    /\ pc[c] = "return" /\ c \in Fed
    /\ Goto(c, "done")
    /\ UNCHANGED <<fdtab, rfd, wfd, ofd, result, typist, console, guest>>

\* A quiet case closes its pipe now that nobody reads it, one end at a time.
CloseQuietRead(c) ==
    /\ pc[c] = "return" /\ c \notin Fed
    /\ Close(rfd[c]) /\ rfd' = Forget(rfd, c)
    /\ Goto(c, "close write")
    /\ UNCHANGED <<wfd, ofd, result, typist, console, guest>>

CloseQuietWrite(c) ==
    /\ pc[c] = "close write"
    /\ Close(wfd[c]) /\ wfd' = Forget(wfd, c)
    /\ Goto(c, "done")
    /\ UNCHANGED <<rfd, ofd, result, typist, console, guest>>

-----------------------------------------------------------------------------
Worker(c) ==
    \/ MakePipe(c) \/ Spawn(c) \/ SpawnRaises(c) \/ HandOver(c) \/ StartTypist(c)
    \/ Collect(c) \/ Kill(c) \/ ReturnFed(c) \/ CloseQuietRead(c) \/ CloseQuietWrite(c)
Typist(c) == Type(c) \/ TypeFails(c) \/ CloseWrite(c)
GuestStep(c) == GuestReads(c) \/ GuestSeesEnd(c) \/ GuestStops(c)

Left(c) == pc[c] \in {"done", "raised"} /\ tpc[c] \in {"none", "ended"}
Over == (\A c \in Cases : Left(c)) /\ UNCHANGED vars

Next ==
    \/ \E c \in Cases : Worker(c) \/ TimeOut(c) \/ Typist(c) \/ GuestStep(c)
    \/ Over

Spec == Init /\ [][Next]_vars

\* The system runs every thread; the deadline passes; a guest may do anything.
FairSpec ==
    /\ Spec
    /\ \A c \in Cases : WF_vars(Worker(c)) /\ WF_vars(TimeOut(c)) /\ WF_vars(Typist(c))

-----------------------------------------------------------------------------
TypeOK ==
    /\ fdtab \in [FDs -> Ends \cup {Free}]
    /\ pc \in [Cases -> {"idle", "spawn", "hand over", "start", "wait", "kill",
                         "return", "close write", "done", "raised"}]
    /\ tpc \in [Cases -> {"none", "typing", "closing", "ended"}]
    /\ rfd \in [Cases -> FDs \cup {NoFd}] /\ wfd \in [Cases -> FDs \cup {NoFd}]
    /\ ofd \in [Cases -> FDs \cup {NoFd}]
    /\ typed \in [Cases -> Nat] /\ \A c \in Fed : typed[c] <= Feed[c]
    /\ buf \in [Cases -> Seq(Cases \X Nat)] /\ got \in [Cases -> Seq(Cases \X Nat)]
    /\ eof \in [Cases -> BOOLEAN]
    /\ guest \in [Cases -> {"none", "runs", "stopped", "killed"}]
    /\ result \in [Cases -> {"none", "status", "timed out", "raised"}]

\* When a thread still has to close or use a descriptor number, or has left with
\* it open because Popen raised.
HoldsRead(c) ==
    \/ pc[c] \in {"spawn", "hand over", "raised"}
    \/ c \notin Fed /\ pc[c] \in {"wait", "kill", "return"}
HoldsWrite(c) ==
    \/ pc[c] \in {"spawn", "hand over", "start", "raised"}
    \/ c \notin Fed /\ pc[c] \in {"wait", "kill", "return", "close write"}
    \/ tpc[c] \in {"typing", "closing"}
HoldsOut(c) == pc[c] \in {"hand over", "start", "wait", "kill"}

\* Every number a thread of the harness still has to use stands for its own end
\* of its own pipe: no close and no write can hit a descriptor that was handed
\* out again (typist: "a second closer would be racing an fd number this
\* process may already have reused").
HeldFdsAreOwn ==
    \A c \in Cases :
        /\ HoldsRead(c) => fdtab[rfd[c]] = Opened(c, "read")
        /\ HoldsWrite(c) => fdtab[wfd[c]] = Opened(c, "write")
        /\ HoldsOut(c) => fdtab[ofd[c]] = Opened(c, "out")

\* A guest's console is its own: it reads the bytes typed for it, in order,
\* sees the end of its input only after the last of them, and never when it has
\* no input (_run_qemu: "the guest's console never sees a byte and never sees
\* an EOF either").
OwnConsole ==
    \A c \in Cases :
        /\ \A i \in DOMAIN got[c] : got[c][i] = <<c, i>>
        /\ eof[c] => c \in Fed /\ Len(got[c]) = Feed[c]

\* Every open descriptor has somebody who will close it, but for the two of a case
\* with input whose Popen raised: a long suite does not run out of them.
NoFdLeak ==
    \A f \in FDs : fdtab[f] # Free =>
        LET c == fdtab[f].of
        IN  \/ HoldsRead(c) /\ rfd[c] = f
            \/ HoldsWrite(c) /\ wfd[c] = f
            \/ HoldsOut(c) /\ ofd[c] = f

\* The console of a boot is its own, from the first descriptor to the last.
ConsoleIsItsOwn == TypeOK /\ HeldFdsAreOwn /\ OwnConsole /\ NoFdLeak

\* Every boot returns or raises, whatever its guest does, every typist ends, and
\* every descriptor comes back but those a raising Popen left.
EverythingReturns ==
    <>[](/\ \A c \in Cases : Left(c)
         /\ \A f \in FDs : fdtab[f] # Free => pc[fdtab[f].of] = "raised")

=============================================================================
