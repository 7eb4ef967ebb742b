---------------------------- MODULE QemuProofs -----------------------------
(***************************************************************************)
(* Proofs about the QEMU driver, for any set of cases, any inputs, any     *)
(* guests, any number of workers and any set of descriptor numbers.        *)
(*                                                                         *)
(* ConsoleIsItsOwn is not inductive: that a write hits its own pipe        *)
(* depends on which thread still holds the number, that on how far the     *)
(* worker and the typist of the case are relative to each other, and the   *)
(* order of the bytes on what is still in the pipe.  ConsoleInv says all   *)
(* three.  All they assume is that an input has a length (FeedAssumption). *)
(***************************************************************************)
EXTENDS QemuRun, TLAPS

\* How far the worker, the typist and the guest of a case are relative to each other.
InStep ==
    \A c \in Cases :
        /\ pc[c] \in {"hand over", "start", "raised"} => c \in Fed
        /\ pc[c] = "close write" => c \notin Fed
        /\ pc[c] \in {"idle", "spawn", "hand over", "start", "raised"} => tpc[c] = "none"
        /\ tpc[c] # "none" => c \in Fed
        /\ c \in Fed /\ pc[c] \in {"wait", "kill", "return", "done"} => tpc[c] # "none"
        /\ guest[c] = "runs" => HoldsOut(c)

\* An end of a pipe is open exactly under the number its holder remembers.
ReadOwned ==
    \A c \in Cases :
        /\ HoldsRead(c) => rfd[c] \in FDs
        /\ \A f \in FDs : fdtab[f] = Opened(c, "read") <=> HoldsRead(c) /\ rfd[c] = f
WriteOwned ==
    \A c \in Cases :
        /\ HoldsWrite(c) => wfd[c] \in FDs
        /\ \A f \in FDs : fdtab[f] = Opened(c, "write") <=> HoldsWrite(c) /\ wfd[c] = f
OutOwned ==
    \A c \in Cases :
        /\ HoldsOut(c) => ofd[c] \in FDs
        /\ \A f \in FDs : fdtab[f] = Opened(c, "out") <=> HoldsOut(c) /\ ofd[c] = f

\* What a case's typist has typed is what its guest has read and what is still in
\* the pipe, in this order; a typist that stops early has lost its guest; and an
\* end of input was seen after the last byte.
BytesCounted(c) == Len(got[c]) + Len(buf[c]) = typed[c]
BytesInOrder(c) ==
    /\ \A i \in 1..Len(got[c]) : got[c][i] = <<c, i>>
    /\ \A i \in 1..Len(buf[c]) : buf[c][i] = <<c, Len(got[c]) + i>>
StoppedEarly(c) ==
    tpc[c] \in {"closing", "ended"} => typed[c] = Feed[c] \/ guest[c] # "runs"
EndAfterAll(c) == eof[c] => c \in Fed /\ Len(got[c]) = Feed[c]
InOrder ==
    \A c \in Cases :
        BytesCounted(c) /\ BytesInOrder(c) /\ StoppedEarly(c) /\ EndAfterAll(c)

ConsoleInv == TypeOK /\ InStep /\ ReadOwned /\ WriteOwned /\ OutOwned /\ InOrder

-----------------------------------------------------------------------------
\* Ends of different pipes, and different ends of one, are different; none is free.
LEMMA OpenedFacts ==
    /\ \A c, d, e1, e2 : Opened(c, e1) = Opened(d, e2) <=> c = d /\ e1 = e2
    /\ \A c, e : e # "free" => Opened(c, e) # Free
    /\ \A c \in Cases : \A e \in {"read", "write", "out"} : Opened(c, e) \in Ends
<1>1. \A c, e : Opened(c, e).of = c /\ Opened(c, e).end = e
    BY DEF Opened
<1>2. Free.end = "free"
    BY DEF Free
<1> QED
    BY <1>1, <1>2 DEF Opened, Ends

\* The steps of one case, and nothing else, change the state.
LEMMA NextCases ==
    ASSUME [Next]_vars
    PROVE  \/ UNCHANGED vars
           \/ \E c \in Cases : \/ MakePipe(c) \/ Spawn(c) \/ HandOver(c) \/ StartTypist(c)
                               \/ Collect(c) \/ Kill(c) \/ ReturnFed(c) \/ CloseQuietRead(c)
                               \/ CloseQuietWrite(c) \/ TimeOut(c) \/ Type(c) \/ TypeFails(c)
                               \/ CloseWrite(c) \/ GuestReads(c) \/ GuestSeesEnd(c)
                               \/ GuestStops(c) \/ SpawnRaises(c)
BY DEF Next, Over, Worker, Typist, GuestStep

LEMMA TypeInit == FeedAssumption /\ Init => TypeOK
<1> SUFFICES ASSUME FeedAssumption, Init PROVE TypeOK
    OBVIOUS
<1>1. \A c \in Fed : Feed[c] \in Nat
    BY DEF FeedAssumption, Fed
<1>2. \A c \in Fed : typed[c] <= Feed[c]
    BY <1>1 DEF Init, Fed
<1> QED
    BY <1>2 DEF Init, TypeOK, NoFd

\* Every step keeps the types of the variables; no typist types more than its input.
LEMMA TypeNext == FeedAssumption /\ TypeOK /\ InStep /\ [Next]_vars => TypeOK'
<1> SUFFICES ASSUME FeedAssumption, TypeOK, InStep, [Next]_vars PROVE TypeOK'
    OBVIOUS
<1>1. CASE UNCHANGED vars
    BY <1>1 DEF vars, worker, typist, console, TypeOK
<1>2. ASSUME NEW f PROVE Close(f) => fdtab' \in [FDs -> Ends \cup {Free}]
    BY DEF Close, TypeOK
<1>3. ASSUME NEW c \in Cases, MakePipe(c) \/ Spawn(c) PROVE TypeOK'
    <2>1. \A S : Lowest(S) \subseteq S
        BY DEF Lowest
    <2>2. FreeFds \subseteq FDs
        BY DEF FreeFds
    <2>3. CASE MakePipe(c)
        <3>1. PICK r \in FDs, w \in FDs :
                 /\ fdtab' = [fdtab EXCEPT ![r] = Opened(c, "read"), ![w] = Opened(c, "write")]
                 /\ rfd' = [rfd EXCEPT ![c] = r] /\ wfd' = [wfd EXCEPT ![c] = w]
            BY <2>1, <2>2, <2>3 DEF MakePipe
        <3>2. fdtab' \in [FDs -> Ends \cup {Free}]
            BY <3>1, OpenedFacts DEF TypeOK
        <3> QED
            BY <2>3, <3>1, <3>2 DEF MakePipe, Goto, typist, console, TypeOK
    <2>4. CASE Spawn(c)
        <3>1. PICK f \in FDs :
                 fdtab' = [fdtab EXCEPT ![f] = Opened(c, "out")] /\ ofd' = [ofd EXCEPT ![c] = f]
            BY <2>1, <2>2, <2>4 DEF Spawn
        <3>2. fdtab' \in [FDs -> Ends \cup {Free}]
            BY <3>1, OpenedFacts DEF TypeOK
        <3> QED
            BY <2>4, <3>1, <3>2 DEF Spawn, Goto, typist, console, TypeOK
    <2> QED
        BY <1>3, <2>3, <2>4
<1>4. ASSUME NEW c \in Cases, \/ HandOver(c) \/ Collect(c) \/ Kill(c) \/ CloseQuietRead(c)
                              \/ CloseQuietWrite(c) \/ CloseWrite(c)
      PROVE  TypeOK'
    <2>1. fdtab' \in [FDs -> Ends \cup {Free}]
        BY <1>2, <1>4 DEF HandOver, Collect, Kill, CloseQuietRead, CloseQuietWrite, CloseWrite
    <2> QED
        BY <1>4, <2>1 DEF HandOver, Collect, Kill, CloseQuietRead, CloseQuietWrite, CloseWrite,
                          Goto, Forget, NoFd, typist, console, TypeOK
<1>5. ASSUME NEW c \in Cases, \/ StartTypist(c) \/ ReturnFed(c) \/ TimeOut(c) \/ TypeFails(c)
                              \/ GuestSeesEnd(c) \/ GuestStops(c) \/ SpawnRaises(c)
      PROVE  TypeOK'
    BY <1>5 DEF SpawnRaises, StartTypist, ReturnFed, TimeOut, TypeFails, GuestSeesEnd, GuestStops,
                Goto, worker, typist, console, TypeOK
<1>6. ASSUME NEW c \in Cases, Type(c) PROVE TypeOK'
    <2>1. c \in Fed /\ Feed[c] \in Nat /\ typed[c] \in Nat /\ typed[c] < Feed[c]
        BY <1>6 DEF Type, Typing, InStep, FeedAssumption, Fed, TypeOK
    <2>2. typed' = [typed EXCEPT ![c] = typed[c] + 1]
        BY <1>6 DEF Type
    <2>0. /\ typed \in [Cases -> Nat] /\ \A d \in Fed : typed[d] <= Feed[d]
          /\ buf \in [Cases -> Seq(Cases \X Nat)]
        BY DEF TypeOK
    <2>3. typed' \in [Cases -> Nat] /\ \A d \in Fed : typed'[d] <= Feed[d]
        BY <2>0, <2>1, <2>2 DEF Fed
    <2>4. PICK d \in Cases : buf' = [buf EXCEPT ![d] = Append(buf[d], <<c, typed[c] + 1>>)]
        BY <1>6 DEF Type
    <2>5. <<c, typed[c] + 1>> \in Cases \X Nat
        BY <2>1
    <2>6. buf' \in [Cases -> Seq(Cases \X Nat)]
        <3>1. Append(buf[d], <<c, typed[c] + 1>>) \in Seq(Cases \X Nat)
            BY <2>0, <2>5
        <3> QED
            BY <2>0, <2>4, <3>1
    <2> QED
        BY <1>6, <2>3, <2>6 DEF Type, worker, TypeOK
<1>7. ASSUME NEW c \in Cases, GuestReads(c) PROVE TypeOK'
    <2>0. buf[c] \in Seq(Cases \X Nat) /\ got[c] \in Seq(Cases \X Nat) /\ buf[c] # <<>>
        BY <1>7 DEF GuestReads, TypeOK
    <2>1. Head(buf[c]) \in Cases \X Nat /\ Tail(buf[c]) \in Seq(Cases \X Nat)
        BY <2>0
    <2>2. Append(got[c], Head(buf[c])) \in Seq(Cases \X Nat)
        BY <2>0, <2>1
    <2>3. got' \in [Cases -> Seq(Cases \X Nat)] /\ buf' \in [Cases -> Seq(Cases \X Nat)]
        BY <1>7, <2>1, <2>2 DEF GuestReads, TypeOK
    <2> QED
        BY <1>7, <2>3 DEF GuestReads, worker, typist, TypeOK
<1> QED
    BY <1>1, <1>3, <1>4, <1>5, <1>6, <1>7, NextCases

-----------------------------------------------------------------------------
\* Worker, typist and guest of a case stay in step with each other.
LEMMA InStepNext == TypeOK /\ InStep /\ [Next]_vars => InStep'
<1> SUFFICES ASSUME TypeOK, InStep, [Next]_vars PROVE InStep'
    OBVIOUS
<1>1. /\ pc \in [Cases -> {"idle", "spawn", "hand over", "start", "wait", "kill",
                           "return", "close write", "done", "raised"}]
      /\ tpc \in [Cases -> {"none", "typing", "closing", "ended"}]
      /\ guest \in [Cases -> {"none", "runs", "stopped", "killed"}]
    BY DEF TypeOK
<1>2. CASE UNCHANGED <<pc, tpc, guest>>
    BY <1>2 DEF InStep, HoldsOut
<1>3. ASSUME NEW c \in Cases, \/ MakePipe(c) \/ Spawn(c) \/ HandOver(c) \/ StartTypist(c)
                              \/ Collect(c) \/ Kill(c) \/ ReturnFed(c) \/ CloseQuietRead(c)
                              \/ CloseQuietWrite(c) \/ TimeOut(c) \/ SpawnRaises(c)
      PROVE  InStep'
    <2> USE <1>1 DEF InStep, HoldsOut, Goto, typist
    <2>1. CASE MakePipe(c)
        BY <2>1 DEF MakePipe
    <2>2. CASE Spawn(c)
        BY <2>2 DEF Spawn
    <2>3. CASE HandOver(c)
        BY <2>3 DEF HandOver
    <2>4. CASE StartTypist(c)
        BY <2>4 DEF StartTypist
    <2>5. CASE Collect(c)
        BY <2>5 DEF Collect
    <2>6. CASE Kill(c)
        BY <2>6 DEF Kill
    <2>7. CASE ReturnFed(c) \/ TimeOut(c)
        BY <2>7 DEF ReturnFed, TimeOut
    <2>8. CASE CloseQuietRead(c) \/ CloseQuietWrite(c)
        BY <2>8 DEF CloseQuietRead, CloseQuietWrite
    <2>9. CASE SpawnRaises(c)
        BY <2>9 DEF SpawnRaises
    <2> QED
        BY <1>3, <2>1, <2>2, <2>3, <2>4, <2>5, <2>6, <2>7, <2>8, <2>9
<1>4. ASSUME NEW c \in Cases, TypeFails(c) \/ CloseWrite(c) PROVE InStep'
    BY <1>1, <1>4 DEF TypeFails, CloseWrite, Typing, InStep, HoldsOut, worker
<1>5. ASSUME NEW c \in Cases, GuestStops(c) PROVE InStep'
    BY <1>1, <1>5 DEF GuestStops, InStep, HoldsOut, worker, typist
<1>6. ASSUME NEW c \in Cases, Type(c) \/ GuestReads(c) \/ GuestSeesEnd(c)
      PROVE  UNCHANGED <<pc, tpc, guest>>
    BY <1>6 DEF Type, GuestReads, GuestSeesEnd, worker, typist
<1> QED
    BY <1>2, <1>3, <1>4, <1>5, <1>6, NextCases DEF vars, worker, typist

-----------------------------------------------------------------------------
\* The three parts about descriptors only depend on the table, on the numbers that
\* are remembered and on who holds what.
OwnedVars == <<fdtab, rfd, wfd, ofd>>
SameHolders ==
    \A c \in Cases : /\ HoldsRead(c)' <=> HoldsRead(c)
                     /\ HoldsWrite(c)' <=> HoldsWrite(c)
                     /\ HoldsOut(c)' <=> HoldsOut(c)

LEMMA OwnedUnchanged ==
    ASSUME ReadOwned, WriteOwned, OutOwned, UNCHANGED OwnedVars, SameHolders
    PROVE  ReadOwned' /\ WriteOwned' /\ OutOwned'
BY DEF ReadOwned, WriteOwned, OutOwned, OwnedVars, SameHolders

\* What close() does to the number of an end that is held: the end is gone, and
\* nothing else is.
LEMMA CloseHeld ==
    ASSUME NEW f \in FDs, NEW c \in Cases, NEW e \in {"read", "write", "out"},
           fdtab[f] = Opened(c, e), Close(f),
           \A g \in FDs : fdtab[g] = Opened(c, e) => g = f
    PROVE  \A g \in FDs : \A d \in Cases : \A e2 \in {"read", "write", "out"} :
               fdtab'[g] = Opened(d, e2) <=> fdtab[g] = Opened(d, e2) /\ ~(d = c /\ e2 = e)
<1> SUFFICES ASSUME NEW g \in FDs, NEW d \in Cases, NEW e2 \in {"read", "write", "out"}
             PROVE  fdtab'[g] = Opened(d, e2) <=> fdtab[g] = Opened(d, e2) /\ ~(d = c /\ e2 = e)
    OBVIOUS
<1>1. fdtab'[g] = IF g = f THEN Free ELSE fdtab[g]
    BY DEF Close
<1>2. Opened(d, e2) # Free
    BY OpenedFacts
<1>3. CASE g = f
    BY <1>1, <1>2, <1>3, OpenedFacts
<1>4. CASE g # f
    BY <1>1, <1>4
<1> QED
    BY <1>3, <1>4

\* Every step keeps the descriptors with their holders.
LEMMA OwnedNext ==
    /\ TypeOK /\ InStep /\ ReadOwned /\ WriteOwned /\ OutOwned
    /\ InStep' /\ [Next]_vars
    => ReadOwned' /\ WriteOwned' /\ OutOwned'
<1> SUFFICES ASSUME TypeOK, InStep, ReadOwned, WriteOwned, OutOwned, InStep', [Next]_vars
             PROVE  ReadOwned' /\ WriteOwned' /\ OutOwned'
    OBVIOUS
<1>1. /\ pc \in [Cases -> {"idle", "spawn", "hand over", "start", "wait", "kill",
                           "return", "close write", "done", "raised"}]
      /\ tpc \in [Cases -> {"none", "typing", "closing", "ended"}]
      /\ rfd \in [Cases -> FDs \cup {NoFd}] /\ wfd \in [Cases -> FDs \cup {NoFd}]
      /\ ofd \in [Cases -> FDs \cup {NoFd}]
      /\ fdtab \in [FDs -> Ends \cup {Free}]
    BY DEF TypeOK
<1>2. CASE UNCHANGED vars
    <2>1. UNCHANGED OwnedVars /\ SameHolders
        BY <1>2 DEF vars, worker, typist, OwnedVars, SameHolders, HoldsRead, HoldsWrite, HoldsOut
    <2> QED
        BY <2>1, OwnedUnchanged
<1>3. ASSUME NEW c \in Cases, MakePipe(c) PROVE ReadOwned' /\ WriteOwned' /\ OutOwned'
    <2>1. PICK r \in FDs, w \in FDs :
             /\ fdtab[r] = Free /\ fdtab[w] = Free /\ r # w
             /\ fdtab' = [fdtab EXCEPT ![r] = Opened(c, "read"), ![w] = Opened(c, "write")]
             /\ rfd' = [rfd EXCEPT ![c] = r] /\ wfd' = [wfd EXCEPT ![c] = w]
        BY <1>3 DEF MakePipe, Lowest, FreeFds
    <2>2. /\ fdtab'[r] = Opened(c, "read") /\ fdtab'[w] = Opened(c, "write")
          /\ \A f \in FDs : f # r /\ f # w => fdtab'[f] = fdtab[f]
        BY <1>1, <2>1
    <2>3. /\ HoldsRead(c)' /\ HoldsWrite(c)' /\ ~HoldsOut(c)'
          /\ ~HoldsRead(c) /\ ~HoldsWrite(c) /\ ~HoldsOut(c)
          /\ ofd' = ofd
        BY <1>1, <1>3 DEF MakePipe, Goto, HoldsRead, HoldsWrite, HoldsOut, InStep, typist
    <2>4. \A d \in Cases : d # c =>
             /\ HoldsRead(d)' <=> HoldsRead(d)
             /\ HoldsWrite(d)' <=> HoldsWrite(d)
             /\ HoldsOut(d)' <=> HoldsOut(d)
             /\ rfd'[d] = rfd[d] /\ wfd'[d] = wfd[d]
        BY <1>1, <1>3, <2>1 DEF MakePipe, Goto, HoldsRead, HoldsWrite, HoldsOut, typist
    <2>5. rfd'[c] = r /\ wfd'[c] = w
        BY <1>1, <2>1
    <2>0. ASSUME NEW f \in FDs, NEW d \in Cases
          PROVE  /\ fdtab'[f] = Opened(d, "read")
                     <=> fdtab[f] = Opened(d, "read") \/ (d = c /\ f = r)
                 /\ fdtab'[f] = Opened(d, "write")
                     <=> fdtab[f] = Opened(d, "write") \/ (d = c /\ f = w)
                 /\ fdtab'[f] = Opened(d, "out") <=> fdtab[f] = Opened(d, "out")
        <3>1. CASE f = r
            BY <2>1, <2>2, <3>1, OpenedFacts
        <3>2. CASE f = w
            BY <2>1, <2>2, <3>2, OpenedFacts
        <3>3. CASE f # r /\ f # w
            BY <2>2, <3>3
        <3> QED
            BY <3>1, <3>2, <3>3
    <2>6. ReadOwned'
        BY <2>0, <2>3, <2>4, <2>5 DEF ReadOwned
    <2>7. WriteOwned'
        BY <2>0, <2>3, <2>4, <2>5 DEF WriteOwned
    <2>8. OutOwned'
        BY <2>0, <2>3, <2>4 DEF OutOwned
    <2> QED
        BY <2>6, <2>7, <2>8
<1>4. ASSUME NEW c \in Cases, Spawn(c) PROVE ReadOwned' /\ WriteOwned' /\ OutOwned'
    <2>1. PICK o \in FDs :
             /\ fdtab[o] = Free
             /\ fdtab' = [fdtab EXCEPT ![o] = Opened(c, "out")]
             /\ ofd' = [ofd EXCEPT ![c] = o]
        BY <1>4 DEF Spawn, Lowest, FreeFds
    <2>2. /\ fdtab'[o] = Opened(c, "out") /\ \A f \in FDs : f # o => fdtab'[f] = fdtab[f]
          /\ ofd'[c] = o /\ \A d \in Cases : d # c => ofd'[d] = ofd[d]
          /\ rfd' = rfd /\ wfd' = wfd
        BY <1>1, <1>4, <2>1 DEF Spawn
    <2>3. HoldsOut(c)' /\ ~HoldsOut(c)
        BY <1>1, <1>4 DEF Spawn, Goto, HoldsOut
    <2>4. \A d \in Cases : d # c => HoldsOut(d)' <=> HoldsOut(d)
        BY <1>1, <1>4 DEF Spawn, Goto, HoldsOut
    <2>5. \A d \in Cases : /\ HoldsRead(d)' <=> HoldsRead(d)
                           /\ HoldsWrite(d)' <=> HoldsWrite(d)
        BY <1>1, <1>4 DEF Spawn, Goto, HoldsRead, HoldsWrite, typist
    <2>6. ReadOwned' /\ WriteOwned'
        BY <2>1, <2>2, <2>5, OpenedFacts DEF ReadOwned, WriteOwned
    <2>7. OutOwned'
        BY <2>1, <2>2, <2>3, <2>4, OpenedFacts DEF OutOwned
    <2> QED
        BY <2>6, <2>7
<1>5. ASSUME NEW c \in Cases, HandOver(c) \/ CloseQuietRead(c)
      PROVE  ReadOwned' /\ WriteOwned' /\ OutOwned'
    <2>1. HoldsRead(c) /\ ~HoldsRead(c)' /\ Close(rfd[c]) /\ UNCHANGED <<wfd, ofd>>
        BY <1>1, <1>5 DEF HandOver, CloseQuietRead, HoldsRead, Goto, InStep
    <2>2. rfd[c] \in FDs /\ fdtab[rfd[c]] = Opened(c, "read")
        BY <2>1 DEF ReadOwned
    <2>3. \A f \in FDs : fdtab[f] = Opened(c, "read") => f = rfd[c]
        BY DEF ReadOwned
    <2>4. \A d \in Cases : /\ d # c => (HoldsRead(d)' <=> HoldsRead(d)) /\ rfd'[d] = rfd[d]
                           /\ HoldsWrite(d)' <=> HoldsWrite(d)
                           /\ HoldsOut(d)' <=> HoldsOut(d)
        BY <1>1, <1>5 DEF HandOver, CloseQuietRead, Forget, HoldsRead, HoldsWrite, HoldsOut, Goto,
                          InStep, typist
    <2>5. \A f \in FDs : \A d \in Cases : \A e \in {"read", "write", "out"} :
             fdtab'[f] = Opened(d, e) <=> fdtab[f] = Opened(d, e) /\ ~(d = c /\ e = "read")
        BY <2>1, <2>2, <2>3, CloseHeld
    <2> QED
        BY <2>1, <2>4, <2>5 DEF ReadOwned, WriteOwned, OutOwned
<1>6. ASSUME NEW c \in Cases, CloseWrite(c) \/ CloseQuietWrite(c)
      PROVE  ReadOwned' /\ WriteOwned' /\ OutOwned'
    <2>1. HoldsWrite(c) /\ ~HoldsWrite(c)' /\ Close(wfd[c]) /\ UNCHANGED <<rfd, ofd>>
        BY <1>1, <1>6 DEF CloseWrite, CloseQuietWrite, HoldsWrite, Goto, InStep, typist
    <2>2. wfd[c] \in FDs /\ fdtab[wfd[c]] = Opened(c, "write")
        BY <2>1 DEF WriteOwned
    <2>3. \A f \in FDs : fdtab[f] = Opened(c, "write") => f = wfd[c]
        BY DEF WriteOwned
    <2>4. \A d \in Cases : /\ d # c => (HoldsWrite(d)' <=> HoldsWrite(d)) /\ wfd'[d] = wfd[d]
                           /\ HoldsRead(d)' <=> HoldsRead(d)
                           /\ HoldsOut(d)' <=> HoldsOut(d)
        BY <1>1, <1>6 DEF CloseWrite, CloseQuietWrite, Forget, HoldsRead, HoldsWrite, HoldsOut, Goto,
                          InStep, typist
    <2>5. \A f \in FDs : \A d \in Cases : \A e \in {"read", "write", "out"} :
             fdtab'[f] = Opened(d, e) <=> fdtab[f] = Opened(d, e) /\ ~(d = c /\ e = "write")
        BY <2>1, <2>2, <2>3, CloseHeld
    <2> QED
        BY <2>1, <2>4, <2>5 DEF ReadOwned, WriteOwned, OutOwned
<1>7. ASSUME NEW c \in Cases, Collect(c) \/ Kill(c)
      PROVE  ReadOwned' /\ WriteOwned' /\ OutOwned'
    <2>1. HoldsOut(c) /\ ~HoldsOut(c)' /\ Close(ofd[c]) /\ UNCHANGED <<rfd, wfd>>
        BY <1>1, <1>7 DEF Collect, Kill, HoldsOut, Goto
    <2>2. ofd[c] \in FDs /\ fdtab[ofd[c]] = Opened(c, "out")
        BY <2>1 DEF OutOwned
    <2>3. \A f \in FDs : fdtab[f] = Opened(c, "out") => f = ofd[c]
        BY DEF OutOwned
    <2>4. \A d \in Cases : /\ d # c => (HoldsOut(d)' <=> HoldsOut(d)) /\ ofd'[d] = ofd[d]
                           /\ HoldsRead(d)' <=> HoldsRead(d)
                           /\ HoldsWrite(d)' <=> HoldsWrite(d)
        BY <1>1, <1>7 DEF Collect, Kill, Forget, HoldsRead, HoldsWrite, HoldsOut, Goto, typist
    <2>5. \A f \in FDs : \A d \in Cases : \A e \in {"read", "write", "out"} :
             fdtab'[f] = Opened(d, e) <=> fdtab[f] = Opened(d, e) /\ ~(d = c /\ e = "out")
        BY <2>1, <2>2, <2>3, CloseHeld
    <2> QED
        BY <2>1, <2>4, <2>5 DEF ReadOwned, WriteOwned, OutOwned
<1>8. ASSUME NEW c \in Cases, \/ StartTypist(c) \/ ReturnFed(c) \/ TimeOut(c) \/ Type(c)
                              \/ TypeFails(c) \/ GuestReads(c) \/ GuestSeesEnd(c) \/ GuestStops(c)
      PROVE  ReadOwned' /\ WriteOwned' /\ OutOwned'
    <2>1. UNCHANGED OwnedVars
        BY <1>8 DEF StartTypist, ReturnFed, TimeOut, Type, TypeFails, GuestReads, GuestSeesEnd,
                    GuestStops, worker, OwnedVars
    <2>2. SameHolders
      <3>1. CASE StartTypist(c)
        <4>1. c \in Fed /\ pc[c] = "start" /\ pc'[c] = "wait" /\ tpc'[c] = "typing"
            BY <1>1, <3>1 DEF StartTypist, Goto, InStep
        <4>2. \A d \in Cases : d # c => pc'[d] = pc[d] /\ tpc'[d] = tpc[d]
            BY <1>1, <3>1 DEF StartTypist, Goto
        <4>3. \A d \in Cases : d # c => /\ HoldsRead(d)' <=> HoldsRead(d)
                                        /\ HoldsWrite(d)' <=> HoldsWrite(d)
                                        /\ HoldsOut(d)' <=> HoldsOut(d)
            BY <4>2 DEF HoldsRead, HoldsWrite, HoldsOut
        <4>4. /\ HoldsRead(c)' <=> HoldsRead(c)
              /\ HoldsWrite(c)' <=> HoldsWrite(c)
              /\ HoldsOut(c)' <=> HoldsOut(c)
            BY <4>1 DEF HoldsRead, HoldsWrite, HoldsOut
        <4> QED
            BY <4>3, <4>4 DEF SameHolders
      <3>2. CASE ReturnFed(c) \/ TimeOut(c)
            BY <1>1, <3>2 DEF ReturnFed, TimeOut, typist, Goto, InStep,
                              SameHolders, HoldsRead, HoldsWrite, HoldsOut
      <3>3. CASE TypeFails(c)
            BY <1>1, <3>3 DEF TypeFails, Typing, worker, SameHolders, HoldsRead, HoldsWrite,
                              HoldsOut
      <3>4. CASE Type(c) \/ GuestReads(c) \/ GuestSeesEnd(c) \/ GuestStops(c)
        <4>1. pc' = pc /\ tpc' = tpc
            BY <3>4 DEF Type, GuestReads, GuestSeesEnd, GuestStops, worker, typist
        <4> QED
            BY <4>1 DEF SameHolders, HoldsRead, HoldsWrite, HoldsOut
      <3> QED
        BY <1>8, <3>1, <3>2, <3>3, <3>4
    <2> QED
        BY <2>1, <2>2, OwnedUnchanged
<1>9. ASSUME NEW c \in Cases, SpawnRaises(c) PROVE ReadOwned' /\ WriteOwned' /\ OutOwned'
    <2>1. UNCHANGED OwnedVars
        BY <1>9 DEF SpawnRaises, OwnedVars
    <2>2. tpc' = tpc /\ pc[c] = "spawn" /\ \A d \in Cases : d # c => pc'[d] = pc[d]
        BY <1>1, <1>9 DEF SpawnRaises, Goto, typist
    <2>3. c \in Fed => pc'[c] = "raised"
        BY <1>1, <1>9 DEF SpawnRaises, Goto
    <2>4. c \notin Fed => pc'[c] = "return"
        BY <1>1, <1>9 DEF SpawnRaises, Goto
    <2>5. HoldsRead(c) /\ HoldsWrite(c) /\ ~HoldsOut(c)
        BY <2>2 DEF HoldsRead, HoldsWrite, HoldsOut
    <2>6. HoldsRead(c)' /\ HoldsWrite(c)' /\ ~HoldsOut(c)'
        BY <2>3, <2>4 DEF HoldsRead, HoldsWrite, HoldsOut
    <2>7. \A d \in Cases : d # c =>
             /\ HoldsRead(d)' <=> HoldsRead(d)
             /\ HoldsWrite(d)' <=> HoldsWrite(d)
             /\ HoldsOut(d)' <=> HoldsOut(d)
        BY <2>2 DEF HoldsRead, HoldsWrite, HoldsOut
    <2> QED
        BY <2>1, <2>5, <2>6, <2>7, OwnedUnchanged DEF SameHolders
<1> QED
    BY <1>2, <1>3, <1>4, <1>5, <1>6, <1>7, <1>8, <1>9, NextCases

-----------------------------------------------------------------------------
\* What the proof below needs to know of the numbers of bytes read, in the pipe and
\* typed.
LEMMA Counts ==
    ASSUME NEW g \in Nat, NEW b \in Nat, NEW t \in Nat, g + b = t
    PROVE  /\ t + 1 = g + (b + 1)
           /\ b >= 1 => (g + 1) + (b - 1) = t /\ g < t
           /\ \A n \in Nat : g = n => ~(t < n)
           /\ \A i \in Nat : g + (i + 1) = (g + 1) + i
OBVIOUS
LEMMA CountsLast ==
    ASSUME NEW g \in Nat, NEW b \in Nat, NEW t \in Nat, NEW n \in Nat, g + b = t, t <= n, b >= 1
    PROVE  g # n
OBVIOUS

\* The bytes of a console keep their order, and its end comes after them.
LEMMA InOrderNext ==
    /\ FeedAssumption /\ TypeOK /\ InStep /\ WriteOwned /\ InOrder /\ [Next]_vars => InOrder'
<1> SUFFICES ASSUME FeedAssumption, TypeOK, InStep, WriteOwned, InOrder, [Next]_vars
             PROVE  InOrder'
    OBVIOUS
<1>1. /\ pc \in [Cases -> {"idle", "spawn", "hand over", "start", "wait", "kill",
                           "return", "close write", "done", "raised"}]
      /\ tpc \in [Cases -> {"none", "typing", "closing", "ended"}]
      /\ guest \in [Cases -> {"none", "runs", "stopped", "killed"}]
      /\ typed \in [Cases -> Nat] /\ \A c \in Fed : typed[c] <= Feed[c]
      /\ buf \in [Cases -> Seq(Cases \X Nat)] /\ got \in [Cases -> Seq(Cases \X Nat)]
      /\ eof \in [Cases -> BOOLEAN]
    BY DEF TypeOK
<1>2. \A c \in Fed : Feed[c] \in Nat
    BY DEF FeedAssumption, Fed
<1>3. \A c \in Cases : /\ buf[c] \in Seq(Cases \X Nat) /\ got[c] \in Seq(Cases \X Nat)
                       /\ Len(buf[c]) \in Nat /\ Len(got[c]) \in Nat /\ typed[c] \in Nat
    <2> SUFFICES ASSUME NEW c \in Cases
                 PROVE  /\ buf[c] \in Seq(Cases \X Nat) /\ got[c] \in Seq(Cases \X Nat)
                        /\ Len(buf[c]) \in Nat /\ Len(got[c]) \in Nat /\ typed[c] \in Nat
        OBVIOUS
    <2>1. buf[c] \in Seq(Cases \X Nat) /\ got[c] \in Seq(Cases \X Nat) /\ typed[c] \in Nat
        BY <1>1
    <2> QED
        BY <2>1
\* Nothing but the guest's end and the typist's progress changes.
<1>4. ASSUME UNCHANGED <<typed, buf, got, eof>>, \A c \in Cases : StoppedEarly(c)'
      PROVE  InOrder'
    BY <1>4 DEF InOrder, BytesCounted, BytesInOrder, EndAfterAll
<1>5. CASE UNCHANGED vars
    BY <1>5 DEF vars, worker, typist, console, InOrder, BytesCounted, BytesInOrder, StoppedEarly, EndAfterAll
<1>6. ASSUME NEW c \in Cases, \/ MakePipe(c) \/ Spawn(c) \/ HandOver(c) \/ StartTypist(c)
                              \/ Collect(c) \/ Kill(c) \/ ReturnFed(c) \/ CloseQuietRead(c)
                              \/ CloseQuietWrite(c) \/ TimeOut(c) \/ GuestStops(c)
                              \/ SpawnRaises(c)
      PROVE  InOrder'
    <2>1. UNCHANGED <<typed, buf, got, eof>>
        BY <1>6 DEF MakePipe, Spawn, HandOver, StartTypist, Collect, Kill, ReturnFed, TimeOut,
                    CloseQuietRead, CloseQuietWrite, GuestStops, SpawnRaises, typist, console
    <2>2. CASE Spawn(c)
        BY <1>1, <1>4, <2>1, <2>2 DEF Spawn, typist, InStep, InOrder, StoppedEarly
    <2>3. CASE StartTypist(c)
        BY <1>1, <1>4, <2>1, <2>3 DEF StartTypist, InOrder, StoppedEarly
    <2>4. CASE ~Spawn(c) /\ ~StartTypist(c)
        <3>1. tpc' = tpc /\ \A d \in Cases : guest'[d] = "runs" => guest[d] = "runs"
            BY <1>1, <1>6, <2>4 DEF MakePipe, HandOver, Collect, Kill, ReturnFed, TimeOut,
                        CloseQuietRead, CloseQuietWrite, GuestStops, SpawnRaises, typist
        <3> QED
            BY <1>4, <2>1, <3>1 DEF InOrder, StoppedEarly
    <2> QED
        BY <2>2, <2>3, <2>4
<1>7. ASSUME NEW c \in Cases, TypeFails(c) PROVE InOrder'
    <2>1. fdtab[wfd[c]] = Opened(c, "write")
        BY <1>7 DEF TypeFails, Typing, WriteOwned, HoldsWrite
    <2>2. guest[c] # "runs"
        BY <1>7, <2>1 DEF TypeFails, Readable
    <2>3. UNCHANGED <<typed, buf, got, eof, guest>>
        BY <1>7 DEF TypeFails, console
    <2>4. \A d \in Cases : d # c => tpc'[d] = tpc[d]
        BY <1>1, <1>7 DEF TypeFails
    <2> QED
        BY <1>4, <2>2, <2>3, <2>4 DEF InOrder, StoppedEarly
<1>8. ASSUME NEW c \in Cases, CloseWrite(c) PROVE InOrder'
    <2>1. UNCHANGED <<typed, buf, got, eof, guest>>
        BY <1>8 DEF CloseWrite, console
    <2>2. \A d \in Cases : d # c => tpc'[d] = tpc[d]
        BY <1>1, <1>8 DEF CloseWrite
    <2>3. tpc[c] = "closing" \/ typed[c] = Feed[c]
        BY <1>8 DEF CloseWrite
    <2> QED
        BY <1>4, <2>1, <2>2, <2>3 DEF InOrder, StoppedEarly
<1>9. ASSUME NEW c \in Cases, Type(c) PROVE InOrder'
    <2>1. c \in Fed /\ Feed[c] \in Nat /\ typed[c] < Feed[c] /\ tpc[c] = "typing"
        BY <1>2, <1>9 DEF Type, Typing, InStep
    <2>2. fdtab[wfd[c]] = Opened(c, "write")
        BY <2>1 DEF WriteOwned, HoldsWrite
    <2>3. buf' = [buf EXCEPT ![c] = Append(buf[c], <<c, typed[c] + 1>>)]
        <3>1. PICK d \in Cases : /\ fdtab[wfd[c]] = Opened(d, "write")
                                 /\ buf' = [buf EXCEPT ![d] = Append(buf[d], <<c, typed[c] + 1>>)]
            BY <1>9 DEF Type
        <3>2. d = c
            BY <2>2, <3>1, OpenedFacts
        <3> QED
            BY <3>1, <3>2
    <2>4. /\ typed' = [typed EXCEPT ![c] = typed[c] + 1]
          /\ UNCHANGED <<got, eof, tpc, guest>>
        BY <1>9 DEF Type
    <2>5. /\ typed'[c] = typed[c] + 1 /\ buf'[c] = Append(buf[c], <<c, typed[c] + 1>>)
          /\ \A d \in Cases : d # c => typed'[d] = typed[d] /\ buf'[d] = buf[d]
        BY <1>1, <2>3, <2>4
    <2>6. /\ BytesCounted(c) /\ BytesInOrder(c) /\ EndAfterAll(c)
          /\ Len(buf[c]) \in Nat /\ Len(got[c]) \in Nat /\ typed[c] \in Nat
          /\ buf[c] \in Seq(Cases \X Nat)
        BY <1>3 DEF InOrder
    <2>7. BytesInOrder(c)' /\ BytesCounted(c)'
        <3>1. Len(buf'[c]) = Len(buf[c]) + 1
            BY <2>5, <2>6
        <3>2. ASSUME NEW i \in 1..Len(buf'[c]) PROVE buf'[c][i] = <<c, Len(got[c]) + i>>
            <4>1. CASE i \in 1..Len(buf[c])
                <5>1. buf'[c][i] = buf[c][i]
                    BY <1>3, <2>5, <4>1
                <5> QED
                    BY <2>6, <4>1, <5>1 DEF BytesInOrder
            <4>2. CASE i = Len(buf[c]) + 1
                <5>1. buf'[c][i] = <<c, typed[c] + 1>>
                    BY <1>3, <2>5, <4>2
                <5>2. typed[c] + 1 = Len(got[c]) + i
                    BY <2>6, <4>2, Counts DEF BytesCounted
                <5> QED
                    BY <5>1, <5>2
            <4> QED
                BY <1>3, <3>1, <4>1, <4>2
        <3>3. Len(got[c]) + Len(buf'[c]) = typed'[c]
            <4>1. typed[c] + 1 = Len(got[c]) + (Len(buf[c]) + 1)
                BY <2>6, Counts DEF BytesCounted
            <4> QED
                BY <2>5, <3>1, <4>1
        <3> QED
            BY <2>4, <2>6, <3>2, <3>3 DEF BytesInOrder, BytesCounted
    <2>8. ~eof[c]
        <3>1. Len(got[c]) # Feed[c]
            BY <2>1, <2>6, Counts DEF BytesCounted
        <3> QED
            BY <2>6, <3>1 DEF EndAfterAll
    <2>9. \A d \in Cases : d # c => BytesInOrder(d)' /\ BytesCounted(d)'
        <3>1. \A d \in Cases : d # c => BytesCounted(d)'
            BY <2>4, <2>5 DEF InOrder, BytesCounted
        <3>2. \A d \in Cases : d # c => BytesInOrder(d)'
            BY <2>4, <2>5 DEF InOrder, BytesInOrder
        <3> QED
            BY <3>1, <3>2
    <2>10. \A d \in Cases : StoppedEarly(d)' /\ EndAfterAll(d)'
        BY <2>1, <2>4, <2>5, <2>8 DEF InOrder, StoppedEarly, EndAfterAll
    <2> QED
        BY <2>7, <2>9, <2>10 DEF InOrder
<1>10. ASSUME NEW c \in Cases, GuestReads(c) PROVE InOrder'
    <2>1. /\ buf[c] # <<>>
          /\ got' = [got EXCEPT ![c] = Append(got[c], Head(buf[c]))]
          /\ buf' = [buf EXCEPT ![c] = Tail(buf[c])]
          /\ UNCHANGED <<typed, tpc, eof, guest>>
        BY <1>10 DEF GuestReads, typist
    <2>2. /\ got'[c] = Append(got[c], Head(buf[c])) /\ buf'[c] = Tail(buf[c])
          /\ \A d \in Cases : d # c => got'[d] = got[d] /\ buf'[d] = buf[d]
        BY <1>1, <2>1
    <2>3. /\ BytesCounted(c) /\ BytesInOrder(c) /\ EndAfterAll(c)
          /\ Len(buf[c]) \in Nat /\ Len(got[c]) \in Nat /\ typed[c] \in Nat
          /\ buf[c] \in Seq(Cases \X Nat) /\ got[c] \in Seq(Cases \X Nat)
        BY <1>3 DEF InOrder
    <2>4. /\ Len(buf[c]) >= 1 /\ Len(buf'[c]) = Len(buf[c]) - 1
          /\ Len(got'[c]) = Len(got[c]) + 1
        <3>1. Len(buf[c]) >= 1 /\ Len(Tail(buf[c])) = Len(buf[c]) - 1
            BY <2>1, <2>3
        <3>2. Head(buf[c]) \in Cases \X Nat
            BY <2>1, <2>3
        <3>3. Len(Append(got[c], Head(buf[c]))) = Len(got[c]) + 1
            BY <2>3, <3>2
        <3> QED
            BY <2>2, <3>1, <3>3
    <2>5. Head(buf[c]) = <<c, Len(got[c]) + 1>>
        <3>1. Head(buf[c]) = buf[c][1]
            BY <1>3, <2>1
        <3>2. 1 \in 1..Len(buf[c])
            BY <1>3, <2>4
        <3> QED
            BY <2>3, <3>1, <3>2 DEF BytesInOrder
    <2>6. ASSUME NEW i \in 1..Len(got'[c]) PROVE got'[c][i] = <<c, i>>
        <3>1. CASE i \in 1..Len(got[c])
            <4>1. got'[c][i] = got[c][i]
                BY <1>3, <2>2, <3>1
            <4> QED
                BY <2>3, <3>1, <4>1 DEF BytesInOrder
        <3>2. CASE i = Len(got[c]) + 1
            BY <1>3, <2>2, <2>5, <3>2
        <3> QED
            BY <1>3, <2>4, <3>1, <3>2
    <2>7. ASSUME NEW i \in 1..Len(buf'[c]) PROVE buf'[c][i] = <<c, Len(got'[c]) + i>>
        <3>1. i + 1 \in 1..Len(buf[c]) /\ Len(got[c]) + (i + 1) = Len(got'[c]) + i
            <4>1. i \in Nat /\ 1 <= i /\ i <= Len(buf'[c])
                <5>1. Len(buf'[c]) \in Nat
                    BY <2>3, <2>4
                <5> QED
                    BY <5>1
            <4>2. i + 1 \in 1..Len(buf[c])
                BY <2>3, <2>4, <4>1
            <4>3. Len(got[c]) + (i + 1) = (Len(got[c]) + 1) + i
                BY <2>3, <4>1, Counts DEF BytesCounted
            <4> QED
                BY <2>4, <4>2, <4>3
        <3>2. buf'[c][i] = buf[c][i + 1]
            BY <1>3, <2>1, <2>2, <2>4
        <3> QED
            BY <2>3, <3>1, <3>2 DEF BytesInOrder
    <2>8. BytesInOrder(c)' /\ BytesCounted(c)'
        <3>1. Len(got'[c]) + Len(buf'[c]) = typed'[c]
            <4>1. (Len(got[c]) + 1) + (Len(buf[c]) - 1) = typed[c]
                BY <2>3, <2>4, Counts DEF BytesCounted
            <4> QED
                BY <2>1, <2>4, <4>1
        <3> QED
            BY <2>6, <2>7, <3>1 DEF BytesInOrder, BytesCounted
    <2>9. ~eof[c]
        <3>1. c \in Fed => Len(got[c]) # Feed[c]
            <4> SUFFICES ASSUME c \in Fed PROVE Len(got[c]) # Feed[c]
                OBVIOUS
            <4>1. typed[c] <= Feed[c] /\ Feed[c] \in Nat
                BY <1>1, <1>2
            <4>2. Len(got[c]) + Len(buf[c]) = typed[c]
                BY <2>3 DEF BytesCounted
            <4> QED
                BY <2>3, <2>4, <4>1, <4>2, CountsLast
        <3> QED
            BY <2>3, <3>1 DEF EndAfterAll
    <2>10. \A d \in Cases : d # c => BytesInOrder(d)' /\ BytesCounted(d)'
        <3>1. \A d \in Cases : d # c => BytesCounted(d)'
            BY <2>1, <2>2 DEF InOrder, BytesCounted
        <3>2. \A d \in Cases : d # c => BytesInOrder(d)'
            BY <2>1, <2>2 DEF InOrder, BytesInOrder
        <3> QED
            BY <3>1, <3>2
    <2>11. \A d \in Cases : StoppedEarly(d)' /\ EndAfterAll(d)'
        BY <2>1, <2>2, <2>9 DEF InOrder, StoppedEarly, EndAfterAll
    <2> QED
        BY <2>8, <2>10, <2>11 DEF InOrder
<1>11. ASSUME NEW c \in Cases, GuestSeesEnd(c) PROVE InOrder'
    <2>1. /\ guest[c] = "runs" /\ buf[c] = <<>> /\ ~Writable(c)
          /\ eof' = [eof EXCEPT ![c] = TRUE]
          /\ UNCHANGED <<typed, tpc, buf, got, guest>>
        BY <1>11 DEF GuestSeesEnd, typist
    <2>2. ~HoldsWrite(c)
        BY <2>1 DEF Writable, WriteOwned
    <2>3. c \in Fed /\ tpc[c] = "ended"
        BY <1>1, <2>1, <2>2 DEF InStep, HoldsOut, HoldsWrite
    <2>4. typed[c] = Feed[c]
        BY <2>1, <2>3 DEF InOrder, StoppedEarly
    <2>5. Len(got[c]) = Feed[c]
        <3>1. BytesCounted(c) /\ Len(got[c]) \in Nat /\ Len(buf[c]) = 0
            BY <1>3, <2>1 DEF InOrder
        <3> QED
            BY <2>4, <3>1 DEF BytesCounted
    <2>6. \A d \in Cases : d # c => eof'[d] = eof[d]
        BY <1>1, <2>1
    <2> QED
        BY <2>1, <2>3, <2>5, <2>6 DEF InOrder, BytesCounted, BytesInOrder, StoppedEarly, EndAfterAll
<1> QED
    BY <1>5, <1>6, <1>7, <1>8, <1>9, <1>10, <1>11, NextCases

-----------------------------------------------------------------------------
LEMMA ConsoleInit == FeedAssumption /\ Init => ConsoleInv
<1> SUFFICES ASSUME FeedAssumption, Init PROVE ConsoleInv
    OBVIOUS
<1>1. \A c \in Cases : pc[c] = "idle" /\ tpc[c] = "none" /\ guest[c] = "none"
    BY DEF Init
<1>2. InStep
    BY <1>1 DEF InStep
<1>3. \A c \in Cases : ~HoldsRead(c) /\ ~HoldsWrite(c) /\ ~HoldsOut(c)
    BY <1>1 DEF HoldsRead, HoldsWrite, HoldsOut
<1>4. ReadOwned /\ WriteOwned /\ OutOwned
    BY <1>3, OpenedFacts DEF Init, ReadOwned, WriteOwned, OutOwned
<1>5. InOrder
    BY <1>1 DEF Init, InOrder, BytesCounted, BytesInOrder, StoppedEarly, EndAfterAll
<1> QED
    BY <1>2, <1>4, <1>5, TypeInit DEF ConsoleInv

LEMMA ConsoleNext == FeedAssumption /\ ConsoleInv /\ [Next]_vars => ConsoleInv'
BY TypeNext, InStepNext, OwnedNext, InOrderNext DEF ConsoleInv

\* Who holds which descriptor, and what a guest reads, follow from the invariant.
LEMMA ConsoleImplies == ConsoleInv => ConsoleIsItsOwn
<1> SUFFICES ASSUME ConsoleInv PROVE ConsoleIsItsOwn
    OBVIOUS
<1>1. HeldFdsAreOwn
    BY DEF ConsoleInv, ReadOwned, WriteOwned, OutOwned, HeldFdsAreOwn
<1>2. OwnConsole
    <2>1. ASSUME NEW c \in Cases PROVE DOMAIN got[c] = 1..Len(got[c])
        <3>1. got[c] \in Seq(Cases \X Nat)
            BY DEF ConsoleInv, TypeOK
        <3> QED
            BY <3>1
    <2> QED
        BY <2>1 DEF ConsoleInv, InOrder, BytesCounted, BytesInOrder, EndAfterAll, OwnConsole
<1>3. ASSUME NEW f \in FDs, fdtab[f] # Free
      PROVE  LET c == fdtab[f].of
             IN  \/ HoldsRead(c) /\ rfd[c] = f
                 \/ HoldsWrite(c) /\ wfd[c] = f
                 \/ HoldsOut(c) /\ ofd[c] = f
    <2>1. fdtab[f] \in Ends
        BY <1>3 DEF ConsoleInv, TypeOK
    <2>2. PICK c \in Cases, e \in {"read", "write", "out"} : fdtab[f] = Opened(c, e)
        BY <2>1 DEF Ends, Opened
    <2>3. fdtab[f].of = c
        BY <2>2 DEF Opened
    <2> QED
        BY <2>2, <2>3 DEF ConsoleInv, ReadOwned, WriteOwned, OutOwned
<1> QED
    BY <1>1, <1>2, <1>3 DEF ConsoleIsItsOwn, NoFdLeak, ConsoleInv

\* For any cases, inputs, guests, workers and descriptor numbers: every number a
\* thread of the harness still has to use stands for its own end of its own pipe,
\* however the numbers are reused; a guest reads the bytes typed for it, in order,
\* and the end of its input only after the last; every open descriptor has a thread
\* that will close it, or a Popen that raised left it (_run_qemu and its typist).
THEOREM ConsoleSafe == FeedAssumption => (Spec => []ConsoleIsItsOwn)
<1> SUFFICES ASSUME FeedAssumption PROVE Spec => []ConsoleIsItsOwn
    OBVIOUS
<1>1. Init => ConsoleInv
    BY ConsoleInit
<1>2. ConsoleInv /\ [Next]_vars => ConsoleInv'
    BY ConsoleNext
<1> QED
    BY <1>1, <1>2, ConsoleImplies, PTL DEF Spec

=============================================================================
