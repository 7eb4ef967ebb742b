---------------------------- MODULE PoolContract ----------------------------
(***************************************************************************)
(* What the memory pools promise of one grain of memory: it is at home in  *)
(* its pool, with one holder, in a kernel slab, or lost, and moves between *)
(* those places a whole region at a time.                                  *)
(***************************************************************************)
EXTENDS Integers

CONSTANTS Grain,  \* the grains
          Holder, \* the regions that can be lent grains, each a place
          Pool,   \* the pools: a partition of the grains
          Home, Kernel, Lost \* where a grain without a holder can be

VARIABLE place \* of each grain: Home, its holder, Kernel or Lost

Of(x) == {c \in Grain : place[c] = x}

Move(C, x) == place' = [c \in Grain |-> IF c \in C THEN x ELSE place[c]]

\* An operation that moves no grain.
Stay == UNCHANGED place

\* A run of grains goes to a holder that has none, out of the pool or out of
\* the hands of the one holder who gives them up.
Lend(from, C) ==
  /\ C # {}
  /\ C \subseteq Of(from)
  /\ \E p \in Pool : C \subseteq p
  /\ \E x \in Holder : Of(x) = {} /\ Move(C, x)

\* A holder gives up all it has, and the pool gets all of it or none.
Return(x) == Move(Of(x), Home) \/ Move(Of(x), Lost)

\* A holder's grains become part of the kernel, for good.
Keep(x) == Move(Of(x), Kernel)

\* A pool goes, which only one with nothing lent or kept can do.
Close(p) ==
  /\ \A c \in p : place[c] \in {Home, Lost}
  /\ Move({c \in p : place[c] = Home}, Lost)

\* A pool whose cursor's grains become part of the kernel.
KeepPool(p, C) ==
  /\ \A c \in p : place[c] \in {Home, Lost}
  /\ C \subseteq p \cap Of(Home)
  /\ place' = [c \in Grain |-> IF c \in C THEN Kernel
                               ELSE IF c \in p THEN Lost ELSE place[c]]

CInit == place = [c \in Grain |-> Home]

CNext ==
  \/ Stay
  \/ \E from \in Holder \cup {Home} :
       \E a, b \in Of(from) : Lend(from, a..b)
  \/ \E x \in Holder : Return(x) \/ Keep(x)
  \/ \E p \in Pool : Close(p) \/ \E a, b \in p : KeepPool(p, a..b)

CSpec == CInit /\ [][CNext]_place
=============================================================================
