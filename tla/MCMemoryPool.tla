---------------------------- MODULE MCMemoryPool ----------------------------
(***************************************************************************)
(* A small instance of MemoryPool for TLC: two adjacent pools.  A behaviour*)
(* is about one side of them, so that each side can be as large as it      *)
(* needs to be: the larger pool cut into four pieces that come home in any *)
(* order, both pools cut and donated, or the regions of the larger one     *)
(* shared by several processes that die.                                   *)
(***************************************************************************)
EXTENDS MemoryPool, TLC

VARIABLE focus

TwoPools == 1 :> [base |-> 0, len |-> 4] @@ 2 :> [base |-> 4, len |-> 1]

Count(f(_)) == MapThenSumSet(f, Slots)
Handles(s) == mem[s].refs
Rows(s) == mem[s].maps

\* The regions that were split to nothing.
Emptied == {s \in Slots : Derived(s) /\ mem[s].len = 0}

OneHandleEach == scan = 0 /\ \A s \in Slots : mem[s].refs <= 1 /\ mem[s].maps = 0
SecondAsBooted == mem[2] = Region(Boot[2].base, Boot[2].len, 2)

Within ==
  \/ /\ focus = "returns" /\ OneHandleEach /\ SecondAsBooted
     /\ donated \subseteq {Top(Boot[1]) - 1} /\ Cardinality(Emptied) <= 1
  \/ /\ focus = "donations" /\ OneHandleEach
     /\ ~mem[5].live /\ ~mem[6].live
  \/ /\ focus = "deaths" /\ donated = {} /\ SecondAsBooted
     /\ ~mem[5].live /\ ~mem[6].live
     /\ mem[1].out_bytes <= 2
     /\ Count(Handles) <= 5 /\ Count(Rows) <= 2

FocusInit == Init /\ focus \in {"returns", "donations", "deaths"}

FocusNext ==
  /\ Operate \/ (focus = "deaths" /\ ProcessEnds)
  /\ UNCHANGED focus
  /\ Within'

FocusSpec == FocusInit /\ [][FocusNext]_<<vars, focus>>
=============================================================================
