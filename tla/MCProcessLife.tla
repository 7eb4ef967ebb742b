--------------------------- MODULE MCProcessLife ---------------------------
(***************************************************************************)
(* A small instance of ProcessLife for TLC. One behaviour is about one     *)
(* side of it, so that each side can be as large as it needs to be: three  *)
(* slots that supervise each other, the rows two processes map, or the     *)
(* windows two processes carve.                                            *)
(***************************************************************************)
EXTENDS ProcessLife

VARIABLE focus

NoMaps == \A m \in Maps : maps[m] = None
OneWindow == \A k \in Windows : k > 1 => io[k] = None
TwoProcesses == \A s \in Slots : s > 1 => st[s] = "Free"
\* A child's table names up to n objects, each once.
ChildrenName(n) ==
    \A p \in Slots \ {Root} :
        /\ \A o \in Objects : held[p][o] <= 1
        /\ Cardinality({o \in Objects : held[p][o] = 1}) <= n

Within ==
    \/ focus = "slots" /\ NoMaps /\ OneWindow /\ Entries(Root) <= 3 /\ ChildrenName(1)
    \/ focus = "rows" /\ TwoProcesses /\ OneWindow /\ \A o \in Objects : refs[o] <= 1
    \/ focus = "windows" /\ TwoProcesses /\ NoMaps /\ ChildrenName(2)

FocusInit == Init /\ focus \in {"slots", "rows", "windows"}

FocusSpec ==
    /\ FocusInit
    /\ [][Next /\ UNCHANGED focus /\ Within']_<<vars, focus>>

=============================================================================
