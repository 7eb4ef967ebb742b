---------------------------- MODULE MCToolchain ----------------------------
(***************************************************************************)
(* Instances of Toolchain for TLC.                                         *)
(***************************************************************************)
EXTENDS Toolchain, TLC

CONSTANTS p1, p2

\* Nothing named and nothing on the $PATH: the fetch is what is left.
Bare ==
    [ROOT |-> "unset", SAWC |-> FALSE, BLADE |-> FALSE, sawc |-> NoSawc,
     blade |-> FALSE, tools |-> TRUE]

\* A process that is refused at once, and disturbs nobody.
Refused == [Bare EXCEPT !.ROOT = "other"]

\* Every environment with every pin, for one process; and two processes that both
\* need the fetch.
AllSetups ==
    {[env |-> p1 :> e @@ p2 :> Refused, pin |-> f] : e \in Environments, f \in Pins}
    \cup {[env |-> p1 :> Bare @@ p2 :> [Bare EXCEPT !.tools = t],
           pin |-> [file |-> "read", version |-> "0.8.0", sha |-> TRUE]] : t \in BOOLEAN}

=============================================================================
