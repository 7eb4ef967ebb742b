---------------------------- MODULE CallContract ----------------------------
(***************************************************************************)
(* What a pipe promises to a thread that waits in Call or Resolve, without *)
(* rings, columns or handle tables.                                        *)
(***************************************************************************)
CONSTANTS Threads, Procs, Home

VARIABLES
  phase,    \* "idle"; "sent": waiting, not served; "served"; "gone": its process ended
  answered  \* what the last step answered each thread

cvars == <<phase, answered>>

Phases  == {"idle", "sent", "served", "gone"}
Silence == [t \in Threads |-> "None"]

Answer(T, status) == [t \in Threads |-> IF t \in T THEN status ELSE "None"]
Waiting(ph) == {t \in Threads : phase[t] = ph}

CInit == /\ phase = [t \in Threads |-> "idle"]
         /\ answered = Silence

\* A thread parks, on a request nobody took yet or on one already taken.
Park(t) == /\ phase[t] = "idle"
           /\ \E ph \in {"sent", "served"} : phase' = [phase EXCEPT ![t] = ph]
           /\ answered' = Silence

\* A server takes one request.
Serve(t) == /\ phase[t] = "sent"
            /\ phase' = [phase EXCEPT ![t] = "served"]
            /\ answered' = Silence

\* Only a served request is answered, and it answers one thread, once.
Reply(t) == /\ phase[t] = "served"
            /\ phase' = [phase EXCEPT ![t] = "idle"]
            /\ \E status \in {"Ok", "Refused"} : answered' = Answer({t}, status)

\* A server gives a request up.
GiveUp(t) == /\ phase[t] = "served"
             /\ phase' = [phase EXCEPT ![t] = "idle"]
             /\ answered' = Answer({t}, "PeerClosed")

\* The server end goes away: every thread not yet served learns it at once.
HangUp == /\ phase' = [t \in Threads |-> IF phase[t] = "sent" THEN "idle" ELSE phase[t]]
          /\ answered' = Answer(Waiting("sent"), "PeerClosed")

\* A process ends; its threads wait for nothing any more.
End(p) == /\ phase' = [t \in Threads |-> IF Home[t] = p THEN "gone" ELSE phase[t]]
          /\ answered' = Silence

\* Steps that answer nobody.
Other == answered' = Silence /\ UNCHANGED phase

CNext == \/ \E t \in Threads : Park(t) \/ Serve(t) \/ Reply(t) \/ GiveUp(t)
         \/ HangUp
         \/ \E p \in Procs : End(p)
         \/ Other

CSpec == CInit /\ [][CNext]_cvars
=============================================================================
