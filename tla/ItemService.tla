---------------------------- MODULE ItemService ----------------------------
(***************************************************************************)
(* What the module promises the agent and the database administrator, in   *)
(* the terms of neither: each worker serves one request at a time, keeps   *)
(* at most one connection open while it does, gives exactly one answer, a  *)
(* value or an error, with every connection closed, and always gives one.  *)
(***************************************************************************)
EXTENDS Naturals

CONSTANT Workers

VARIABLES phase,        \* phase[w] \in {"idle", "serving", "answered"}
          connections,  \* connections[w]: connections w holds
          outcome       \* outcome[w] \in {"none", "value", "error"}

serviceVars == <<phase, connections, outcome>>

Init ==
    /\ phase = [w \in Workers |-> "idle"]
    /\ connections = [w \in Workers |-> 0]
    /\ outcome = [w \in Workers |-> "none"]

Begin(w) ==
    /\ phase[w] = "idle"
    /\ phase' = [phase EXCEPT ![w] = "serving"]
    /\ UNCHANGED <<connections, outcome>>

Open(w) ==
    /\ phase[w] = "serving" /\ connections[w] = 0
    /\ connections' = [connections EXCEPT ![w] = 1]
    /\ UNCHANGED <<phase, outcome>>

Release(w) ==
    /\ phase[w] = "serving" /\ connections[w] = 1
    /\ connections' = [connections EXCEPT ![w] = 0]
    /\ UNCHANGED <<phase, outcome>>

\* The last connection, if there is one, is closed as the answer is given.
Answer(w) ==
    /\ phase[w] = "serving"
    /\ phase' = [phase EXCEPT ![w] = "answered"]
    /\ connections' = [connections EXCEPT ![w] = 0]
    /\ \E result \in {"value", "error"} : outcome' = [outcome EXCEPT ![w] = result]

Forget(w) ==
    /\ phase[w] = "answered"
    /\ phase' = [phase EXCEPT ![w] = "idle"]
    /\ outcome' = [outcome EXCEPT ![w] = "none"]
    /\ UNCHANGED connections

Next == \E w \in Workers : Begin(w) \/ Open(w) \/ Release(w) \/ Answer(w) \/ Forget(w)

Spec == Init /\ [][Next]_serviceVars

FairSpec == Spec /\ \A w \in Workers : WF_serviceVars(Answer(w))
=============================================================================
