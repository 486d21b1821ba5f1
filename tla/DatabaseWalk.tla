---------------------------- MODULE DatabaseWalk ----------------------------
(***************************************************************************)
(* Deep discoveries, in terms of databases only: each walker is given the  *)
(* databases that can be connected to, visits each of them once, one at a  *)
(* time, and is complete when none is left; or it fails on the way.        *)
(***************************************************************************)
CONSTANTS Walkers, Databases, NoDb

VARIABLES phase,    \* phase[x] \in {"listing", "walking", "complete", "failed"}
          todo,     \* todo[x]: the databases x has not visited yet
          current   \* current[x]: the one it is visiting, or NoDb

walkVars == <<phase, todo, current>>

Init ==
    /\ phase = [x \in Walkers |-> "listing"]
    /\ todo = [x \in Walkers |-> {}]
    /\ current = [x \in Walkers |-> NoDb]

List(x) ==
    /\ phase[x] = "listing"
    /\ phase' = [phase EXCEPT ![x] = "walking"]
    /\ \E list \in (SUBSET Databases) \ {{}} : todo' = [todo EXCEPT ![x] = list]
    /\ UNCHANGED current

Visit(x) ==
    /\ phase[x] = "walking" /\ current[x] = NoDb
    /\ \E d \in todo[x] :
          /\ current' = [current EXCEPT ![x] = d]
          /\ todo' = [todo EXCEPT ![x] = @ \ {d}]
    /\ UNCHANGED phase

Leave(x) ==
    /\ phase[x] = "walking" /\ current[x] # NoDb
    /\ current' = [current EXCEPT ![x] = NoDb]
    /\ UNCHANGED <<phase, todo>>

Complete(x) ==
    /\ phase[x] = "walking" /\ current[x] = NoDb /\ todo[x] = {}
    /\ phase' = [phase EXCEPT ![x] = "complete"]
    /\ UNCHANGED <<todo, current>>

Fail(x) ==
    /\ phase[x] \in {"listing", "walking"}
    /\ phase' = [phase EXCEPT ![x] = "failed"]
    /\ todo' = [todo EXCEPT ![x] = {}]
    /\ current' = [current EXCEPT ![x] = NoDb]

Again(x) ==
    /\ phase[x] \in {"complete", "failed"}
    /\ phase' = [phase EXCEPT ![x] = "listing"]
    /\ UNCHANGED <<todo, current>>

Step(x) == Visit(x) \/ Leave(x) \/ Complete(x)

Next == \E x \in Walkers : List(x) \/ Step(x) \/ Fail(x) \/ Again(x)

Spec == Init /\ [][Next]_walkVars

FairSpec == Spec /\ \A x \in Walkers : WF_walkVars(Step(x))
=============================================================================
