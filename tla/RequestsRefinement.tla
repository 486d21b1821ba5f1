------------------------- MODULE RequestsRefinement -------------------------
(***************************************************************************)
(* The workers of Requests implement ItemService: a request is served from *)
(* the call of its handler to its return, and what a worker holds are its  *)
(* PGconn handles.                                                         *)
(***************************************************************************)
EXTENDS Requests

PhaseOf(w) ==
    CASE pc[w] = "idle" -> "idle"
      [] pc[w] = "done" -> "answered"
      [] OTHER          -> "serving"

OutcomeOf(w) ==
    IF pc[w] # "done" THEN "none"
    ELSE IF ret[w] = SYSINFO_RET_OK THEN "value" ELSE "error"

Service == INSTANCE ItemService
           WITH phase <- [w \in Workers |-> PhaseOf(w)],
                connections <- handles,
                outcome <- [w \in Workers |-> OutcomeOf(w)]

\* Every behaviour of the workers is one of the service they promise: one request at
\* a time, one connection at a time, one answer, with nothing left open, and always
\* an answer.
ImplementsService == Service!FairSpec

-----------------------------------------------------------------------------
(***************************************************************************)
(* A deep discovery of Requests, whose list is a set, implements the walk  *)
(* that DatabaseList, whose list is a block of memory, implements too.     *)
(***************************************************************************)
WalkPhaseOf(w) ==
    IF ~Calling(w, {"pg_get_discovery_wide"}) \/ pc[w] = "call" THEN "listing"
    ELSE IF pc[w] \in {"loop", "exec", "next"} THEN "walking"
    ELSE IF ret[w] = SYSINFO_RET_OK THEN "complete" ELSE "failed"

TodoOf(w) == IF WalkPhaseOf(w) = "walking" THEN todo[w] ELSE {}

CurrentOf(w) == IF WalkPhaseOf(w) = "walking" /\ pc[w] # "loop" THEN db[w] ELSE NoDb

Walk == INSTANCE DatabaseWalk
        WITH Walkers <- Workers,
             phase <- [w \in Workers |-> WalkPhaseOf(w)],
             todo <- [w \in Workers |-> TodoOf(w)],
             current <- [w \in Workers |-> CurrentOf(w)]

\* A worker's deep discovery visits each database of the list it read once, whatever
\* becomes of them meanwhile, succeeds only when none is left, and always ends.
ImplementsWalk == Walk!FairSpec
=============================================================================
