----------------------- MODULE QueryOrchestratorHistory -----------------------
(***************************************************************************)
(* QueryOrchestrator with two history variables, and its implementation of *)
(* QueryService.  served[k] collects the versions cached calls for k were  *)
(* answered from; before[l] is what served held for the key of call l when *)
(* the call was made.                                                      *)
(***************************************************************************)
EXTENDS QueryOrchestrator

VARIABLES served, before

hvars == <<vars, served, before>>

Answered(l) == At(l, "returned") /\ call[l].outcome = "ok"

HInit ==
    /\ Init
    /\ served = [k \in Keys |-> {}]
    /\ before = [l \in Loads |-> {}]

\* The calls for key k that this step answers through the cache.
JustServed(k) ==
    {l \in Loads : /\ ~At(l, "returned") /\ Answered(l)'
                   /\ call[l].useCache /\ call[l].key = k}

Record ==
    /\ served' = [k \in Keys |->
                    served[k] \cup {call'[l].env.version : l \in JustServed(k)}]
    /\ before' = [l \in Loads |->
                    IF At(l, "idle")' THEN {}
                    ELSE IF At(l, "idle") THEN served[call'[l].key]
                    ELSE before[l]]

HNext == Next /\ Record

HSpec == HInit /\ [][HNext]_hvars

Requests ==
    [l \in Loads |->
       [state    |-> IF At(l, "idle") THEN "none"
                     ELSE IF At(l, "returned") THEN "done" ELSE "asked",
        key      |-> call[l].key,
        useCache |-> call[l].useCache,
        before   |-> before[l],
        answer   |-> IF Answered(l) THEN call[l].env.version ELSE None]]

Service == INSTANCE QueryService WITH asked <- Requests

\* The orchestrator of one worker keeps the promise of QueryService: a call
\* is answered from a version that existed and that is no older than what
\* any earlier cached call for the same key returned, although hits, joins
\* and executions overlap and entries expire, fail and are deleted.
ImplementsService == Service!Spec

=============================================================================
