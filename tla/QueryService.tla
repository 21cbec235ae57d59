----------------------------- MODULE QueryService -----------------------------
(***************************************************************************)
(* What QueryOrchestrator.load promises its callers, without cache, probe  *)
(* or de-duplication.  A call asks for a key and is answered, alone or     *)
(* together with others, from a version of the data that existed no later  *)
(* than the answer and that is no older than any version a cached call for *)
(* the same key had been answered from before this call was made; or it is *)
(* refused.  An answer may therefore be stale, but reads of one key never  *)
(* go back.                                                                *)
(***************************************************************************)
EXTENDS Naturals

CONSTANTS Loads, Keys, Cubes, CubeOf, MaxVersion, None

Versions == 0 .. MaxVersion

VARIABLES
    source, \* source[c]: version of the data behind cube c
    served, \* served[k]: versions cached calls for k were answered from
    asked   \* asked[l]: the request of slot l

vars == <<source, served, asked>>

NoRequest == [state |-> "none", key |-> None, useCache |-> FALSE,
              before |-> {}, answer |-> None]

Init ==
    /\ source = [c \in Cubes |-> 0]
    /\ served = [k \in Keys |-> {}]
    /\ asked = [l \in Loads |-> NoRequest]

Ask(l, k, useCache) ==
    /\ asked[l].state = "none"
    /\ asked' = [asked EXCEPT ![l] =
                   [state |-> "asked", key |-> k, useCache |-> useCache,
                    before |-> served[k], answer |-> None]]
    /\ UNCHANGED <<source, served>>

Pending(k) == {l \in Loads : asked[l].state = "asked" /\ asked[l].key = k}

\* The version v answers the requests of S, all of them for key k.
Answer(S, k, v) ==
    /\ S # {}
    /\ v <= source[CubeOf[k]]
    /\ \A l \in S : \A u \in asked[l].before : u <= v
    /\ asked' = [l \in Loads |->
                   IF l \in S THEN [asked[l] EXCEPT !.state = "done", !.answer = v]
                   ELSE asked[l]]
    /\ served' = [served EXCEPT ![k] =
                    IF \E l \in S : asked[l].useCache THEN @ \cup {v} ELSE @]
    /\ UNCHANGED source

Refuse(S) ==
    /\ S # {}
    /\ asked' = [l \in Loads |->
                   IF l \in S THEN [asked[l] EXCEPT !.state = "done"] ELSE asked[l]]
    /\ UNCHANGED <<source, served>>

Take(l) ==
    /\ asked[l].state = "done"
    /\ asked' = [asked EXCEPT ![l] = NoRequest]
    /\ UNCHANGED <<source, served>>

ChangeSource(c) ==
    /\ source[c] < MaxVersion
    /\ source' = [source EXCEPT ![c] = @ + 1]
    /\ UNCHANGED <<served, asked>>

Next ==
    \/ \E l \in Loads, k \in Keys, useCache \in BOOLEAN : Ask(l, k, useCache)
    \/ \E k \in Keys : \E S \in SUBSET Pending(k) :
          Refuse(S) \/ \E v \in Versions : Answer(S, k, v)
    \/ \E l \in Loads : Take(l)
    \/ \E c \in Cubes : ChangeSource(c)

Spec == Init /\ [][Next]_vars

=============================================================================
