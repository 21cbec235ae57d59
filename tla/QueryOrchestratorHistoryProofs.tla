-------------------- MODULE QueryOrchestratorHistoryProofs --------------------
(***************************************************************************)
(* With one worker the orchestrator implements QueryService: each step of  *)
(* a load, of its mishaps and of the environment is a step of the service  *)
(* or none.  The argument is about the order of the versions that are      *)
(* around: what calls were answered from is never newer than what is       *)
(* cached, than what an execution has still to store, or than the data.    *)
(***************************************************************************)
EXTENDS QueryOrchestratorHistory, QueryOrchestratorProofs

\* The call has an envelope that it computed and not yet returned.
HoldsAnswer(l) == call[l].pc \in {"setex", "setexSig", "settle"}

\* Nothing newer than v has been answered for k, or may be without another
\* look at the cache.
Behind(k, v) ==
    /\ \A u \in served[k] : u <= v
    /\ \A m \in Loads : At(m, "getSig") /\ call[m].key = k
          => call[m].env.version <= v

HTypes ==
    /\ served \in [Keys -> SUBSET Versions]
    /\ before \in [Loads -> SUBSET Versions]

Histories ==
    /\ \A k \in Keys :
          /\ \A u \in served[k] : u <= source[CubeOf[k]]
          /\ cached[k] # None => Behind(k, cached[k].version)
    /\ \A l \in Loads :
          /\ At(l, "idle") => before[l] = {}
          /\ ~At(l, "idle") => before[l] \subseteq served[call[l].key]
          /\ At(l, "getSig") => \A u \in before[l] : u <= call[l].env.version
          /\ HoldsAnswer(l) => Behind(call[l].key, call[l].env.version)
          /\ call[l].pc \in {"setexSig", "settle"}
                => cached[call[l].key] \in {None, call[l].env}

HIInv == IInv /\ HTypes /\ Histories

-----------------------------------------------------------------------------
(* The history variables. *)

\* A call keeps its key and its use_cache from its beginning to its end.
KeysKept ==
    \A m \in Loads : ~At(m, "idle") /\ ~At(m, "idle")' =>
        /\ call'[m].key = call[m].key
        /\ call'[m].useCache <=> call[m].useCache

\* The locals of the waiters of a call that ends or is cancelled.
LEMMA EndKeeps ==
    ASSUME TypeOK, NEW l \in Loads, NEW how \in Outcomes, End(l, how)
    PROVE  KeysKept
  BY EndEffect DEF KeysKept

LEMMA NextKeeps == ASSUME TypeOK, [Next]_vars PROVE KeysKept
<1>1. call \in [Loads -> Calls]  BY DEF TypeOK
<1>2. ASSUME NEW l \in Loads, Step(l) PROVE KeysKept
  <2>1. CASE Settle(l)  BY <2>1, EndKeeps DEF Settle, Outcomes
  <2>2. CASE Finish(l)
    BY <1>1, <2>2 DEF Finish, Idle, KeysKept, At
  <2>3. CASE ~Settle(l) /\ ~Finish(l)
    <3>1. \A m \in Loads \ {l} : call'[m] = call[m]
      BY <1>1, <1>2, <2>3 DEF Step, ReadProbeCache, RunProbe, StoreProbe, Miss, Hit,
           Validate, Delete, Join, Lead, Execute, ComputedFrom, SetEx, SetExSig
    <3>2. /\ call'[l].key = call[l].key
          /\ call'[l].useCache = call[l].useCache
      <4>1. call[l] \in Calls  BY <1>1
      <4>2. CASE ReadProbeCache(l)  BY <1>1, <4>1, <4>2 DEF ReadProbeCache, Calls
      <4>3. CASE RunProbe(l)  BY <1>1, <4>1, <4>3 DEF RunProbe, Calls
      <4>4. CASE StoreProbe(l)  BY <1>1, <4>1, <4>4 DEF StoreProbe, Calls
      <4>5. CASE Miss(l)  BY <1>1, <4>1, <4>5 DEF Miss, Calls
      <4>6. CASE Hit(l)  BY <1>1, <4>1, <4>6 DEF Hit, Calls
      <4>7. CASE Validate(l)  BY <1>1, <4>1, <4>7 DEF Validate, Calls
      <4>8. CASE Delete(l)  BY <1>1, <4>1, <4>8 DEF Delete, Calls
      <4>9. CASE Join(l)  BY <1>1, <4>1, <4>9 DEF Join, Calls
      <4>10. CASE Lead(l)  BY <1>1, <4>1, <4>10 DEF Lead, Calls
      <4>11. CASE Execute(l)  BY <1>1, <4>1, <4>11 DEF Execute, ComputedFrom, Calls
      <4>12. CASE SetEx(l)  BY <1>1, <4>1, <4>12 DEF SetEx, Calls
      <4>13. CASE SetExSig(l)  BY <1>1, <4>1, <4>13 DEF SetExSig, Calls
      <4> QED
        BY <1>2, <2>3, <4>2, <4>3, <4>4, <4>5, <4>6, <4>7, <4>8, <4>9, <4>10, <4>11,
           <4>12, <4>13 DEF Step
    <3> QED  BY <3>1, <3>2 DEF KeysKept
  <2> QED  BY <2>1, <2>2, <2>3
<1>3. ASSUME NEW l \in Loads, Mishap(l) PROVE KeysKept
  <2>1. CASE Fail(l)  BY <2>1, EndKeeps DEF Fail, Outcomes
  <2>2. CASE CancelRunning(l)  BY <2>2, EndKeeps DEF CancelRunning, Outcomes
  <2>3. CASE CancelWaiting(l)  BY <2>3, CancelEffect DEF KeysKept
  <2> QED  BY <1>3, <2>1, <2>2, <2>3 DEF Mishap
<1>4. ASSUME NEW l \in Loads, NEW k \in Keys, Begin(l, k) \/ BeginUncached(l, k)
      PROVE  KeysKept
  BY <1>1, <1>4 DEF Begin, FirstPoint, BeginUncached, KeysKept, At
<1>5. CASE Environment \/ UNCHANGED vars
  BY <1>5 DEF Environment, ChangeSource, ExpireProbe, ExpireCached, ExpireSig, vars,
              KeysKept
<1> QED  BY <1>2, <1>3, <1>4, <1>5 DEF Next

\* The history variables keep their types.
LEMMA RecordTypes ==
    ASSUME TypeOK, TypeOK', HTypes, Record
    PROVE  HTypes'
<1>1. ASSUME NEW k \in Keys, NEW l \in JustServed(k)
      PROVE  call'[l].env.version \in Versions
  BY <1>1 DEF JustServed, Answered, TypeOK, LocalsBound, Envelopes
<1>2. served' \in [Keys -> SUBSET Versions]
  BY <1>1 DEF Record, HTypes
<1>3. ASSUME NEW l \in Loads, ~At(l, "idle")' PROVE call'[l].key \in Keys
  BY <1>3 DEF TypeOK, LocalsBound
<1>4. before' \in [Loads -> SUBSET Versions]
  BY <1>3 DEF Record, HTypes
<1> QED  BY <1>2, <1>4 DEF HTypes

\* The earlier answers recorded for a call are among those for its key.
LEMMA RecordBefore ==
    ASSUME TypeOK, TypeOK', HTypes, Histories, Record, KeysKept, NEW l \in Loads
    PROVE  /\ At(l, "idle")' => before'[l] = {}
           /\ ~At(l, "idle")' => before'[l] \subseteq served'[call'[l].key]
           /\ ~At(l, "idle") /\ ~At(l, "idle")' => before'[l] = before[l]
           /\ At(l, "idle") /\ ~At(l, "idle")' => before'[l] = served[call'[l].key]
<1>1. before'[l] = IF At(l, "idle")' THEN {}
                   ELSE IF At(l, "idle") THEN served[call'[l].key]
                   ELSE before[l]
  BY DEF Record
<1>2. \A k \in Keys : served[k] \subseteq served'[k]  BY DEF Record
<1>3. CASE ~At(l, "idle")'
  <2>1. call'[l].key \in Keys  BY <1>3 DEF TypeOK, LocalsBound
  <2>2. CASE At(l, "idle")  BY <1>1, <1>2, <1>3, <2>1, <2>2
  <2>3. CASE ~At(l, "idle")
    BY <1>1, <1>2, <1>3, <2>1, <2>3 DEF Histories, KeysKept
  <2> QED  BY <2>2, <2>3
<1> QED  BY <1>1, <1>3

-----------------------------------------------------------------------------
(* The order of the versions. *)

\* An answer u for k that is no newer than the data, the cache, and what an
\* execution for k has still to store.
InOrder(k, u) ==
    /\ u \in Versions /\ u <= source[CubeOf[k]]
    /\ cached[k] # None => u <= cached[k].version
    /\ \A m \in Loads : HoldsAnswer(m) /\ call[m].key = k
          => u <= call[m].env.version

\* What the steps have in common that cache and compute nothing: a call that
\* has an answer to return or to validate had it before.
NothingNew ==
    /\ \A c \in Cubes : source[c] <= source'[c]
    /\ \A k \in Keys : cached'[k] \in {None, cached[k]}
    /\ \A m \in Loads : At(m, "getSig")' => At(m, "getSig") /\ call'[m].env = call[m].env
    /\ \A m \in Loads : HoldsAnswer(m)' =>
          /\ HoldsAnswer(m) /\ call'[m].env = call[m].env
          /\ call'[m].pc \in {"setexSig", "settle"} => call[m].pc \in {"setexSig", "settle"}

\* Such a step keeps the order if what it serves is in order.
LEMMA NothingNewKeeps ==
    ASSUME TypeOK, TypeOK', HTypes, HTypes', Histories, Record, KeysKept, NothingNew,
           \A k \in Keys : \A u \in served'[k] : u \in served[k] \/ InOrder(k, u)
    PROVE  Histories'
<1>1. \A k \in Keys : CubeOf[k] \in Cubes
  BY ConstantsAssumption
<1>2. ASSUME NEW m \in Loads, At(m, "getSig")'
      PROVE  /\ At(m, "getSig") /\ call'[m].key \in Keys /\ call'[m].key = call[m].key
             /\ call'[m].env = call[m].env /\ call[m].env \in Envelopes
  <2>1. At(m, "getSig") /\ call'[m].env = call[m].env  BY <1>2 DEF NothingNew
  <2> QED  BY <1>2, <2>1 DEF KeysKept, At, TypeOK, LocalsBound
<1>3. ASSUME NEW m \in Loads, HoldsAnswer(m)'
      PROVE  /\ HoldsAnswer(m) /\ call'[m].key \in Keys /\ call'[m].key = call[m].key
             /\ call'[m].env = call[m].env /\ call[m].env \in Envelopes
  <2>1. HoldsAnswer(m) /\ call'[m].env = call[m].env  BY <1>3 DEF NothingNew
  <2> QED  BY <1>3, <2>1 DEF KeysKept, At, TypeOK, LocalsBound, HoldsAnswer
<1>4. ASSUME NEW k \in Keys, NEW u \in served'[k] PROVE u <= source'[CubeOf[k]]
  <2>1. u <= source[CubeOf[k]]  BY <1>4 DEF Histories, InOrder
  <2>2. u \in Nat /\ source[CubeOf[k]] \in Nat /\ source'[CubeOf[k]] \in Nat
    BY <1>1, <1>4 DEF HTypes, TypeOK, Versions
  <2> QED  BY <1>1, <2>1, <2>2 DEF NothingNew
<1>5. ASSUME NEW k \in Keys, cached'[k] # None PROVE Behind(k, cached[k].version)'
  <2>1. cached'[k] = cached[k] /\ cached[k] # None  BY <1>5 DEF NothingNew
  <2>2. \A u \in served'[k] : u <= cached'[k].version
    BY <2>1 DEF Histories, InOrder, Behind
  <2>3. \A m \in Loads : At(m, "getSig")' /\ call'[m].key = k
           => call'[m].env.version <= cached'[k].version
    BY <1>2, <2>1 DEF Histories, Behind
  <2> QED  BY <2>2, <2>3 DEF Behind
<1>6. ASSUME NEW l \in Loads, HoldsAnswer(l)' PROVE Behind(call[l].key, call[l].env.version)'
  <2> DEFINE k == call'[l].key
  <2>1. k \in Keys /\ HoldsAnswer(l) /\ call[l].key = k /\ call'[l].env = call[l].env
    BY <1>3, <1>6
  <2>2. \A u \in served'[k] : u <= call'[l].env.version
    BY <2>1 DEF Histories, InOrder, Behind
  <2>3. \A m \in Loads : At(m, "getSig")' /\ call'[m].key = k
           => call'[m].env.version <= call'[l].env.version
    BY <1>2, <2>1 DEF Histories, Behind
  <2> QED  BY <2>2, <2>3 DEF Behind
<1>7. ASSUME NEW l \in Loads, At(l, "getSig")'
      PROVE  \A u \in before'[l] : u <= call'[l].env.version
  <2>1. before'[l] = before[l]
    BY <1>2, <1>7, RecordBefore DEF At
  <2> QED  BY <1>2, <1>7, <2>1 DEF Histories
<1>8. ASSUME NEW l \in Loads, call'[l].pc \in {"setexSig", "settle"}
      PROVE  cached'[call'[l].key] \in {None, call'[l].env}
  <2>1. HoldsAnswer(l)'  BY <1>8 DEF HoldsAnswer
  <2>2. call[l].pc \in {"setexSig", "settle"}  BY <1>8, <2>1 DEF NothingNew
  <2> QED  BY <1>3, <2>1, <2>2 DEF Histories, NothingNew
<1> QED  BY <1>4, <1>5, <1>6, <1>7, <1>8, RecordBefore DEF Histories

-----------------------------------------------------------------------------
(* What the service sees of a step. *)

RequestOf(l) ==
    [state    |-> IF At(l, "idle") THEN "none"
                  ELSE IF At(l, "returned") THEN "done" ELSE "asked",
     key      |-> call[l].key,
     useCache |-> call[l].useCache,
     before   |-> before[l],
     answer   |-> IF Answered(l) THEN call[l].env.version ELSE None]

LEMMA RequestsOf ==
    /\ Requests = [l \in Loads |-> RequestOf(l)]
    /\ Requests' = [l \in Loads |-> RequestOf(l)']
  BY DEF Requests, RequestOf

\* What EXCEPT does to a request.
Request(s, k, c, b, a) ==
    [state |-> s, key |-> k, useCache |-> c, before |-> b, answer |-> a]

LEMMA RequestDone ==
    ASSUME NEW s, NEW k, NEW c, NEW b, NEW a, NEW t
    PROVE  [Request(s, k, c, b, a) EXCEPT !.state = t] = Request(t, k, c, b, a)
  BY DEF Request

LEMMA RequestAnswered ==
    ASSUME NEW s, NEW k, NEW c, NEW b, NEW a, NEW v
    PROVE  [Request(s, k, c, b, a) EXCEPT !.answer = v] = Request(s, k, c, b, v)
  BY DEF Request

\* A call that is not touched is the same request.
LEMMA SameRequest ==
    ASSUME TypeOK, TypeOK', HTypes, Histories, Record, KeysKept,
           NEW m \in Loads, call'[m] = call[m]
    PROVE  RequestOf(m)' = RequestOf(m)
<1>1. before'[m] = before[m]
  <2>1. At(m, "idle")' <=> At(m, "idle")  BY DEF At
  <2>2. /\ At(m, "idle")' => before'[m] = {}
        /\ ~At(m, "idle") /\ ~At(m, "idle")' => before'[m] = before[m]
    BY RecordBefore, Zenon
  <2>3. At(m, "idle") => before[m] = {}  BY Zenon DEF Histories
  <2> QED  BY <2>1, <2>2, <2>3, Zenon
<1>2. /\ At(m, "idle")' <=> At(m, "idle")
      /\ At(m, "returned")' <=> At(m, "returned")
      /\ Answered(m)' <=> Answered(m)
  BY DEF At, Answered
<1> QED  BY <1>1, <1>2 DEF RequestOf

\* A step within the calls: no call begins, ends or is taken.
Quiet ==
    \A m \in Loads :
        /\ At(m, "idle")' <=> At(m, "idle")
        /\ At(m, "returned")' <=> At(m, "returned")
        /\ At(m, "idle") \/ At(m, "returned") => call'[m] = call[m]

LEMMA QuietServes ==
    ASSUME HTypes, Record,
           \A m \in Loads : At(m, "returned")' => At(m, "returned")
    PROVE  served' = served
<1>1. \A k \in Keys : JustServed(k) = {}  BY DEF JustServed, Answered
<1>2. \A k \in Keys : served'[k] = served[k]  BY <1>1 DEF Record
<1> QED  BY <1>2 DEF Record, HTypes

LEMMA QuietMaps ==
    ASSUME TypeOK, TypeOK', HTypes, Histories, Record, KeysKept, Quiet
    PROVE  served' = served /\ Requests' = Requests
<1>1. served' = served  BY QuietServes DEF Quiet
<1>2. ASSUME NEW m \in Loads PROVE RequestOf(m)' = RequestOf(m)
  <2>1. CASE At(m, "idle") \/ At(m, "returned")
    BY <2>1, SameRequest DEF Quiet
  <2>2. CASE ~At(m, "idle") /\ ~At(m, "returned")
    <3>1. ~At(m, "idle")' /\ ~At(m, "returned")'  BY <2>2 DEF Quiet
    <3>2. before'[m] = before[m]  BY <2>2, <3>1, RecordBefore
    <3>3. call'[m].key = call[m].key /\ call'[m].useCache = call[m].useCache
      BY <2>2, <3>1 DEF KeysKept, TypeOK, Calls
    <3> QED  BY <2>2, <3>1, <3>2, <3>3 DEF RequestOf, At, Answered
  <2> QED  BY <2>1, <2>2
<1> QED  BY <1>1, <1>2, RequestsOf

\* The calls of S, all for k, end the same way, and no other call is touched.
Ends(S, k, how) ==
    /\ S \subseteq Loads /\ S # {}
    /\ \A m \in S : /\ ~At(m, "idle") /\ ~At(m, "returned") /\ call[m].key = k
                    /\ At(m, "returned")' /\ call'[m].outcome = how
    /\ \A m \in Loads \ S : call'[m] = call[m]

LEMMA EndsPending ==
    ASSUME NEW S, NEW k \in Keys, NEW how, Ends(S, k, how)
    PROVE  S \in SUBSET Service!Pending(k)
  BY DEF Ends, Service!Pending, Requests, At

LEMMA EndedRequest ==
    ASSUME TypeOK, TypeOK', HTypes, Histories, Record, KeysKept,
           NEW S, NEW k \in Keys, NEW how, Ends(S, k, how), NEW m \in S
    PROVE  /\ RequestOf(m)' = Request("done", call[m].key, call[m].useCache, before[m],
                                      IF how = "ok" THEN call'[m].env.version ELSE None)
           /\ RequestOf(m) = Request("asked", call[m].key, call[m].useCache, before[m], None)
<1>1. m \in Loads /\ ~At(m, "idle") /\ ~At(m, "returned") /\ ~At(m, "idle")'
  BY DEF Ends, At
<1>2. call'[m].key = call[m].key /\ call'[m].useCache = call[m].useCache
  BY <1>1 DEF KeysKept, TypeOK, Calls
<1>3. before'[m] = before[m]  BY <1>1, RecordBefore
<1>4. At(m, "returned")' /\ (Answered(m)' <=> how = "ok")
  BY DEF Ends, Answered
<1> QED  BY <1>1, <1>2, <1>3, <1>4 DEF RequestOf, Request, Answered

\* The service refuses the calls of S.
LEMMA RefuseMaps ==
    ASSUME TypeOK, TypeOK', HTypes, Histories, Record, KeysKept, UNCHANGED source,
           NEW S, NEW k \in Keys, NEW how, how # "ok", Ends(S, k, how)
    PROVE  served' = served /\ Service!Refuse(S)
<1>1. \A j \in Keys : JustServed(j) = {}
  BY DEF JustServed, Answered, Ends, At
<1>2. served' = served
  <2>1. \A j \in Keys : served'[j] = served[j]  BY <1>1 DEF Record
  <2> QED  BY <2>1 DEF Record, HTypes
<1>3. ASSUME NEW m \in S
      PROVE  RequestOf(m)' = [RequestOf(m) EXCEPT !.state = "done"]
  <2>1. /\ RequestOf(m)' = Request("done", call[m].key, call[m].useCache, before[m], None)
        /\ RequestOf(m) = Request("asked", call[m].key, call[m].useCache, before[m], None)
    BY EndedRequest
  <2>2. [Request("asked", call[m].key, call[m].useCache, before[m], None)
            EXCEPT !.state = "done"]
           = Request("done", call[m].key, call[m].useCache, before[m], None)
    BY RequestDone
  <2> QED  BY <2>1, <2>2
<1>4. \A m \in Loads \ S : RequestOf(m)' = RequestOf(m)
  BY SameRequest DEF Ends
<1>5. Requests' = [m \in Loads |->
                     IF m \in S THEN [RequestOf(m) EXCEPT !.state = "done"]
                     ELSE RequestOf(m)]
  BY <1>3, <1>4, RequestsOf DEF Ends
<1>6. \A m \in Loads : Requests[m] = RequestOf(m)  BY RequestsOf
<1>7. Requests' = [m \in Loads |->
                     IF m \in S THEN [Requests[m] EXCEPT !.state = "done"]
                     ELSE Requests[m]]
  BY <1>5, <1>6
<1> QED  BY <1>2, <1>7 DEF Service!Refuse, Ends

\* The service answers the calls of S with v.
LEMMA AnswerMaps ==
    ASSUME TypeOK, TypeOK', HTypes, Histories, Record, KeysKept, UNCHANGED source,
           NEW S, NEW k \in Keys, Ends(S, k, "ok"),
           NEW v \in Versions, v <= source[CubeOf[k]],
           \A m \in S : call'[m].env.version = v,
           \A m \in S : \A u \in before[m] : u <= v
    PROVE  /\ served' = [served EXCEPT ![k] =
                           IF \E m \in S : call[m].useCache THEN @ \cup {v} ELSE @]
           /\ Service!Answer(S, k, v)
<1>1. S \subseteq Loads  BY DEF Ends
<1>2. JustServed(k) = {m \in S : call[m].useCache}
  BY DEF JustServed, Answered, Ends, At
<1>3. \A j \in Keys \ {k} : JustServed(j) = {}
  BY DEF JustServed, Answered, Ends, At
<1>4. served' = [served EXCEPT ![k] =
                   IF \E m \in S : call[m].useCache THEN @ \cup {v} ELSE @]
  <2>1. \A j \in Keys \ {k} : served'[j] = served[j]  BY <1>3 DEF Record
  <2>2. {call'[m].env.version : m \in JustServed(k)}
           = IF \E m \in S : call[m].useCache THEN {v} ELSE {}
    BY <1>2
  <2>3. served'[k] = IF \E m \in S : call[m].useCache THEN served[k] \cup {v} ELSE served[k]
    BY <2>2 DEF Record
  <2>4. served' = [j \in Keys |-> served'[j]]  BY DEF Record
  <2> QED  BY <2>1, <2>3, <2>4 DEF HTypes
<1>5. ASSUME NEW m \in S
      PROVE  RequestOf(m)' = [RequestOf(m) EXCEPT !.state = "done", !.answer = v]
  <2>1. /\ RequestOf(m)' = Request("done", call[m].key, call[m].useCache, before[m], v)
        /\ RequestOf(m) = Request("asked", call[m].key, call[m].useCache, before[m], None)
    BY EndedRequest
  <2>2. [Request("asked", call[m].key, call[m].useCache, before[m], None)
            EXCEPT !.state = "done"]
           = Request("done", call[m].key, call[m].useCache, before[m], None)
    BY RequestDone
  <2>3. [Request("done", call[m].key, call[m].useCache, before[m], None)
            EXCEPT !.answer = v]
           = Request("done", call[m].key, call[m].useCache, before[m], v)
    BY RequestAnswered
  <2>4. [RequestOf(m) EXCEPT !.state = "done", !.answer = v]
           = [[RequestOf(m) EXCEPT !.state = "done"] EXCEPT !.answer = v]
    OBVIOUS
  <2> QED  BY <2>1, <2>2, <2>3, <2>4
<1>6. \A m \in Loads \ S : RequestOf(m)' = RequestOf(m)
  BY SameRequest DEF Ends
<1>7. Requests' = [m \in Loads |->
                     IF m \in S THEN [RequestOf(m) EXCEPT !.state = "done", !.answer = v]
                     ELSE RequestOf(m)]
  BY <1>1, <1>5, <1>6, RequestsOf
<1>8. \A m \in Loads : Requests[m] = RequestOf(m)  BY RequestsOf
<1>9. Requests' = [m \in Loads |->
                     IF m \in S THEN [Requests[m] EXCEPT !.state = "done", !.answer = v]
                     ELSE Requests[m]]
  BY <1>7, <1>8
<1>10. \A m \in S : /\ Requests[m].useCache = call[m].useCache
                    /\ Requests[m].before = before[m]
  BY <1>1 DEF Requests
<1>11. served' = [served EXCEPT ![k] =
                    IF \E m \in S : Requests[m].useCache THEN @ \cup {v} ELSE @]
  BY <1>4, <1>10
<1> QED  BY <1>4, <1>9, <1>10, <1>11 DEF Service!Answer, Ends

-----------------------------------------------------------------------------
(* Every step keeps the order and is one of the service, or none. *)

Stepping ==
    /\ OneWorker /\ IInv /\ TypeOK' /\ HTypes /\ HTypes' /\ Histories
    /\ Record /\ KeysKept

Good == Histories' /\ [Service!Next]_(Service!vars)

LEMMA IInvTypes == IInv => TypeOK /\ Sharing /\ Snapshots /\ Refreshes
  BY DEF IInv, Sharing

LEMMA QuietGood ==
    ASSUME Stepping, Quiet, NothingNew, UNCHANGED source
    PROVE  Good
<1>1. served' = served /\ Requests' = Requests
  BY QuietMaps, IInvTypes DEF Stepping
<1>2. Histories'  BY <1>1, NothingNewKeeps, IInvTypes DEF Stepping
<1> QED  BY <1>1, <1>2 DEF Good, Service!vars

LEMMA RefuseGood ==
    ASSUME Stepping, NothingNew, UNCHANGED source,
           NEW S, NEW k \in Keys, NEW how, how # "ok", Ends(S, k, how)
    PROVE  Good
<1>1. served' = served /\ Service!Refuse(S)
  BY RefuseMaps, IInvTypes DEF Stepping
<1>2. Histories'  BY <1>1, NothingNewKeeps, IInvTypes DEF Stepping
<1> QED  BY <1>1, <1>2, EndsPending DEF Good, Service!Next

LEMMA AnswerGood ==
    ASSUME Stepping, NothingNew, UNCHANGED source,
           NEW S, NEW k \in Keys, Ends(S, k, "ok"),
           NEW v \in Versions, v <= source[CubeOf[k]],
           \A m \in S : call'[m].env.version = v,
           \A m \in S : \A u \in before[m] : u <= v,
           \A m \in S : call[m].useCache => InOrder(k, v)
    PROVE  Good
<1>1. /\ served' = [served EXCEPT ![k] =
                      IF \E m \in S : call[m].useCache THEN @ \cup {v} ELSE @]
      /\ Service!Answer(S, k, v)
  BY AnswerMaps, IInvTypes DEF Stepping
<1>2. \A j \in Keys : \A u \in served'[j] : u \in served[j] \/ InOrder(j, u)
  BY <1>1 DEF Stepping, HTypes
<1>3. Histories'  BY <1>2, NothingNewKeeps, IInvTypes DEF Stepping
<1>4. S \in SUBSET Service!Pending(k) /\ v \in Service!Versions
  BY EndsPending DEF Versions, Service!Versions
<1> QED  BY <1>1, <1>3, <1>4 DEF Good, Service!Next

\* A step of one call.
OnlySlot(l) == \A m \in Loads \ {l} : call'[m] = call[m]

LEMMA SlotQuiet ==
    ASSUME NEW l \in Loads, OnlySlot(l), call[l].pc \in Running \cup {"await"},
           call'[l].pc \in Running \cup {"await"}
    PROVE  Quiet
  BY DEF Quiet, OnlySlot, At, Running, Looking, Executing

\* A step of one call that caches and computes nothing.
LEMMA SlotNothingNew ==
    ASSUME TypeOK, TypeOK', NEW l \in Loads, OnlySlot(l), UNCHANGED source,
           \A k \in Keys : cached'[k] \in {None, cached[k]},
           call'[l].pc \notin {"getSig", "setex", "setexSig"},
           call'[l].pc = "settle" =>
              call[l].pc = "setexSig" /\ call'[l].env = call[l].env
    PROVE  NothingNew
<1>1. \A c \in Cubes : source[c] <= source'[c]
  BY DEF TypeOK, Versions
<1> QED
  BY <1>1 DEF NothingNew, OnlySlot, At, HoldsAnswer

LEMMA SlotEnds ==
    ASSUME NEW l \in Loads, OnlySlot(l), call[l].pc \in Running, NEW how,
           call'[l].pc = "returned", call'[l].outcome = how
    PROVE  Ends({l}, call[l].key, how)
  BY DEF Ends, OnlySlot, At, Running, Looking, Executing

\* The end of a call ends its waiters, which have its key.
LEMMA EndEnds ==
    ASSUME Stepping, NEW l \in Loads, NEW how \in Outcomes, End(l, how),
           call[l].pc \in Running
    PROVE  /\ call[l].key \in Keys
           /\ Ends({l} \cup Waiters(l), call[l].key, how)
           /\ NothingNew /\ UNCHANGED source
<1>1. TypeOK /\ Sharing  BY IInvTypes DEF Stepping
<1>2. call[l].key \in Keys
  BY <1>1 DEF TypeOK, LocalsBound, At, Running, Looking, Executing
<1>3. \A m \in Waiters(l) : m \in Loads /\ At(m, "await") /\ call[m].key = call[l].key
  BY <1>1 DEF Sharing, NoStrandedWaiter, LeadsFor, Waiters
<1>4. ~At(l, "idle") /\ ~At(l, "returned")
  BY DEF At, Running, Looking, Executing
<1>5. \A m \in {l} \cup Waiters(l) : ~At(m, "idle") /\ ~At(m, "returned")
  BY <1>3, <1>4 DEF At
<1>6. Ends({l} \cup Waiters(l), call[l].key, how)
  BY <1>1, <1>3, <1>5, EndEffect DEF Ends, At
<1>7. UNCHANGED <<source, cached>>  BY DEF End, redis
<1>8. \A m \in Loads : call'[m] = call[m] \/ At(m, "returned")'
  BY <1>1, EndEffect DEF At
<1>9. \A c \in Cubes : source[c] <= source'[c]  BY <1>1, <1>7 DEF TypeOK, Versions
<1>10. NothingNew  BY <1>7, <1>8, <1>9 DEF NothingNew, At, HoldsAnswer
<1> QED  BY <1>2, <1>6, <1>7, <1>10

LEMMA SettleGood ==
    ASSUME Stepping, NEW l \in Loads, Settle(l)
    PROVE  Good
<1> DEFINE k == call[l].key
           v == call[l].env.version
           S == {l} \cup Waiters(l)
<1>1. TypeOK /\ Sharing /\ Snapshots  BY IInvTypes DEF Stepping
<1>2. End(l, "ok") /\ call[l].pc \in Running /\ At(l, "settle") /\ HoldsAnswer(l)
  BY DEF Settle, At, Running, Executing, HoldsAnswer
<1>3. /\ k \in Keys /\ Ends(S, k, "ok") /\ NothingNew /\ UNCHANGED source
  BY <1>2, EndEnds DEF Outcomes
<1>4. call[l].env \in Envelopes /\ call[l].useCache
  BY <1>1, <1>2 DEF TypeOK, LocalsBound, At
<1>5. v \in Versions /\ v <= source[CubeOf[k]]
  <2>1. call[l].env # None  BY <1>4, NoneAssumption
  <2> QED  BY <1>1, <1>4, <2>1 DEF Snapshots, EnvelopeOf, Envelopes
<1>6. \A m \in S : call'[m].env.version = v
  BY <1>1, <1>2, EndEffect DEF Waiters, Outcomes
<1>7. \A u \in served[k] : u <= v
  BY <1>2, <1>3 DEF Stepping, Histories, Behind
<1>8. \A m \in S : \A u \in before[m] : u <= v
  <2>1. \A m \in S : m \in Loads /\ ~At(m, "idle") /\ call[m].key = k
    BY <1>3 DEF Ends
  <2> QED  BY <1>7, <2>1 DEF Stepping, Histories
<1>9. InOrder(k, v)
  <2>1. cached[k] # None => v <= cached[k].version
    <3>1. cached[k] \in {None, call[l].env}
      BY <1>2 DEF Stepping, Histories, At
    <3> QED  BY <1>5, <3>1 DEF Versions
  <2>2. ASSUME NEW m \in Loads, HoldsAnswer(m), call[m].key = k
        PROVE  v <= call[m].env.version
    <3>1. Leads(m) /\ Leads(l)
      BY <1>1, <1>2, <2>2 DEF TypeOK, LocalsBound, HoldsAnswer, Leads, At, Executing
    <3>2. m = l  BY <1>1, <2>2, <3>1, OneLeader DEF Stepping
    <3> QED  BY <1>5, <3>2 DEF Versions
  <2> QED  BY <1>5, <2>1, <2>2 DEF InOrder
<1> HIDE DEF k, v, S
<1> QED  BY <1>3, <1>5, <1>6, <1>8, <1>9, AnswerGood

LEMMA MishapGood ==
    ASSUME Stepping, NEW l \in Loads, Mishap(l)
    PROVE  Good
<1>1. TypeOK /\ Sharing  BY IInvTypes DEF Stepping
<1>2. CASE Fail(l)
  <2>1. End(l, "failed") /\ call[l].pc \in Running  BY <1>2 DEF Fail
  <2> QED  BY <2>1, EndEnds, RefuseGood DEF Outcomes
<1>3. CASE CancelRunning(l)
  <2>1. End(l, "cancelled") /\ call[l].pc \in Running  BY <1>3 DEF CancelRunning
  <2> QED  BY <2>1, EndEnds, RefuseGood DEF Outcomes
<1>4. CASE CancelWaiting(l)
  <2> DEFINE S == Waiters(call[l].leader)
             k == call[l].key
  <2>1. At(l, "await") /\ l \in S /\ S \subseteq Loads
    BY <1>4 DEF CancelWaiting, Waiters
  <2>2. k \in Keys  BY <1>1, <2>1 DEF TypeOK, LocalsBound, At
  <2>3. \A m \in S : At(m, "await") /\ call[m].key = k
    BY <1>1, <2>1 DEF Sharing, NoStrandedWaiter, LeadsFor, Waiters
  <2>4. Ends(S, k, "cancelled")
    BY <1>1, <1>4, <2>1, <2>3, CancelEffect DEF Ends, At
  <2>5. UNCHANGED <<source, cached>>  BY <1>4 DEF CancelWaiting, redis
  <2>6. \A m \in Loads : call'[m] = call[m] \/ At(m, "returned")'
    BY <1>1, <1>4, CancelEffect DEF At
  <2>7. \A c \in Cubes : source[c] <= source'[c]
    BY <1>1, <2>5 DEF TypeOK, Versions
  <2>8. NothingNew  BY <2>5, <2>6, <2>7 DEF NothingNew, At, HoldsAnswer
  <2> HIDE DEF S, k
  <2> QED  BY <2>2, <2>4, <2>5, <2>8, RefuseGood
<1> QED  BY <1>2, <1>3, <1>4 DEF Mishap

\* The lookups of a call that neither read the cached envelope nor end it.
LEMMA LookingGood ==
    ASSUME Stepping, NEW l \in Loads,
           \/ ReadProbeCache(l) \/ RunProbe(l) \/ StoreProbe(l) \/ Miss(l)
           \/ Delete(l) \/ Lead(l) \/ SetExSig(l)
    PROVE  Good
<1>1. TypeOK /\ TypeOK' /\ call[l] \in Calls /\ call \in [Loads -> Calls]
  BY IInvTypes DEF Stepping, TypeOK
<1>2. OnlySlot(l) /\ UNCHANGED source
  BY <1>1 DEF OnlySlot, ReadProbeCache, RunProbe, StoreProbe, Miss, Delete, Lead, SetExSig
<1>3. call[l].pc \in Running
  BY DEF ReadProbeCache, RunProbe, StoreProbe, Miss, Delete, Lead, SetExSig, At,
         Running, Looking, Executing
<1>4. \A k \in Keys : cached'[k] \in {None, cached[k]}
  BY <1>1 DEF ReadProbeCache, RunProbe, StoreProbe, Miss, Delete, Lead, SetExSig, redis, TypeOK
<1>5. /\ call'[l].pc \in Running \ {"getSig", "setex", "setexSig"}
      /\ call'[l].pc = "settle" => call[l].pc = "setexSig" /\ call'[l].env = call[l].env
  <2> USE <1>1 DEF Running, Looking, Executing, Calls
  <2>1. CASE ReadProbeCache(l)  BY <2>1 DEF ReadProbeCache
  <2>2. CASE RunProbe(l)  BY <2>2 DEF RunProbe
  <2>3. CASE StoreProbe(l)  BY <2>3 DEF StoreProbe
  <2>4. CASE Miss(l)  BY <2>4 DEF Miss
  <2>5. CASE Delete(l)  BY <2>5 DEF Delete
  <2>6. CASE Lead(l)  BY <2>6 DEF Lead
  <2>7. CASE SetExSig(l)  BY <2>7 DEF SetExSig, At
  <2> QED  BY <2>1, <2>2, <2>3, <2>4, <2>5, <2>6, <2>7
<1>6. Quiet  BY <1>2, <1>3, <1>5, SlotQuiet
<1>7. NothingNew  BY <1>1, <1>2, <1>4, <1>5, SlotNothingNew
<1> QED  BY <1>2, <1>6, <1>7, QuietGood

\* What is cached is no newer than what an execution has still to return.
LEMMA CachedInOrder ==
    ASSUME Stepping, NEW k \in Keys, cached[k] # None
    PROVE  InOrder(k, cached[k].version)
<1>1. TypeOK /\ Snapshots /\ Refreshes  BY IInvTypes DEF Stepping
<1>2. cached[k] \in Envelopes /\ cached[k].version \in Versions
  BY <1>1 DEF TypeOK, Envelopes
<1>3. cached[k].version <= source[CubeOf[k]]
  BY <1>1 DEF Snapshots, EnvelopeOf
<1>4. ASSUME NEW m \in Loads, HoldsAnswer(m), call[m].key = k
      PROVE  cached[k].version <= call[m].env.version
  <2>1. CASE At(m, "setex")
    BY <1>1, <1>4, <2>1 DEF Refreshes, RefreshOf
  <2>2. CASE call[m].pc \in {"setexSig", "settle"}
    <3>1. cached[k] = call[m].env  BY <1>4, <2>2 DEF Stepping, Histories
    <3> QED  BY <1>2, <3>1 DEF Versions
  <2> QED  BY <1>4, <2>1, <2>2 DEF HoldsAnswer, At
<1> QED  BY <1>2, <1>3, <1>4 DEF InOrder, Versions

\* A step within the calls keeps the order if every call that may still
\* return an envelope keeps it or has it in order.
LEMMA QuietHistories ==
    ASSUME Stepping, Quiet, UNCHANGED source,
           \A k \in Keys : cached'[k] # None => Behind(k, cached[k].version)',
           \A m \in Loads : At(m, "getSig")' =>
              \/ \A u \in served[call[m].key] : u <= call'[m].env.version
              \/ At(m, "getSig") /\ call'[m].env = call[m].env,
           \A m \in Loads : HoldsAnswer(m)' =>
              /\ Behind(call[m].key, call[m].env.version)'
              /\ call'[m].pc \in {"setexSig", "settle"}
                    => cached'[call'[m].key] \in {None, call'[m].env}
    PROVE  Good
<1>1. served' = served /\ Requests' = Requests
  BY QuietMaps, IInvTypes DEF Stepping
<1>2. \A k \in Keys : \A u \in served'[k] : u <= source'[CubeOf[k]]
  BY <1>1 DEF Stepping, Histories
<1>3. ASSUME NEW m \in Loads, At(m, "getSig")'
      PROVE  \A u \in before'[m] : u <= call'[m].env.version
  <2>1. ~At(m, "idle") /\ ~At(m, "idle")'  BY <1>3 DEF Quiet, At
  <2>2. before'[m] = before[m] /\ before[m] \subseteq served[call[m].key]
    BY <2>1, RecordBefore, IInvTypes DEF Stepping, Histories
  <2> QED  BY <1>3, <2>2 DEF Stepping, Histories
<1>4. \A m \in Loads : /\ At(m, "idle")' => before'[m] = {}
                       /\ ~At(m, "idle")' => before'[m] \subseteq served'[call'[m].key]
  BY RecordBefore, IInvTypes DEF Stepping
<1>5. Histories'
  BY <1>2, <1>3, <1>4 DEF Histories, HoldsAnswer
<1> QED  BY <1>1, <1>5 DEF Good, Service!vars

LEMMA HitGood ==
    ASSUME Stepping, NEW l \in Loads, Hit(l)
    PROVE  Good
<1> DEFINE k == call[l].key
           e == cached[k]
<1>1. TypeOK /\ TypeOK' /\ call[l] \in Calls /\ call \in [Loads -> Calls]
  BY IInvTypes DEF Stepping, TypeOK
<1>2. /\ OnlySlot(l) /\ UNCHANGED <<source, cached>> /\ At(l, "get") /\ e # None
      /\ call[l].pc \in Running
  BY <1>1 DEF OnlySlot, Hit, redis, At, Running, Looking
<1>3. k \in Keys /\ e \in Envelopes
  BY <1>1, <1>2 DEF TypeOK, LocalsBound, At
<1>4. /\ call'[l].env = e /\ call'[l].key = k
      /\ call[l].sig = None => call'[l].pc = "returned" /\ call'[l].outcome = "ok"
      /\ call[l].sig # None => call'[l].pc = "getSig"
  BY <1>1 DEF Hit, Calls
<1>5. InOrder(k, e.version)  BY <1>2, <1>3, CachedInOrder
<1>6. \A u \in served[k] : u <= e.version
  BY <1>2, <1>3 DEF Stepping, Histories, Behind
<1>7. CASE call[l].sig = None
  <2>1. Ends({l}, k, "ok")  BY <1>2, <1>4, <1>7, SlotEnds
  <2>2. NothingNew  BY <1>1, <1>2, <1>4, <1>7, SlotNothingNew
  <2>3. before[l] \subseteq served[k]
    BY <1>2 DEF Stepping, Histories, At
  <2> HIDE DEF e, k
  <2> QED  BY <1>2, <1>3, <1>4, <1>5, <1>6, <2>1, <2>2, <2>3, AnswerGood DEF InOrder
<1>8. CASE call[l].sig # None
  <2>1. Quiet  BY <1>2, <1>4, <1>8, SlotQuiet DEF Running, Looking
  <2>2. served' = served  BY <2>1, QuietServes DEF Stepping, Quiet
  <2>3. ASSUME NEW j \in Keys, cached'[j] # None PROVE Behind(j, cached[j].version)'
    <3>1. Behind(j, cached[j].version)  BY <1>2, <2>3 DEF Stepping, Histories
    <3>2. e.version <= e.version  BY <1>3 DEF Envelopes, Versions
    <3> QED  BY <1>2, <1>4, <2>2, <3>1, <3>2 DEF Behind, OnlySlot, At
  <2>4. ASSUME NEW m \in Loads, HoldsAnswer(m)'
        PROVE  /\ Behind(call[m].key, call[m].env.version)'
               /\ call'[m].pc \in {"setexSig", "settle"}
                     => cached'[call'[m].key] \in {None, call'[m].env}
    <3>1. m # l /\ call'[m] = call[m] /\ HoldsAnswer(m)
      BY <1>2, <1>4, <1>8, <2>4 DEF OnlySlot, HoldsAnswer
    <3>2. Behind(call[m].key, call[m].env.version)
      BY <3>1 DEF Stepping, Histories
    <3>3. call[m].key = k => e.version <= call[m].env.version
      BY <1>5, <3>1 DEF InOrder
    <3>4. Behind(call[m].key, call[m].env.version)'
      BY <1>2, <1>4, <2>2, <3>1, <3>2, <3>3 DEF Behind, OnlySlot, At
    <3> QED  BY <1>2, <3>1, <3>4 DEF Stepping, Histories
  <2>5. \A m \in Loads : At(m, "getSig")' =>
           \/ \A u \in served[call[m].key] : u <= call'[m].env.version
           \/ At(m, "getSig") /\ call'[m].env = call[m].env
    BY <1>2, <1>4, <1>6 DEF OnlySlot, At
  <2> QED  BY <1>2, <2>1, <2>3, <2>4, <2>5, QuietHistories
<1> QED  BY <1>7, <1>8

LEMMA ValidateGood ==
    ASSUME Stepping, NEW l \in Loads, Validate(l)
    PROVE  Good
<1> DEFINE k == call[l].key
           v == call[l].env.version
<1>1. TypeOK /\ TypeOK' /\ Snapshots /\ call[l] \in Calls /\ call \in [Loads -> Calls]
  BY IInvTypes DEF Stepping, TypeOK
<1>2. /\ OnlySlot(l) /\ UNCHANGED <<source, cached>> /\ At(l, "getSig")
      /\ call[l].pc \in Running
  BY <1>1 DEF OnlySlot, Validate, redis, At, Running, Looking
<1>3. k \in Keys /\ call[l].env \in Envelopes
  BY <1>1, <1>2 DEF TypeOK, LocalsBound, At
<1>4. CASE storedSig[k] = call[l].sig
  <2>1. call'[l] = [[call[l] EXCEPT !.pc = "returned"] EXCEPT !.outcome = "ok"]
    BY <1>1, <1>4 DEF Validate
  <2>2. call'[l].pc = "returned" /\ call'[l].outcome = "ok" /\ call'[l].env = call[l].env
    BY <1>1, <2>1 DEF Calls
  <2>3. Ends({l}, k, "ok")  BY <1>2, <2>2, SlotEnds
  <2>4. NothingNew  BY <1>1, <1>2, <2>2, SlotNothingNew
  <2>5. v \in Versions /\ v <= source[CubeOf[k]]
    <3>1. call[l].env # None  BY <1>3, NoneAssumption
    <3> QED  BY <1>1, <1>3, <3>1 DEF Snapshots, EnvelopeOf, Envelopes
  <2>6. \A u \in before[l] : u <= v
    BY <1>2 DEF Stepping, Histories
  <2>7. InOrder(k, v)
    <3>1. cached[k] # None => v <= cached[k].version
      BY <1>2, <1>3 DEF Stepping, Histories, Behind
    <3>2. \A m \in Loads : HoldsAnswer(m) /\ call[m].key = k => v <= call[m].env.version
      BY <1>2, <1>3 DEF Stepping, Histories, Behind
    <3> QED  BY <2>5, <3>1, <3>2 DEF InOrder
  <2> HIDE DEF k, v
  <2>8. \A m \in {l} : call'[m].env.version = v  BY <2>2 DEF v
  <2> QED  BY <1>2, <1>3, <2>3, <2>4, <2>5, <2>6, <2>7, <2>8, AnswerGood
<1>5. CASE storedSig[k] # call[l].sig
  <2>1. call'[l].pc = "delete"
    <3>1. call'[l] = [[call[l] EXCEPT !.pc = "delete"] EXCEPT !.env = None]
      BY <1>1, <1>5 DEF Validate
    <3> QED  BY <1>1, <3>1 DEF Calls
  <2>2. Quiet  BY <1>2, <2>1, SlotQuiet DEF Running, Looking
  <2>3. NothingNew  BY <1>1, <1>2, <2>1, SlotNothingNew
  <2> QED  BY <1>2, <2>2, <2>3, QuietGood
<1> QED  BY <1>4, <1>5

LEMMA JoinGood ==
    ASSUME Stepping, NEW l \in Loads, Join(l)
    PROVE  Good
<1>1. TypeOK /\ TypeOK' /\ call[l] \in Calls /\ call \in [Loads -> Calls]
  BY IInvTypes DEF Stepping, TypeOK
<1>2. /\ OnlySlot(l) /\ UNCHANGED <<source, cached>> /\ At(l, "enter")
      /\ call[l].pc \in Running
  BY <1>1 DEF OnlySlot, Join, redis, At, Running, Looking
<1>3. call[l].key \in Keys
  BY <1>1, <1>2 DEF TypeOK, LocalsBound, At
<1>4. \/ call'[l].pc = "await"
      \/ call'[l].pc = "returned" /\ call'[l].outcome = "cancelled"
  BY <1>1 DEF Join, Calls
<1>5. NothingNew  BY <1>1, <1>2, <1>4, SlotNothingNew
<1>6. CASE call'[l].pc = "await"
  <2>1. Quiet  BY <1>2, <1>6, SlotQuiet
  <2> QED  BY <1>2, <1>5, <2>1, QuietGood
<1>7. CASE call'[l].pc = "returned" /\ call'[l].outcome = "cancelled"
  <2>1. Ends({l}, call[l].key, "cancelled")  BY <1>2, <1>7, SlotEnds
  <2> QED  BY <1>2, <1>3, <1>5, <2>1, RefuseGood
<1> QED  BY <1>4, <1>6, <1>7

LEMMA ExecuteGood ==
    ASSUME Stepping, NEW l \in Loads, Execute(l)
    PROVE  Good
<1> DEFINE k == call[l].key
           v == source[CubeOf[k]]
<1>1. TypeOK /\ TypeOK' /\ Snapshots /\ call[l] \in Calls /\ call \in [Loads -> Calls]
  BY IInvTypes DEF Stepping, TypeOK
<1>2. /\ OnlySlot(l) /\ UNCHANGED <<source, cached>> /\ At(l, "execute")
      /\ call[l].pc \in Running
  BY <1>1 DEF OnlySlot, Execute, ComputedFrom, redis, At, Running, Executing
<1>3. k \in Keys /\ v \in Versions
  BY <1>1, <1>2, ConstantsAssumption DEF TypeOK, LocalsBound, At
<1>4. /\ call'[l].env = [key |-> k, version |-> v] /\ call'[l].key = k
      /\ call[l].useCache => call'[l].pc = "setex"
      /\ ~call[l].useCache => call'[l].pc = "returned" /\ call'[l].outcome = "ok"
  BY <1>1 DEF Execute, ComputedFrom, CubeOfCall, Calls
<1>5. call'[l].env.version = v  BY <1>4
<1>6. \A u \in served[k] : u <= v
  BY <1>3 DEF Stepping, Histories
<1>7. CASE ~call[l].useCache
  <2>1. Ends({l}, k, "ok")  BY <1>2, <1>4, <1>7, SlotEnds
  <2>2. NothingNew  BY <1>1, <1>2, <1>4, <1>7, SlotNothingNew
  <2>3. before[l] \subseteq served[k]
    BY <1>2 DEF Stepping, Histories, At
  <2>4. v <= v  BY <1>3 DEF Versions
  <2>5. ~(\E m \in {l} : call[m].useCache)  BY <1>7
  <2> HIDE DEF k, v
  <2>6. v <= source[CubeOf[k]]  BY <2>4 DEF v
  <2> QED  BY <1>2, <1>3, <1>5, <1>6, <2>1, <2>2, <2>3, <2>5, <2>6, AnswerGood
<1>8. CASE call[l].useCache
  <2>1. Quiet  BY <1>2, <1>4, <1>8, SlotQuiet DEF Running, Executing
  <2>2. served' = served  BY <2>1, QuietServes DEF Stepping, Quiet
  <2>3. \A m \in Loads : At(m, "getSig")' => m # l /\ call'[m] = call[m] /\ At(m, "getSig")
    BY <1>2, <1>4, <1>8 DEF OnlySlot, At
  <2>4. ASSUME NEW j \in Keys, cached'[j] # None PROVE Behind(j, cached[j].version)'
    <3>1. Behind(j, cached[j].version)  BY <1>2, <2>4 DEF Stepping, Histories
    <3> QED  BY <1>2, <2>2, <2>3, <3>1 DEF Behind
  <2>5. Behind(call[l].key, call[l].env.version)'
    <3>1. ASSUME NEW m \in Loads, At(m, "getSig"), call[m].key = k
          PROVE  call[m].env.version <= v
      <4>1. call[m].env # None
        BY <1>1, <3>1, NoneAssumption DEF TypeOK, LocalsBound, At
      <4> QED  BY <1>1, <3>1, <4>1 DEF Snapshots, EnvelopeOf
    <3> QED  BY <1>4, <1>5, <1>6, <2>2, <2>3, <3>1 DEF Behind
  <2>6. ASSUME NEW m \in Loads, m # l, HoldsAnswer(m)'
        PROVE  /\ Behind(call[m].key, call[m].env.version)'
               /\ call'[m].pc \in {"setexSig", "settle"}
                     => cached'[call'[m].key] \in {None, call'[m].env}
    <3>1. call'[m] = call[m] /\ HoldsAnswer(m)
      BY <1>2, <2>6 DEF OnlySlot, HoldsAnswer
    <3>2. Behind(call[m].key, call[m].env.version)
      BY <3>1 DEF Stepping, Histories
    <3>3. Behind(call[m].key, call[m].env.version)'
      BY <2>2, <2>3, <3>1, <3>2 DEF Behind
    <3> QED  BY <1>2, <3>1, <3>3 DEF Stepping, Histories
  <2>7. \A m \in Loads : HoldsAnswer(m)' =>
           /\ Behind(call[m].key, call[m].env.version)'
           /\ call'[m].pc \in {"setexSig", "settle"}
                 => cached'[call'[m].key] \in {None, call'[m].env}
    BY <1>4, <1>8, <2>5, <2>6
  <2> QED  BY <1>2, <2>1, <2>3, <2>4, <2>7, QuietHistories
<1> QED  BY <1>7, <1>8

LEMMA SetExGood ==
    ASSUME Stepping, NEW l \in Loads, SetEx(l)
    PROVE  Good
<1> DEFINE k == call[l].key
<1>1. /\ TypeOK /\ TypeOK' /\ Sharing /\ call[l] \in Calls
      /\ call \in [Loads -> Calls]
  BY IInvTypes DEF Stepping, TypeOK
<1>2. /\ OnlySlot(l) /\ UNCHANGED source /\ At(l, "setex") /\ HoldsAnswer(l)
      /\ call[l].pc \in Running
  BY <1>1 DEF OnlySlot, SetEx, At, HoldsAnswer, Running, Executing
<1>3. k \in Keys /\ Leads(l)
  BY <1>1, <1>2 DEF TypeOK, LocalsBound, At, Leads, Executing
<1>4. /\ cached' = [cached EXCEPT ![k] = call[l].env]
      /\ cached'[k] = call[l].env
      /\ \A j \in Keys \ {k} : cached'[j] = cached[j]
  BY <1>1, <1>3 DEF SetEx, TypeOK
<1>5. /\ call'[l].env = call[l].env /\ call'[l].key = k
      /\ call'[l].pc \in {"setexSig", "settle"}
  BY <1>1 DEF SetEx, Calls
<1>6. Quiet  BY <1>2, <1>5, SlotQuiet DEF Running, Executing
<1>7. served' = served  BY <1>6, QuietServes DEF Stepping, Quiet
<1>8. \A m \in Loads : At(m, "getSig")' => m # l /\ call'[m] = call[m] /\ At(m, "getSig")
  BY <1>2, <1>5 DEF OnlySlot, At
<1>9. \A j \in Keys : \A w : Behind(j, w) => Behind(j, w)'
  BY <1>7, <1>8 DEF Behind
<1>10. Behind(k, call[l].env.version)
  BY <1>2 DEF Stepping, Histories
<1>11. ASSUME NEW j \in Keys, cached'[j] # None PROVE Behind(j, cached[j].version)'
  <2>1. CASE j = k  BY <1>3, <1>4, <1>7, <1>8, <1>10, <2>1 DEF Behind
  <2>2. CASE j # k
    <3>1. cached'[j] = cached[j]  BY <1>4, <2>2
    <3>2. Behind(j, cached[j].version)  BY <1>11, <3>1 DEF Stepping, Histories
    <3> QED  BY <1>7, <1>8, <3>1, <3>2 DEF Behind
  <2> QED  BY <2>1, <2>2
<1>12. ASSUME NEW m \in Loads, HoldsAnswer(m)'
       PROVE  /\ Behind(call[m].key, call[m].env.version)'
              /\ call'[m].pc \in {"setexSig", "settle"}
                    => cached'[call'[m].key] \in {None, call'[m].env}
  <2>1. CASE m = l  BY <1>4, <1>5, <1>7, <1>8, <1>10, <2>1 DEF Behind
  <2>2. CASE m # l
    <3>1. call'[m] = call[m] /\ HoldsAnswer(m)
      BY <1>2, <1>12, <2>2 DEF OnlySlot, HoldsAnswer
    <3>2. Leads(m) /\ call[m].key \in Keys
      BY <1>1, <3>1 DEF TypeOK, LocalsBound, At, Leads, Executing, HoldsAnswer
    <3>3. call[m].key # k
      BY <1>1, <1>3, <2>2, <3>2, OneLeader DEF Stepping
    <3>4. Behind(call[m].key, call[m].env.version)
      BY <3>1 DEF Stepping, Histories
    <3>5. Behind(call[m].key, call[m].env.version)'
      BY <1>7, <1>8, <3>1, <3>4 DEF Behind
    <3>6. cached'[call[m].key] = cached[call[m].key]  BY <1>4, <3>2, <3>3
    <3> QED  BY <3>1, <3>5, <3>6 DEF Stepping, Histories
  <2> QED  BY <2>1, <2>2
<1> QED  BY <1>2, <1>6, <1>8, <1>11, <1>12, QuietHistories

\* A step of one call that the service sees as a new request.
LEMMA SlotMaps ==
    ASSUME TypeOK, TypeOK', HTypes, Histories, Record, KeysKept,
           NEW l \in Loads, OnlySlot(l)
    PROVE  Requests' = [Requests EXCEPT ![l] = RequestOf(l)']
<1>1. \A m \in Loads \ {l} : RequestOf(m)' = RequestOf(m)
  BY SameRequest DEF OnlySlot
<1>2. Requests' = [m \in Loads |-> IF m = l THEN RequestOf(l)' ELSE RequestOf(m)]
  BY <1>1, RequestsOf
<1>3. Requests = [m \in Loads |-> RequestOf(m)]  BY RequestsOf
<1> QED  BY <1>2, <1>3

LEMMA FinishGood ==
    ASSUME Stepping, NEW l \in Loads, Finish(l)
    PROVE  Good
<1>1. TypeOK /\ TypeOK' /\ call \in [Loads -> Calls]
  BY IInvTypes DEF Stepping, TypeOK
<1>2. OnlySlot(l) /\ UNCHANGED <<source, cached>> /\ At(l, "returned") /\ call'[l] = Idle
  BY <1>1 DEF Finish, OnlySlot, redis
<1>3. At(l, "idle")' /\ ~At(l, "idle")  BY <1>2 DEF At, Idle
<1>4. served' = served
  BY <1>2, <1>3, QuietServes DEF Stepping, OnlySlot, At
<1>5. NothingNew
  BY <1>1, <1>2, <1>3, SlotNothingNew DEF At
<1>6. Histories'  BY <1>1, <1>4, <1>5, NothingNewKeeps DEF Stepping
<1>7. RequestOf(l)' = Service!NoRequest
  <2>1. before'[l] = {}  BY <1>1, <1>3, RecordBefore DEF Stepping
  <2> QED  BY <1>2, <1>3, <2>1 DEF RequestOf, Answered, At, Idle, Service!NoRequest
<1>8. Requests' = [Requests EXCEPT ![l] = Service!NoRequest]
  BY <1>1, <1>2, <1>7, SlotMaps DEF Stepping
<1>9. Requests[l].state = "done"  BY <1>2, <1>3 DEF Requests
<1>10. Service!Take(l)  BY <1>2, <1>4, <1>8, <1>9 DEF Service!Take
<1> QED  BY <1>6, <1>10 DEF Good, Service!Next

LEMMA BeginGood ==
    ASSUME Stepping, NEW l \in Loads, NEW k \in Keys, Begin(l, k) \/ BeginUncached(l, k)
    PROVE  Good
<1>1. TypeOK /\ TypeOK' /\ call \in [Loads -> Calls] /\ call[l] \in Calls
  BY IInvTypes DEF Stepping, TypeOK
<1>2. OnlySlot(l) /\ UNCHANGED <<source, cached>> /\ At(l, "idle") /\ call[l] = Idle
  BY <1>1 DEF Begin, BeginUncached, OnlySlot, redis, TypeOK, LocalsBound
<1>3. /\ call'[l].key = k /\ call'[l].useCache \in BOOLEAN
      /\ call'[l].pc \in {"probeCache", "probeSql", "get", "execute"}
  <2>1. CASE Begin(l, k)
    <3>1. call'[l] = [[[call[l] EXCEPT !.key = k] EXCEPT !.useCache = TRUE]
                        EXCEPT !.pc = FirstPoint(k)]
      BY <1>1, <2>1 DEF Begin
    <3> QED  BY <1>1, <3>1 DEF Calls, FirstPoint
  <2>2. CASE BeginUncached(l, k)
    <3>1. call'[l] = [[call[l] EXCEPT !.key = k] EXCEPT !.pc = "execute"]
      BY <1>1, <2>2 DEF BeginUncached
    <3> QED  BY <1>1, <3>1 DEF Calls
  <2> QED  BY <2>1, <2>2
<1>4. ~At(l, "idle")' /\ ~At(l, "returned")'  BY <1>3 DEF At
<1>5. served' = served
  BY <1>2, <1>4, QuietServes DEF Stepping, OnlySlot, At
<1>6. NothingNew
  BY <1>1, <1>2, <1>3, SlotNothingNew
<1>7. Histories'  BY <1>1, <1>5, <1>6, NothingNewKeeps DEF Stepping
<1>8. RequestOf(l)' = [state |-> "asked", key |-> k, useCache |-> call'[l].useCache,
                       before |-> served[k], answer |-> None]
  <2>1. before'[l] = served[k]  BY <1>1, <1>2, <1>3, <1>4, RecordBefore DEF Stepping
  <2> QED  BY <1>3, <1>4, <2>1 DEF RequestOf, Answered, At
<1>9. Requests' = [Requests EXCEPT ![l] =
                     [state |-> "asked", key |-> k, useCache |-> call'[l].useCache,
                      before |-> served[k], answer |-> None]]
  BY <1>1, <1>2, <1>8, SlotMaps DEF Stepping
<1>10. Requests[l].state = "none"  BY <1>2 DEF Requests
<1>11. Service!Ask(l, k, call'[l].useCache)
  BY <1>2, <1>5, <1>9, <1>10 DEF Service!Ask
<1> QED  BY <1>3, <1>7, <1>11 DEF Good, Service!Next

LEMMA EnvironmentGood ==
    ASSUME Stepping, Environment
    PROVE  Good
<1>1. TypeOK /\ TypeOK'  BY IInvTypes DEF Stepping
<1>2. /\ UNCHANGED call
      /\ \A c \in Cubes : source[c] <= source'[c]
      /\ \A k \in Keys : cached'[k] \in {None, cached[k]}
  <2>1. ASSUME NEW c \in Cubes, ChangeSource(c)
        PROVE  /\ UNCHANGED call
               /\ \A d \in Cubes : source[d] <= source'[d]
               /\ \A k \in Keys : cached'[k] \in {None, cached[k]}
    BY <1>1, <2>1 DEF ChangeSource, redis, TypeOK, Versions
  <2>2. ASSUME NEW c \in Cubes, ExpireProbe(c)
        PROVE  UNCHANGED <<source, cached, call>>
    BY <2>2 DEF ExpireProbe
  <2>3. ASSUME NEW k \in Keys, ExpireSig(k)
        PROVE  UNCHANGED <<source, cached, call>>
    BY <2>3 DEF ExpireSig
  <2>4. ASSUME NEW k \in Keys, ExpireCached(k)
        PROVE  /\ UNCHANGED <<source, call>>
               /\ \A j \in Keys : cached'[j] \in {None, cached[j]}
    BY <1>1, <2>4 DEF ExpireCached, TypeOK
  <2>5. UNCHANGED source => \A c \in Cubes : source[c] <= source'[c]
    BY <1>1 DEF TypeOK, Versions
  <2> QED  BY <2>1, <2>2, <2>3, <2>4, <2>5 DEF Environment
<1>3. Quiet /\ NothingNew
  BY <1>2 DEF Quiet, NothingNew, At, HoldsAnswer
<1>4. served' = served /\ Requests' = Requests
  BY <1>1, <1>3, QuietMaps DEF Stepping
<1>5. Histories'  BY <1>1, <1>3, <1>4, NothingNewKeeps DEF Stepping
<1>6. UNCHANGED source \/ \E c \in Cubes : Service!ChangeSource(c)
  BY <1>4 DEF Environment, ChangeSource, ExpireProbe, ExpireCached, ExpireSig,
       Service!ChangeSource
<1> QED  BY <1>4, <1>5, <1>6 DEF Good, Service!Next, Service!vars

LEMMA NextGood ==
    ASSUME Stepping, Next
    PROVE  Good
<1>1. ASSUME NEW l \in Loads, Step(l) PROVE Good
  BY <1>1, LookingGood, HitGood, ValidateGood, JoinGood, ExecuteGood, SetExGood,
     SettleGood, FinishGood DEF Step
<1> QED  BY <1>1, MishapGood, BeginGood, EnvironmentGood DEF Next

-----------------------------------------------------------------------------
\* HIInv holds initially, in an initial state of the service.
LEMMA HInitGood == HInit => HIInv /\ Service!Init
<1> SUFFICES ASSUME HInit PROVE HIInv /\ Service!Init
  OBVIOUS
<1>1. IInv  BY InitRefreshes DEF HInit
<1>2. HTypes  BY DEF HInit, HTypes
<1>3. \A l \in Loads : call[l] = Idle  BY DEF HInit, Init
<1>4. Histories
  BY <1>3 DEF HInit, Init, Idle, Histories, HoldsAnswer, At
<1>5. Requests = [l \in Loads |-> Service!NoRequest]
  <2>1. ASSUME NEW l \in Loads PROVE RequestOf(l) = Service!NoRequest
    <3>1. call[l] = Idle /\ before[l] = {}  BY <1>3 DEF HInit
    <3> QED  BY <3>1 DEF RequestOf, Answered, At, Idle, Service!NoRequest
  <2> QED  BY <2>1, RequestsOf
<1>6. Service!Init
  BY <1>5 DEF HInit, Init, Service!Init
<1> QED  BY <1>1, <1>2, <1>4, <1>6 DEF HIInv

\* With one worker every step keeps HIInv and is one of the service or none.
LEMMA HNextGood ==
    OneWorker => (HIInv /\ [HNext]_hvars => HIInv' /\ [Service!Next]_(Service!vars))
<1> SUFFICES ASSUME OneWorker, HIInv, [HNext]_hvars
             PROVE  HIInv' /\ [Service!Next]_(Service!vars)
  OBVIOUS
<1>1. CASE HNext
  <2>1. IInv'  BY <1>1, NextRefreshes DEF HIInv, HNext
  <2>2. TypeOK /\ TypeOK'  BY <2>1, IInvTypes DEF HIInv, IInv, Sharing
  <2>3. KeysKept  BY <1>1, <2>2, NextKeeps DEF HNext
  <2>4. HTypes'  BY <1>1, <2>2, RecordTypes DEF HIInv, HNext
  <2>5. Stepping  BY <1>1, <2>2, <2>3, <2>4 DEF Stepping, HIInv, HNext
  <2>6. Good  BY <1>1, <2>5, NextGood DEF HNext
  <2> QED  BY <2>1, <2>4, <2>6 DEF HIInv, Good
<1>2. CASE UNCHANGED hvars
  <2>1. UNCHANGED vars /\ UNCHANGED <<served, before>>  BY <1>2 DEF hvars
  <2>2. IInv'  BY <2>1, NextRefreshes DEF HIInv
  <2>3. UNCHANGED <<source, cached, call, served, before>>  BY <2>1 DEF vars, redis
  <2>4. HTypes' /\ Histories'
    BY <2>3 DEF HIInv, HTypes, Histories, HoldsAnswer, Behind, At
  <2>5. Requests' = Requests
    BY <2>3 DEF Requests, Answered, At
  <2> QED  BY <2>2, <2>3, <2>4, <2>5 DEF HIInv, Service!vars
<1> QED  BY <1>1, <1>2

\* The versions that calls were answered from stay in order: nothing that is
\* cached, held by a call or still to be stored is older than what was served
\* for its key before (lines 171-217 of load).
THEOREM AnswersKeepOrder ==
    ASSUME OneWorker
    PROVE  HSpec => []HIInv
<1>1. HInit => HIInv  BY HInitGood
<1>2. HIInv /\ [HNext]_hvars => HIInv'  BY HNextGood
<1> QED  BY <1>1, <1>2, PTL DEF HSpec

\* ImplementsService for every number of calls, keys, cubes and versions: the
\* load() of one worker is the service that never goes back.
THEOREM OrchestratorImplementsService ==
    ASSUME OneWorker
    PROVE  HSpec => ImplementsService
<1>1. HInit => HIInv /\ Service!Init  BY HInitGood
<1>2. HIInv /\ [HNext]_hvars => HIInv' /\ [Service!Next]_(Service!vars)
  BY HNextGood
<1> QED  BY <1>1, <1>2, PTL DEF HSpec, ImplementsService, Service!Spec

=============================================================================
