----------------------- MODULE QueryOrchestratorProofs -----------------------
(***************************************************************************)
(* Invariance proofs for QueryOrchestrator, for every value of its         *)
(* constants.                                                              *)
(***************************************************************************)
EXTENDS QueryOrchestrator, TLAPS

USE ConstantsAssumption, NoneAssumption

-----------------------------------------------------------------------------
(***************************************************************************)
(* Type correctness.                                                       *)
(***************************************************************************)

\* A step that only moves call l.
LEMMA GoTo ==
    ASSUME TypeOK, NEW l \in Loads, NEW p \in Points,
           call' = [call EXCEPT ![l].pc = p]
    PROVE  /\ call' \in [Loads -> Calls]
           /\ \A m \in Loads \ {l} : call'[m] = call[m]
           /\ call'[l].pc = p
           /\ call'[l].key = call[l].key /\ call'[l].useCache = call[l].useCache
           /\ call'[l].sig = call[l].sig /\ call'[l].env = call[l].env
           /\ call'[l].leader = call[l].leader
           /\ call'[l].outcome = call[l].outcome
<1>1. call \in [Loads -> Calls] /\ call[l] \in Calls  BY DEF TypeOK
<1>2. call' = [call EXCEPT ![l] = [call[l] EXCEPT !.pc = p]]
  BY <1>1
<1>3. [call[l] EXCEPT !.pc = p] \in Calls
  <2>1. ASSUME NEW r \in Calls PROVE [r EXCEPT !.pc = p] \in Calls  BY DEF Calls
  <2> QED  BY <1>1, <2>1
<1>4. call' \in [Loads -> Calls] BY <1>1, <1>2, <1>3
<1>5. call'[l] = [call[l] EXCEPT !.pc = p] BY <1>1, <1>2
<1> QED  BY <1>1, <1>2, <1>4, <1>5 DEF Calls

\* A step that only moves call l forward, its locals bound for where it goes.
LEMMA GoToTyped ==
    ASSUME TypeOK, NEW l \in Loads, NEW p \in Running,
           call' = [call EXCEPT ![l].pc = p],
           call[l].key \in Keys, call[l].useCache,
           p \in {"probeStore", "getSig", "delete", "setexSig"}
              => call[l].sig \in Versions,
           p \in {"getSig", "setex", "setexSig", "settle"}
              => call[l].env \in Envelopes
    PROVE  call' \in [Loads -> Calls] /\ \A m \in Loads : LocalsBound(m)'
<1>1. p \in Points /\ p \notin {"idle", "await", "returned"}
  BY DEF Points, Running, Looking, Executing
<1>2. LocalsBound(l)'
  <2>1. call'[l].pc = p /\ call'[l].key = call[l].key
        /\ (call'[l].useCache <=> call[l].useCache)
        /\ call'[l].sig = call[l].sig /\ call'[l].env = call[l].env
    BY <1>1, GoTo
  <2> QED  BY <1>1, <2>1 DEF LocalsBound, At
<1>3. ASSUME NEW m \in Loads \ {l} PROVE LocalsBound(m)'
  BY <1>1, <1>3, GoTo DEF TypeOK, LocalsBound, At
<1> QED  BY <1>1, <1>2, <1>3, GoTo

\* What LocalsBound asks of the locals r of a call.
Bound(r) ==
    /\ IF r.pc = "idle" THEN r = Idle ELSE r.key \in Keys
    /\ r.pc \in Looking \cup {"await", "setex", "setexSig", "settle"}
          => r.useCache
    /\ r.pc \in {"probeStore", "getSig", "delete", "setexSig"}
          => r.sig \in Versions
    /\ r.pc \in {"getSig", "setex", "setexSig", "settle"}
          => r.env \in Envelopes
    /\ r.pc = "returned" /\ r.outcome = "ok" => r.env \in Envelopes
    /\ r.pc = "await" => r.leader \in Loads

\* A step that gives call l new locals, and changes nothing else, keeps the
\* types if those locals are bound.
LEMMA SlotTypeOK ==
    ASSUME TypeOK, NEW l \in Loads, NEW r \in Calls, Bound(r),
           call' = [call EXCEPT ![l] = r],
           UNCHANGED <<source, redis, futures>>
    PROVE  TypeOK'
<1>1. call \in [Loads -> Calls]  BY DEF TypeOK
<1>2. call' \in [Loads -> Calls] /\ call'[l] = r
      /\ \A m \in Loads \ {l} : call'[m] = call[m]
  BY <1>1
<1>3. LocalsBound(l)'  BY <1>2 DEF LocalsBound, Bound, At
<1>4. ASSUME NEW m \in Loads \ {l} PROVE LocalsBound(m)'
  <2>1. call'[m] = call[m] /\ LocalsBound(m)  BY <1>2 DEF TypeOK
  <2> QED  BY <2>1 DEF LocalsBound, At
<1>5. UNCHANGED <<source, cached, storedSig, probeCache, inflight,
                  futureCancelled>>
  BY DEF redis, futures
<1> QED  BY <1>2, <1>3, <1>4, <1>5 DEF TypeOK

\* The calls a call's end touches, and how.
LEMMA EndEffect ==
    ASSUME TypeOK, NEW l \in Loads, NEW how \in Outcomes, End(l, how),
           NEW m \in Loads
    PROVE  /\ call'[m] \in Calls
           /\ m \in {l} \cup Waiters(l) =>
                /\ call'[m].pc = "returned" /\ call'[m].outcome = how
                /\ call'[m].env = call[l].env
                /\ call'[m].key = call[m].key /\ call'[m].sig = call[m].sig
                /\ call'[m].useCache = call[m].useCache
                /\ call'[m].leader = call[m].leader
           /\ m \notin {l} \cup Waiters(l) => call'[m] = call[m]
<1>1. call[l] \in Calls /\ call[m] \in Calls  BY DEF TypeOK
<1>2. "returned" \in Points  BY DEF Points
<1>3. CASE m \in {l} \cup Waiters(l)
  <2>1. call'[m] = [call[m] EXCEPT !.pc = "returned", !.env = call[l].env,
                                   !.outcome = how]
    BY <1>3 DEF End
  <2> QED  BY <1>1, <1>2, <1>3, <2>1 DEF Calls
<1>4. CASE m \notin {l} \cup Waiters(l)
  BY <1>1, <1>4 DEF End
<1> QED  BY <1>3, <1>4

\* The calls a waiter's cancellation touches, and how.
LEMMA CancelEffect ==
    ASSUME TypeOK, NEW l \in Loads, CancelWaiting(l), NEW m \in Loads
    PROVE  /\ call'[m] \in Calls
           /\ m \in Waiters(call[l].leader) =>
                /\ call'[m].pc = "returned" /\ call'[m].outcome = "cancelled"
                /\ call'[m].env = call[m].env
                /\ call'[m].key = call[m].key /\ call'[m].sig = call[m].sig
                /\ call'[m].useCache = call[m].useCache
                /\ call'[m].leader = call[m].leader
           /\ m \notin Waiters(call[l].leader) => call'[m] = call[m]
<1>1. call[m] \in Calls  BY DEF TypeOK
<1>2. "returned" \in Points /\ "cancelled" \in Outcomes  BY DEF Points, Outcomes
<1>3. CASE m \in Waiters(call[l].leader)
  <2>1. call'[m] = [call[m] EXCEPT !.pc = "returned", !.outcome = "cancelled"]
    BY <1>3 DEF CancelWaiting
  <2> QED  BY <1>1, <1>2, <1>3, <2>1 DEF Calls
<1>4. CASE m \notin Waiters(call[l].leader)
  BY <1>1, <1>4 DEF CancelWaiting
<1> QED  BY <1>3, <1>4

\* The end of a call and of its waiters keeps the types.
LEMMA EndTypeOK ==
    ASSUME TypeOK, NEW l \in Loads, NEW how \in Outcomes, End(l, how),
           call[l].pc \in Running, how = "ok" => At(l, "settle")
    PROVE  TypeOK'
<1>1. call' \in [Loads -> Calls]  BY EndEffect DEF End
<1>2. inflight' \in [Workers -> [Keys -> Loads \cup {None}]]
  BY DEF TypeOK, End
<1>3. ASSUME NEW m \in Loads PROVE LocalsBound(m)'
  <2>1. CASE m \in {l} \cup Waiters(l)
    <3>1. call'[m].pc = "returned" /\ call'[m].key = call[m].key
          /\ call'[m].env = call[l].env /\ call'[m].outcome = how
      BY <2>1, EndEffect
    <3>2. call[m].key \in Keys
      BY <2>1 DEF TypeOK, LocalsBound, Waiters, At, Running, Looking, Executing
    <3>3. how = "ok" => call[l].env \in Envelopes
      BY DEF TypeOK, LocalsBound, At
    <3> QED  BY <3>1, <3>2, <3>3 DEF LocalsBound, At, Looking
  <2>2. CASE m \notin {l} \cup Waiters(l)
    BY <2>2, EndEffect DEF TypeOK, At, LocalsBound
  <2> QED  BY <2>1, <2>2
<1> QED  BY <1>1, <1>2, <1>3 DEF TypeOK, End, redis

\* The cancellation of a shared future keeps the types.
LEMMA CancelTypeOK ==
    ASSUME TypeOK, NEW l \in Loads, CancelWaiting(l)
    PROVE  TypeOK'
<1>1. call' \in [Loads -> Calls]  BY CancelEffect DEF CancelWaiting
<1>2. ASSUME NEW m \in Loads PROVE LocalsBound(m)'
  <2>1. CASE m \in Waiters(call[l].leader)
    <3>1. call'[m].pc = "returned" /\ call'[m].key = call[m].key
          /\ call'[m].outcome = "cancelled"
      BY <2>1, CancelEffect
    <3>2. call[m].key \in Keys
      BY <2>1 DEF TypeOK, LocalsBound, Waiters, At
    <3> QED  BY <3>1, <3>2 DEF LocalsBound, At, Looking
  <2>2. CASE m \notin Waiters(call[l].leader)
    BY <2>2, CancelEffect DEF TypeOK, At, LocalsBound
  <2> QED  BY <2>1, <2>2
<1> QED  BY <1>1, <1>2 DEF TypeOK, CancelWaiting, redis

\* Serving or dropping a validated envelope keeps the types.
LEMMA ValidateTypeOK ==
    ASSUME TypeOK, NEW l \in Loads, Validate(l)
    PROVE  TypeOK'
<1>1. CASE storedSig[call[l].key] = call[l].sig
  <2>1. call[l] \in Calls  BY DEF TypeOK
  <2>2. PICK r \in Calls :
           r = [call[l] EXCEPT !.pc = "returned", !.outcome = "ok"]
    BY <2>1 DEF Calls, Points, Outcomes
  <2>3. call' = [call EXCEPT ![l] = r]
    BY <1>1, <2>1, <2>2 DEF Validate, TypeOK
  <2>4. r.pc = "returned" /\ r.env = call[l].env /\ r.key = call[l].key
    BY <2>1, <2>2 DEF Calls
  <2>5. call[l].env \in Envelopes /\ call[l].key \in Keys
    BY DEF Validate, TypeOK, LocalsBound, At
  <2>6. LocalsBound(l)'
    BY <2>2, <2>3, <2>4, <2>5 DEF LocalsBound, TypeOK, At, Looking
  <2>7. \A m \in Loads \ {l} : LocalsBound(m)'
    BY <2>3 DEF LocalsBound, TypeOK, At
  <2> QED  BY <2>2, <2>3, <2>6, <2>7 DEF Validate, redis, futures, TypeOK
<1>2. CASE storedSig[call[l].key] # call[l].sig
  <2>1. call[l] \in Calls  BY DEF TypeOK
  <2>2. PICK r \in Calls :
           r = [call[l] EXCEPT !.pc = "delete", !.env = None]
    BY <2>1 DEF Calls, Points, Running, Looking
  <2>3. call' = [call EXCEPT ![l] = r]
    BY <1>2, <2>1, <2>2 DEF Validate, TypeOK
  <2>4. r.pc = "delete" /\ r.sig = call[l].sig /\ r.key = call[l].key
        /\ r.useCache = call[l].useCache
    BY <2>1, <2>2 DEF Calls
  <2>5. call[l].sig \in Versions /\ call[l].key \in Keys /\ call[l].useCache
    BY DEF Validate, TypeOK, LocalsBound, At, Looking
  <2>6. LocalsBound(l)'
    BY <2>2, <2>3, <2>4, <2>5 DEF LocalsBound, TypeOK, At, Looking
  <2>7. \A m \in Loads \ {l} : LocalsBound(m)'
    BY <2>3 DEF LocalsBound, TypeOK, At
  <2> QED  BY <2>2, <2>3, <2>6, <2>7 DEF Validate, redis, futures, TypeOK
<1> QED  BY <1>1, <1>2

\* The steps a call takes by itself.
LEMMA StepTypeOK ==
    ASSUME TypeOK, NEW l \in Loads, Step(l)
    PROVE  TypeOK'
<1> USE DEF At, CubeOfCall, redis, futures
<1>0. Looking \subseteq Points /\ Executing \subseteq Points
      /\ "returned" \in Points
  BY DEF Points, Running
<1>a. call[l] \in Calls /\ call \in [Loads -> Calls]  BY DEF TypeOK
<1>1. CASE ReadProbeCache(l)
  <2>1. call[l].key \in Keys /\ call[l].useCache
    BY <1>1 DEF ReadProbeCache, TypeOK, LocalsBound, Looking
  <2>2. PICK v \in Versions \cup {None}, p \in {"probeSql", "get"} :
           call' = [call EXCEPT ![l].sig = v, ![l].pc = p]
    <3>1. probeCache[CubeOf[call[l].key]] \in Versions \cup {None}
      BY <2>1 DEF TypeOK
    <3> QED  BY <1>1, <3>1 DEF ReadProbeCache
  <2>3. PICK r \in Calls : r = [call[l] EXCEPT !.sig = v, !.pc = p]
    BY <1>a, <1>0 DEF Calls, Looking
  <2>4. call' = [call EXCEPT ![l] = r]  BY <1>a, <2>2, <2>3
  <2>5. r.pc = p /\ r.key = call[l].key /\ (r.useCache <=> call[l].useCache)
    BY <1>a, <2>3 DEF Calls
  <2>6. Bound(r)  BY <2>1, <2>2, <2>5 DEF Bound
  <2>7. UNCHANGED <<source, redis, futures>>  BY <1>1 DEF ReadProbeCache
  <2> HIDE DEF redis, futures
  <2> QED  BY <2>4, <2>6, <2>7, SlotTypeOK
<1>2. CASE RunProbe(l)
  <2>1. call[l].key \in Keys /\ call[l].useCache
    BY <1>2 DEF RunProbe, TypeOK, LocalsBound, Looking
  <2>2. PICK v \in Versions, p \in {"probeStore", "get"} :
           call' = [call EXCEPT ![l].sig = v, ![l].pc = p]
    <3>1. source[CubeOf[call[l].key]] \in Versions
      BY <2>1 DEF TypeOK
    <3> QED  BY <1>2, <3>1 DEF RunProbe
  <2>3. PICK r \in Calls : r = [call[l] EXCEPT !.sig = v, !.pc = p]
    BY <1>a, <1>0 DEF Calls, Looking
  <2>4. call' = [call EXCEPT ![l] = r]  BY <1>a, <2>2, <2>3
  <2>5. r.pc = p /\ r.key = call[l].key /\ r.sig = v
        /\ (r.useCache <=> call[l].useCache)
    BY <1>a, <2>3 DEF Calls
  <2>6. Bound(r)  BY <2>1, <2>2, <2>5 DEF Bound
  <2>7. UNCHANGED <<source, redis, futures>>  BY <1>2 DEF RunProbe
  <2> HIDE DEF redis, futures
  <2> QED  BY <2>4, <2>6, <2>7, SlotTypeOK
<1>3. CASE StoreProbe(l)
  <2>0. call' = [call EXCEPT ![l].pc = "get"] /\ "get" \in Running
        /\ call[l].key \in Keys /\ call[l].useCache /\ call[l].pc = "probeStore"
    BY <1>3 DEF StoreProbe, TypeOK, LocalsBound, Running, Looking, Executing
  <2>1. call' \in [Loads -> Calls] /\ \A m \in Loads : LocalsBound(m)'
    BY <1>3, <2>0, GoToTyped DEF TypeOK, LocalsBound
  <2> QED  BY <1>3, <2>1 DEF StoreProbe, TypeOK, LocalsBound, Looking
<1>4. CASE Miss(l)
  <2>0. call' = [call EXCEPT ![l].pc = "enter"] /\ "enter" \in Running
        /\ call[l].key \in Keys /\ call[l].useCache /\ call[l].pc = "get"
    BY <1>4 DEF Miss, TypeOK, LocalsBound, Running, Looking, Executing
  <2>1. call' \in [Loads -> Calls] /\ \A m \in Loads : LocalsBound(m)'
    BY <1>4, <2>0, GoToTyped DEF TypeOK, LocalsBound
  <2> QED  BY <1>4, <2>1 DEF Miss, TypeOK
<1>5. CASE Hit(l)
  <2>1. call[l].key \in Keys /\ call[l].useCache
    BY <1>5 DEF Hit, TypeOK, LocalsBound, Looking
  <2>2. cached[call[l].key] \in Envelopes
    BY <1>5, <2>1 DEF Hit, TypeOK
  <2>3. PICK e \in Envelopes, p \in {"returned", "getSig"}, o \in {"ok", "none"} :
           /\ call' = [call EXCEPT ![l].env = e, ![l].pc = p, ![l].outcome = o]
           /\ p = "getSig" => call[l].sig # None
    BY <1>5, <2>2 DEF Hit
  <2>4. PICK r \in Calls : r = [call[l] EXCEPT !.env = e, !.pc = p, !.outcome = o]
    BY <1>a, <1>0 DEF Calls, Looking, Outcomes
  <2>5. call' = [call EXCEPT ![l] = r]  BY <1>a, <2>3, <2>4
  <2>6. r.pc = p /\ r.key = call[l].key /\ r.env = e /\ r.sig = call[l].sig
        /\ (r.useCache <=> call[l].useCache)
    BY <1>a, <2>4 DEF Calls
  <2>7. call[l].sig \in Versions \cup {None}  BY <1>a DEF Calls
  <2>8. Bound(r)  BY <2>1, <2>3, <2>6, <2>7 DEF Bound
  <2>9. UNCHANGED <<source, redis, futures>>  BY <1>5 DEF Hit
  <2> HIDE DEF redis, futures
  <2> QED  BY <2>5, <2>8, <2>9, SlotTypeOK
<1>6. CASE Validate(l)  BY <1>6, ValidateTypeOK
<1>7. CASE Delete(l)
  <2>0. call' = [call EXCEPT ![l].pc = "enter"] /\ "enter" \in Running
        /\ call[l].key \in Keys /\ call[l].useCache /\ call[l].pc = "delete"
    BY <1>7 DEF Delete, TypeOK, LocalsBound, Running, Looking, Executing
  <2>1. call' \in [Loads -> Calls] /\ \A m \in Loads : LocalsBound(m)'
    BY <1>7, <2>0, GoToTyped DEF TypeOK, LocalsBound
  <2> QED  BY <1>7, <2>1 DEF Delete, TypeOK
<1>8. CASE Join(l)
  <2>1. call[l].key \in Keys /\ call[l].useCache /\ call[l].outcome \in Outcomes
    BY <1>8, <1>a DEF Join, TypeOK, LocalsBound, Looking, Calls
  <2>2. Entry(l) \in Loads
    <3>1. Home[l] \in Workers /\ Entry(l) # None
      BY <1>8, ConstantsAssumption DEF Join
    <3>2. inflight[Home[l]][call[l].key] \in Loads \cup {None}
      BY <2>1, <3>1 DEF TypeOK
    <3> QED  BY <3>1, <3>2 DEF Entry
  <2>3. PICK p \in {"await", "returned"}, o \in {call[l].outcome, "cancelled"} :
           /\ call' = [call EXCEPT ![l].leader = Entry(l), ![l].pc = p,
                                   ![l].outcome = o]
           /\ p = "returned" => o = "cancelled"
    <3>1. call' = [call EXCEPT ![l].leader = Entry(l), ![l].pc = "await"]
             => call' = [call EXCEPT ![l].leader = Entry(l), ![l].pc = "await",
                                     ![l].outcome = call[l].outcome]
      BY <1>a DEF Calls
    <3> QED  BY <1>8, <3>1 DEF Join
  <2>4. PICK r \in Calls :
           r = [call[l] EXCEPT !.leader = Entry(l), !.pc = p, !.outcome = o]
    BY <1>a, <2>1, <2>2 DEF Calls, Points, Outcomes
  <2>5. call' = [call EXCEPT ![l] = r]  BY <1>a, <2>3, <2>4
  <2>6. r.pc = p /\ r.key = call[l].key /\ r.outcome = o /\ r.leader = Entry(l)
        /\ (r.useCache <=> call[l].useCache)
    BY <1>a, <2>4 DEF Calls
  <2>7. Bound(r)  BY <2>1, <2>2, <2>3, <2>6 DEF Bound, Looking
  <2>8. UNCHANGED <<source, redis, futures>>  BY <1>8 DEF Join
  <2> HIDE DEF redis, futures
  <2> QED  BY <2>5, <2>7, <2>8, SlotTypeOK
<1>9. CASE Lead(l)
  <2>0. call' = [call EXCEPT ![l].pc = "execute"] /\ "execute" \in Running
        /\ call[l].key \in Keys /\ call[l].useCache /\ call[l].pc = "enter"
    BY <1>9 DEF Lead, TypeOK, LocalsBound, Running, Looking, Executing
  <2>1. call' \in [Loads -> Calls] /\ \A m \in Loads : LocalsBound(m)'
    BY <1>9, <2>0, GoToTyped DEF TypeOK, LocalsBound
  <2>2. inflight' \in [Workers -> [Keys -> Loads \cup {None}]]
    BY <1>9 DEF Lead, TypeOK
  <2> QED  BY <1>9, <2>1, <2>2 DEF Lead, TypeOK
<1>10. CASE Execute(l)
  <2>1. source[CubeOfCall(l)] \in Versions /\ call[l].key \in Keys
    BY <1>10 DEF Execute, ComputedFrom, TypeOK, LocalsBound
  <2>2. [key |-> call[l].key, version |-> source[CubeOfCall(l)]] \in Envelopes
    BY <2>1 DEF Envelopes
  <2>3. call[l] \in Calls  BY DEF TypeOK
  <2>4. PICK e \in Envelopes, p \in {"setex", "returned"}, o \in {"none", "ok"} :
           /\ call' = [call EXCEPT ![l].env = e, ![l].pc = p, ![l].outcome = o]
           /\ p = "setex" => call[l].useCache
    BY <1>10, <2>2 DEF Execute, ComputedFrom
  <2>5. PICK r \in Calls : r = [call[l] EXCEPT !.env = e, !.pc = p, !.outcome = o]
    BY <1>0, <2>3 DEF Calls, Outcomes, Executing
  <2>6. call' = [call EXCEPT ![l] = r]
    BY <2>3, <2>4, <2>5 DEF TypeOK
  <2>7. r.pc = p /\ r.env = e /\ r.key = call[l].key
        /\ (r.useCache <=> call[l].useCache)
    BY <2>3, <2>5 DEF Calls
  <2>8. LocalsBound(l)'
    BY <2>1, <2>4, <2>5, <2>6, <2>7 DEF LocalsBound, TypeOK, Looking
  <2>9. \A m \in Loads \ {l} : LocalsBound(m)'
    BY <2>6 DEF LocalsBound, TypeOK
  <2>10. call' \in [Loads -> Calls]  BY <2>5, <2>6 DEF TypeOK
  <2>11. UNCHANGED <<source, redis, futures>>
    BY <1>10 DEF Execute, ComputedFrom
  <2> QED  BY <2>8, <2>9, <2>10, <2>11 DEF TypeOK
<1>11. CASE SetEx(l)
  <2>0. PICK p \in {"setexSig", "settle"} :
           /\ call' = [call EXCEPT ![l].pc = p]
           /\ p = "setexSig" => call[l].sig # None
    BY <1>11 DEF SetEx
  <2>a. p \in Running /\ call[l].key \in Keys /\ call[l].useCache
        /\ call[l].env \in Envelopes
    BY <1>11 DEF SetEx, TypeOK, LocalsBound, Running, Executing
  <2>b. call[l].sig \in Versions \cup {None}  BY DEF TypeOK, Calls
  <2>1. call' \in [Loads -> Calls] /\ \A m \in Loads : LocalsBound(m)'
    BY <2>0, <2>a, <2>b, GoToTyped
  <2>2. cached' \in [Keys -> Envelopes \cup {None}]
    BY <1>11 DEF SetEx, TypeOK, LocalsBound
  <2> QED  BY <1>11, <2>1, <2>2 DEF SetEx, TypeOK
<1>12. CASE SetExSig(l)
  <2>0. call' = [call EXCEPT ![l].pc = "settle"] /\ "settle" \in Running
        /\ call[l].key \in Keys /\ call[l].useCache /\ call[l].pc = "setexSig"
    BY <1>12 DEF SetExSig, TypeOK, LocalsBound, Running, Looking, Executing
  <2>1. call' \in [Loads -> Calls] /\ \A m \in Loads : LocalsBound(m)'
    BY <1>12, <2>0, GoToTyped DEF TypeOK, LocalsBound
  <2>2. storedSig' \in [Keys -> Versions \cup {None}]
    BY <1>12 DEF SetExSig, TypeOK, LocalsBound
  <2> QED  BY <1>12, <2>1, <2>2 DEF SetExSig, TypeOK
<1>13. CASE Settle(l)
  BY <1>13, EndTypeOK DEF Settle, Running, Executing, Outcomes
<1>14. CASE Finish(l)
  BY <1>14 DEF Finish, Idle, TypeOK, LocalsBound, Calls, Points, Looking, Outcomes
<1> QED
  BY <1>1, <1>2, <1>3, <1>4, <1>5, <1>6, <1>7, <1>8, <1>9, <1>10, <1>11,
     <1>12, <1>13, <1>14 DEF Step

\* The start of a call keeps the types.
LEMMA BeginTypeOK ==
    ASSUME TypeOK, NEW l \in Loads, NEW k \in Keys,
           Begin(l, k) \/ BeginUncached(l, k)
    PROVE  TypeOK'
<1>1. call[l] \in Calls /\ call \in [Loads -> Calls] /\ call[l] = Idle
  BY DEF TypeOK, LocalsBound, Begin, BeginUncached, At
<1>2. PICK p \in {"probeCache", "probeSql", "get", "execute"}, b \in BOOLEAN :
         /\ call' = [call EXCEPT ![l].key = k, ![l].useCache = b, ![l].pc = p]
         /\ p # "execute" => b
  <2>1. CASE Begin(l, k)  BY <2>1 DEF Begin, FirstPoint
  <2>2. CASE BeginUncached(l, k)
    <3>1. call[l].useCache = FALSE  BY <1>1 DEF Idle
    <3>2. call' = [call EXCEPT ![l].key = k, ![l].useCache = FALSE,
                               ![l].pc = "execute"]
      BY <1>1, <2>2, <3>1 DEF BeginUncached, Idle
    <3> QED  BY <3>2
  <2> QED  BY <2>1, <2>2
<1>3. p \in Points  BY DEF Points, Running, Looking, Executing
<1>4. PICK r \in Calls : r = [call[l] EXCEPT !.key = k, !.useCache = b, !.pc = p]
  BY <1>1, <1>3 DEF Calls
<1>5. call' = [call EXCEPT ![l] = r]  BY <1>1, <1>2, <1>4
<1>6. r.pc = p /\ r.key = k /\ r.useCache = b  BY <1>1, <1>4 DEF Calls
<1>7. Bound(r)  BY <1>2, <1>6 DEF Bound, Looking
<1>8. UNCHANGED <<source, redis, futures>>  BY DEF Begin, BeginUncached
<1> QED  BY <1>5, <1>7, <1>8, SlotTypeOK

\* A failure or a cancellation keeps the types.
LEMMA MishapTypeOK ==
    ASSUME TypeOK, NEW l \in Loads, Mishap(l)
    PROVE  TypeOK'
<1>1. CASE Fail(l)  BY <1>1, EndTypeOK DEF Fail, Outcomes
<1>2. CASE CancelRunning(l)  BY <1>2, EndTypeOK DEF CancelRunning, Outcomes
<1>3. CASE CancelWaiting(l)  BY <1>3, CancelTypeOK
<1> QED  BY <1>1, <1>2, <1>3 DEF Mishap

\* A change of data or an expiry keeps the types.
LEMMA EnvironmentTypeOK == TypeOK /\ Environment => TypeOK'
<1> SUFFICES ASSUME TypeOK, Environment PROVE TypeOK'
  OBVIOUS
<1> USE DEF TypeOK, LocalsBound, At, redis, futures
<1>1. ASSUME NEW c \in Cubes, ChangeSource(c) PROVE TypeOK'
  BY <1>1 DEF ChangeSource, Versions
<1>2. ASSUME NEW c \in Cubes, ExpireProbe(c) PROVE TypeOK'
  BY <1>2 DEF ExpireProbe
<1>3. ASSUME NEW k \in Keys, ExpireCached(k) PROVE TypeOK'
  BY <1>3 DEF ExpireCached
<1>4. ASSUME NEW k \in Keys, ExpireSig(k) PROVE TypeOK'
  BY <1>4 DEF ExpireSig
<1> QED  BY <1>1, <1>2, <1>3, <1>4 DEF Environment

\* The initial state is typed.
LEMMA InitTypeOK == Init => TypeOK
  BY DEF Init, TypeOK, Idle, Calls, Versions, Points, Running, Looking,
         Executing, Outcomes, LocalsBound, At

\* Every step keeps the types.
LEMMA NextTypeOK == TypeOK /\ [Next]_vars => TypeOK'
<1> SUFFICES ASSUME TypeOK, [Next]_vars PROVE TypeOK'
  OBVIOUS
<1>1. CASE Next
  BY <1>1, StepTypeOK, MishapTypeOK, BeginTypeOK, EnvironmentTypeOK DEF Next
<1>2. CASE UNCHANGED vars
  BY <1>2 DEF TypeOK, LocalsBound, At, vars, redis, futures
<1> QED  BY <1>1, <1>2

\* Every variable keeps its type, and no step of load() reads a local that
\* has not been assigned, in any number of workers.
THEOREM TypeCorrect == Spec => []TypeOK
  BY InitTypeOK, NextTypeOK, PTL DEF Spec

-----------------------------------------------------------------------------
(***************************************************************************)
(* De-duplication: _inflight and the waiters.  The two invariants need     *)
(* each other: an ending call answers all its waiters because it is the    *)
(* leader of each, and a joiner finds a leader because no entry is stale.  *)
(***************************************************************************)
Sharing == TypeOK /\ InflightExact /\ NoStrandedWaiter

\* The step leaves alone who leads and for which key, and adds no waiter.
Undisturbed ==
    \A m \in Loads :
        /\ Leads(m)' <=> Leads(m)
        /\ Leads(m) => call'[m].key = call[m].key
        /\ At(m, "await")' => /\ At(m, "await")
                              /\ call'[m].leader = call[m].leader
                              /\ call'[m].key = call[m].key

\* A step that leaves the futures and their users alone keeps Sharing.
LEMMA UndisturbedSharing ==
    ASSUME Sharing, Undisturbed, UNCHANGED futures
    PROVE  InflightExact' /\ NoStrandedWaiter'
<1>1. ASSUME NEW w \in Workers, NEW k \in Keys, inflight[w][k] # None
      PROVE  LeadsFor(inflight[w][k], w, k)'
  <2>1. inflight[w][k] \in Loads  BY <1>1 DEF Sharing, TypeOK
  <2>2. inflight'[w][k] = inflight[w][k]  BY DEF futures
  <2> QED
    BY <1>1, <2>1, <2>2 DEF Sharing, InflightExact, LeadsFor, Undisturbed
<1>2. ASSUME NEW l \in Loads, Leads(l)' PROVE Entry(l)' = l
  BY <1>2 DEF Sharing, InflightExact, Undisturbed, Entry, futures
<1>3. InflightExact'  BY <1>1, <1>2 DEF InflightExact, futures
<1>4. ASSUME NEW l \in Loads, At(l, "await")'
      PROVE  /\ LeadsFor(call[l].leader, Home[l], call[l].key)'
             /\ ~futureCancelled'[call'[l].leader]
  <2>1. At(l, "await") /\ call'[l].leader = call[l].leader
        /\ call'[l].key = call[l].key
    BY <1>4 DEF Undisturbed
  <2>2. call[l].leader \in Loads  BY <2>1 DEF Sharing, TypeOK, LocalsBound
  <2> QED
    BY <2>1, <2>2 DEF Sharing, NoStrandedWaiter, LeadsFor, Undisturbed, futures
<1>5. NoStrandedWaiter'  BY <1>4 DEF NoStrandedWaiter
<1> QED  BY <1>3, <1>5

\* The end of a call pops its entry and releases all of its waiters.
LEMMA EndSharing ==
    ASSUME Sharing, NEW l \in Loads, NEW how \in Outcomes, End(l, how),
           call[l].pc \in Running
    PROVE  InflightExact' /\ NoStrandedWaiter'
<1>1. \A m \in Waiters(l) : Leads(l) /\ ~Leads(m)
  BY DEF Sharing, NoStrandedWaiter, LeadsFor, Waiters, At, Leads, Executing
<1>2. \A m \in {l} \cup Waiters(l) : ~Leads(m)' /\ ~At(m, "await")'
  BY EndEffect DEF Sharing, Leads, At, Executing, Waiters
<1>3. \A m \in Loads \ ({l} \cup Waiters(l)) : call'[m] = call[m]
  BY EndEffect DEF Sharing
<1>4. \A m \in Loads \ {l} : Leads(m)' <=> Leads(m)
  BY <1>1, <1>2, <1>3 DEF Leads, Waiters
<1>5. \A m \in Loads \ {l} : Leads(m) => call'[m] = call[m]
  BY <1>1, <1>3
<1>6. Leads(l) => Entry(l) = l /\ call[l].key \in Keys /\ Home[l] \in Workers
  BY DEF Sharing, InflightExact, TypeOK, LocalsBound, Leads, At, Executing
<1>7. ASSUME NEW w \in Workers, NEW k \in Keys, inflight'[w][k] # None
      PROVE  LeadsFor(inflight[w][k], w, k)'
  <2>1. inflight'[w][k] = inflight[w][k]
        /\ ~(Leads(l) /\ w = Home[l] /\ k = call[l].key)
    BY <1>6, <1>7 DEF End, Sharing, TypeOK
  <2>2. PICK m \in Loads : m = inflight[w][k]
    BY <1>7, <2>1 DEF Sharing, TypeOK
  <2>3. LeadsFor(m, w, k)
    BY <1>7, <2>1, <2>2 DEF Sharing, InflightExact
  <2>4. m # l  BY <2>1, <2>3 DEF LeadsFor
  <2> QED  BY <1>4, <1>5, <2>1, <2>2, <2>3, <2>4 DEF LeadsFor
<1>8. ASSUME NEW m \in Loads, Leads(m)' PROVE Entry(m)' = m
  <2>1. m # l /\ Leads(m) /\ call'[m] = call[m]  BY <1>2, <1>4, <1>5, <1>8
  <2>2. Entry(m) = m  BY <2>1 DEF Sharing, InflightExact
  <2>3. call[m].key \in Keys /\ Home[m] \in Workers
    BY <2>1 DEF Sharing, TypeOK, LocalsBound, Leads, At, Executing
  <2>4. ~(Leads(l) /\ Home[m] = Home[l] /\ call[m].key = call[l].key)
    BY <1>6, <2>1, <2>2 DEF Entry
  <2>5. inflight'[Home[m]][call[m].key] = inflight[Home[m]][call[m].key]
    BY <2>3, <2>4, <1>6 DEF End, Sharing, TypeOK
  <2> QED  BY <2>1, <2>2, <2>5 DEF Entry
<1>9. InflightExact'  BY <1>7, <1>8 DEF InflightExact
<1>10. ASSUME NEW m \in Loads, At(m, "await")'
       PROVE  /\ LeadsFor(call[m].leader, Home[m], call[m].key)'
              /\ ~futureCancelled'[call'[m].leader]
  <2>1. m \notin {l} \cup Waiters(l) /\ call'[m] = call[m]
    BY <1>2, <1>3, <1>10
  <2>2. At(m, "await")  BY <1>10, <2>1 DEF At
  <2>3. PICK n \in Loads : n = call[m].leader
    BY <2>2 DEF Sharing, TypeOK, LocalsBound
  <2>4. n # l  BY <2>1, <2>2, <2>3 DEF Waiters
  <2>5. LeadsFor(n, Home[m], call[m].key) /\ ~futureCancelled[n]
    BY <2>2, <2>3 DEF Sharing, NoStrandedWaiter
  <2>6. LeadsFor(n, Home[m], call[m].key)'
    BY <1>4, <1>5, <2>1, <2>4, <2>5 DEF LeadsFor
  <2>7. ~futureCancelled'[n]
    BY <2>4, <2>5 DEF End, Sharing, TypeOK
  <2> QED  BY <2>1, <2>3, <2>6, <2>7
<1>11. NoStrandedWaiter'  BY <1>10 DEF NoStrandedWaiter
<1> QED  BY <1>9, <1>11

\* A cancelled future has no waiter left and keeps its leader.
LEMMA CancelSharing ==
    ASSUME Sharing, NEW l \in Loads, CancelWaiting(l)
    PROVE  InflightExact' /\ NoStrandedWaiter'
<1> DEFINE n == call[l].leader
<1>1. n \in Loads
  BY DEF CancelWaiting, Sharing, TypeOK, LocalsBound
<1>2. \A m \in Waiters(n) : ~Leads(m) /\ ~Leads(m)' /\ ~At(m, "await")'
  BY CancelEffect DEF Sharing, Leads, At, Executing, Waiters
<1>3. \A m \in Loads \ Waiters(n) : call'[m] = call[m]
  BY CancelEffect DEF Sharing
<1>4. \A m \in Loads : Leads(m)' <=> Leads(m)
  BY <1>2, <1>3 DEF Leads, Waiters
<1>5. \A m \in Loads : Leads(m) => call'[m] = call[m]
  BY <1>2, <1>3
<1>6. ASSUME NEW w \in Workers, NEW k \in Keys, inflight[w][k] # None
      PROVE  LeadsFor(inflight[w][k], w, k)'
  <2>1. PICK m \in Loads : m = inflight[w][k]
    BY <1>6 DEF Sharing, TypeOK
  <2>2. LeadsFor(m, w, k)  BY <1>6, <2>1 DEF Sharing, InflightExact
  <2>3. inflight' = inflight  BY DEF CancelWaiting
  <2> QED  BY <1>4, <1>5, <2>1, <2>2, <2>3 DEF LeadsFor
<1>7. ASSUME NEW m \in Loads, Leads(m)' PROVE Entry(m)' = m
  BY <1>4, <1>5, <1>7 DEF Sharing, InflightExact, Entry, CancelWaiting
<1>8. InflightExact'  BY <1>6, <1>7 DEF InflightExact, CancelWaiting
<1>9. ASSUME NEW m \in Loads, At(m, "await")'
      PROVE  /\ LeadsFor(call[m].leader, Home[m], call[m].key)'
             /\ ~futureCancelled'[call'[m].leader]
  <2>1. m \notin Waiters(n) /\ call'[m] = call[m]  BY <1>2, <1>3, <1>9
  <2>2. At(m, "await")  BY <1>9, <2>1 DEF At
  <2>3. PICK o \in Loads : o = call[m].leader
    BY <2>2 DEF Sharing, TypeOK, LocalsBound
  <2>4. o # n  BY <2>1, <2>2, <2>3 DEF Waiters
  <2>5. LeadsFor(o, Home[m], call[m].key) /\ ~futureCancelled[o]
    BY <2>2, <2>3 DEF Sharing, NoStrandedWaiter
  <2>6. LeadsFor(o, Home[m], call[m].key)'
    BY <1>4, <1>5, <2>1, <2>5 DEF LeadsFor
  <2>7. ~futureCancelled'[o]
    BY <1>1, <2>4, <2>5 DEF CancelWaiting, Sharing, TypeOK
  <2> QED  BY <2>1, <2>3, <2>6, <2>7
<1>10. NoStrandedWaiter'  BY <1>9 DEF NoStrandedWaiter
<1> QED  BY <1>8, <1>10

\* A call joins a leader of its own key, or ends at once.
LEMMA JoinSharing ==
    ASSUME Sharing, NEW l \in Loads, Join(l)
    PROVE  InflightExact' /\ NoStrandedWaiter'
<1>1. PICK m \in Loads : m = Entry(l)
  <2>1. At(l, "enter") /\ Entry(l) # None  BY DEF Join
  <2>2. call[l].key \in Keys /\ Home[l] \in Workers
    BY <2>1, ConstantsAssumption DEF Sharing, TypeOK, LocalsBound, At
  <2>3. inflight[Home[l]][call[l].key] \in Loads \cup {None}
    BY <2>2 DEF Sharing, TypeOK
  <2> QED  BY <2>1, <2>3 DEF Entry
<1>2. call[l].key \in Keys /\ Home[l] \in Workers
  BY DEF Join, Sharing, TypeOK, LocalsBound, At
<1>3. LeadsFor(m, Home[l], call[l].key)
  BY <1>1, <1>2 DEF Join, Sharing, InflightExact, Entry
<1>4. /\ ~Leads(l) /\ ~Leads(l)' /\ call'[l].key = call[l].key
      /\ call'[l].leader = m
      /\ At(l, "await")' => ~futureCancelled[m]
  <2>1. call[l] \in Calls /\ call \in [Loads -> Calls]  BY DEF Sharing, TypeOK
  <2>2. CASE /\ ~futureCancelled[m]
             /\ call' = [call EXCEPT ![l].leader = m, ![l].pc = "await"]
    <3>1. call'[l] = [call[l] EXCEPT !.leader = m, !.pc = "await"]
      BY <2>1, <2>2
    <3>2. call'[l].pc = "await" /\ call'[l].leader = m
          /\ call'[l].key = call[l].key
      BY <2>1, <3>1 DEF Calls
    <3> QED  BY <2>2, <3>2 DEF Join, Leads, Executing, At
  <2>3. CASE call' = [call EXCEPT ![l].leader = m, ![l].pc = "returned",
                                  ![l].outcome = "cancelled"]
    <3>1. call'[l] = [call[l] EXCEPT !.leader = m, !.pc = "returned",
                                     !.outcome = "cancelled"]
      BY <2>1, <2>3
    <3>2. call'[l].pc = "returned" /\ call'[l].leader = m
          /\ call'[l].key = call[l].key
      BY <2>1, <3>1 DEF Calls
    <3> QED  BY <3>2 DEF Join, Leads, Executing, At
  <2> QED  BY <1>1, <2>2, <2>3 DEF Join
<1>5. \A o \in Loads \ {l} : call'[o] = call[o]
  BY DEF Join, Sharing, TypeOK
<1>6. \A o \in Loads : (Leads(o)' <=> Leads(o)) /\ (Leads(o) => call'[o] = call[o])
  BY <1>4, <1>5 DEF Leads
<1>7. UNCHANGED futures  BY DEF Join
<1>8. InflightExact'
  <2>1. ASSUME NEW w \in Workers, NEW k \in Keys, inflight[w][k] # None
        PROVE  LeadsFor(inflight[w][k], w, k)'
    <3>1. PICK o \in Loads : o = inflight[w][k]
      BY <2>1 DEF Sharing, TypeOK
    <3>2. LeadsFor(o, w, k)  BY <2>1, <3>1 DEF Sharing, InflightExact
    <3> QED  BY <1>6, <1>7, <3>1, <3>2 DEF LeadsFor, futures
  <2>2. ASSUME NEW o \in Loads, Leads(o)' PROVE Entry(o)' = o
    BY <1>6, <1>7, <2>2 DEF Sharing, InflightExact, Entry, futures
  <2> QED  BY <1>7, <2>1, <2>2 DEF InflightExact, futures
<1>9. ASSUME NEW o \in Loads, At(o, "await")'
      PROVE  /\ LeadsFor(call[o].leader, Home[o], call[o].key)'
             /\ ~futureCancelled'[call'[o].leader]
  <2>1. CASE o = l
    <3>1. ~futureCancelled[m]  BY <1>4, <1>9, <2>1
    <3>2. LeadsFor(m, Home[l], call[l].key)'
      BY <1>3, <1>4, <1>6 DEF LeadsFor
    <3> QED  BY <1>4, <1>7, <2>1, <3>1, <3>2 DEF futures
  <2>2. CASE o # l
    <3>1. call'[o] = call[o] /\ At(o, "await")
      BY <1>5, <1>9, <2>2 DEF At
    <3>2. PICK n \in Loads : n = call[o].leader
      BY <3>1 DEF Sharing, TypeOK, LocalsBound
    <3>3. LeadsFor(n, Home[o], call[o].key) /\ ~futureCancelled[n]
      BY <3>1, <3>2 DEF Sharing, NoStrandedWaiter
    <3>4. LeadsFor(n, Home[o], call[o].key)'
      BY <1>6, <3>1, <3>3 DEF LeadsFor
    <3> QED  BY <1>7, <3>1, <3>2, <3>3, <3>4 DEF futures
  <2> QED  BY <2>1, <2>2
<1>10. NoStrandedWaiter'  BY <1>9 DEF NoStrandedWaiter
<1> QED  BY <1>8, <1>10

\* A call leads only where no other does.
LEMMA LeadSharing ==
    ASSUME Sharing, NEW l \in Loads, Lead(l)
    PROVE  InflightExact' /\ NoStrandedWaiter'
<1>1. call[l].key \in Keys /\ Home[l] \in Workers /\ call[l].useCache
  BY DEF Lead, Sharing, TypeOK, LocalsBound, At, Looking
<1>2. "execute" \in Points  BY DEF Points, Running, Executing
<1>3. ~Leads(l) /\ Leads(l)' /\ call'[l].key = call[l].key
      /\ ~At(l, "await")'
  <2>1. call'[l].pc = "execute" /\ call'[l].key = call[l].key
        /\ (call'[l].useCache <=> call[l].useCache)
    BY <1>2, GoTo DEF Lead, Sharing
  <2> QED  BY <1>1, <2>1 DEF Lead, Leads, Executing, At
<1>4. \A m \in Loads \ {l} : call'[m] = call[m]
  BY <1>2, GoTo DEF Lead, Sharing
<1>5. \A m \in Loads \ {l} : Leads(m)' <=> Leads(m)  BY <1>4 DEF Leads
<1>6. ASSUME NEW w \in Workers, NEW k \in Keys, inflight'[w][k] # None
      PROVE  LeadsFor(inflight[w][k], w, k)'
  <2>1. CASE w = Home[l] /\ k = call[l].key
    <3>1. inflight'[w][k] = l  BY <1>1, <2>1 DEF Lead, Sharing, TypeOK
    <3> QED  BY <1>3, <2>1, <3>1 DEF LeadsFor
  <2>2. CASE ~(w = Home[l] /\ k = call[l].key)
    <3>1. inflight'[w][k] = inflight[w][k]
      BY <1>1, <2>2 DEF Lead, Sharing, TypeOK
    <3>2. PICK m \in Loads : m = inflight[w][k]
      BY <1>6, <3>1 DEF Sharing, TypeOK
    <3>3. LeadsFor(m, w, k)  BY <1>6, <3>1, <3>2 DEF Sharing, InflightExact
    <3>4. m # l  BY <1>3, <3>3 DEF LeadsFor
    <3> QED  BY <1>4, <1>5, <3>1, <3>2, <3>3, <3>4 DEF LeadsFor
  <2> QED  BY <2>1, <2>2
<1>7. ASSUME NEW m \in Loads, Leads(m)' PROVE Entry(m)' = m
  <2>1. CASE m = l
    BY <1>1, <1>3, <2>1 DEF Lead, Entry, Sharing, TypeOK
  <2>2. CASE m # l
    <3>1. Leads(m) /\ call'[m] = call[m]  BY <1>4, <1>5, <1>7, <2>2
    <3>2. Entry(m) = m  BY <3>1 DEF Sharing, InflightExact
    <3>3. call[m].key \in Keys /\ Home[m] \in Workers
      BY <3>1 DEF Sharing, TypeOK, LocalsBound, Leads, At, Executing
    <3>4. ~(Home[m] = Home[l] /\ call[m].key = call[l].key)
      BY <3>2 DEF Lead, Entry
    <3>5. inflight'[Home[m]][call[m].key] = inflight[Home[m]][call[m].key]
      BY <1>1, <3>3, <3>4 DEF Lead, Sharing, TypeOK
    <3> QED  BY <3>1, <3>2, <3>5 DEF Entry
  <2> QED  BY <2>1, <2>2
<1>8. InflightExact'  BY <1>6, <1>7 DEF InflightExact
<1>9. ASSUME NEW m \in Loads, At(m, "await")'
      PROVE  /\ LeadsFor(call[m].leader, Home[m], call[m].key)'
             /\ ~futureCancelled'[call'[m].leader]
  <2>1. m # l /\ call'[m] = call[m] /\ At(m, "await")
    BY <1>3, <1>4, <1>9 DEF At
  <2>2. PICK n \in Loads : n = call[m].leader
    BY <2>1 DEF Sharing, TypeOK, LocalsBound
  <2>3. LeadsFor(n, Home[m], call[m].key) /\ ~futureCancelled[n]
    BY <2>1, <2>2 DEF Sharing, NoStrandedWaiter
  <2>4. n # l  BY <1>3, <2>3 DEF LeadsFor
  <2>5. LeadsFor(n, Home[m], call[m].key)'
    BY <1>4, <1>5, <2>1, <2>3, <2>4 DEF LeadsFor
  <2> QED  BY <2>1, <2>2, <2>3, <2>5 DEF Lead
<1>10. NoStrandedWaiter'  BY <1>9 DEF NoStrandedWaiter
<1> QED  BY <1>8, <1>10

\* What a call does by itself keeps Sharing.
LEMMA StepSharing ==
    ASSUME Sharing, NEW l \in Loads, Step(l)
    PROVE  InflightExact' /\ NoStrandedWaiter'
<1> USE DEF Sharing, TypeOK, LocalsBound, Undisturbed, Leads, At, Looking,
            Executing
<1>1. CASE ReadProbeCache(l)
  BY <1>1, UndisturbedSharing DEF ReadProbeCache
<1>2. CASE RunProbe(l)  BY <1>2, UndisturbedSharing DEF RunProbe
<1>3. CASE StoreProbe(l)  BY <1>3, UndisturbedSharing DEF StoreProbe
<1>4. CASE Miss(l)  BY <1>4, UndisturbedSharing DEF Miss
<1>5. CASE Hit(l)  BY <1>5, UndisturbedSharing DEF Hit
<1>6. CASE Validate(l)
  <2>1. UNCHANGED futures  BY <1>6 DEF Validate
  <2>2. Undisturbed
    <3>1. \A m \in Loads \ {l} : call'[m] = call[m]  BY <1>6 DEF Validate
    <3>2. call'[l].pc \in {"returned", "delete"}  BY <1>6 DEF Validate, Calls
    <3> QED  BY <1>6, <3>1, <3>2 DEF Validate
  <2> QED  BY <2>1, <2>2, UndisturbedSharing
<1>7. CASE Delete(l)  BY <1>7, UndisturbedSharing DEF Delete
<1>8. CASE Join(l)  BY <1>8, JoinSharing
<1>9. CASE Lead(l)  BY <1>9, LeadSharing
<1>10. CASE Execute(l)
  <2>1. UNCHANGED futures  BY <1>10 DEF Execute, ComputedFrom
  <2>2. Undisturbed
    <3>1. \A m \in Loads \ {l} : call'[m] = call[m]
      BY <1>10 DEF Execute, ComputedFrom
    <3>2. call'[l].key = call[l].key
          /\ (call'[l].useCache <=> call[l].useCache)
          /\ call'[l].pc = (IF call[l].useCache THEN "setex" ELSE "returned")
      BY <1>10 DEF Execute, ComputedFrom, Calls
    <3> QED  BY <1>10, <3>1, <3>2 DEF Execute, ComputedFrom
  <2> QED  BY <2>1, <2>2, UndisturbedSharing
<1>11. CASE SetEx(l)  BY <1>11, UndisturbedSharing DEF SetEx
<1>12. CASE SetExSig(l)  BY <1>12, UndisturbedSharing DEF SetExSig
<1>13. CASE Settle(l)
  BY <1>13, EndSharing DEF Settle, Running, Outcomes
<1>14. CASE Finish(l)  BY <1>14, UndisturbedSharing DEF Finish, Idle
<1> QED
  BY <1>1, <1>2, <1>3, <1>4, <1>5, <1>6, <1>7, <1>8, <1>9, <1>10, <1>11,
     <1>12, <1>13, <1>14 DEF Step

\* The start of a call keeps Sharing.
LEMMA BeginSharing ==
    ASSUME Sharing, NEW l \in Loads, NEW k \in Keys,
           Begin(l, k) \/ BeginUncached(l, k)
    PROVE  InflightExact' /\ NoStrandedWaiter'
<1> USE DEF Sharing, TypeOK, LocalsBound, Undisturbed, Leads, At, Executing
<1>1. CASE Begin(l, k)  BY <1>1, UndisturbedSharing DEF Begin, FirstPoint
<1>2. CASE BeginUncached(l, k)
  BY <1>2, UndisturbedSharing DEF BeginUncached, Idle
<1> QED  BY <1>1, <1>2

\* A failure or a cancellation keeps Sharing.
LEMMA MishapSharing ==
    ASSUME Sharing, NEW l \in Loads, Mishap(l)
    PROVE  InflightExact' /\ NoStrandedWaiter'
<1>1. CASE Fail(l)  BY <1>1, EndSharing DEF Fail, Outcomes
<1>2. CASE CancelRunning(l)  BY <1>2, EndSharing DEF CancelRunning, Outcomes
<1>3. CASE CancelWaiting(l)  BY <1>3, CancelSharing
<1> QED  BY <1>1, <1>2, <1>3 DEF Mishap

\* A change of data or an expiry keeps Sharing.
LEMMA EnvironmentSharing ==
    ASSUME Sharing, UNCHANGED <<call, futures>>
    PROVE  InflightExact' /\ NoStrandedWaiter'
<1>1. Undisturbed  BY DEF Undisturbed, Leads, At
<1> QED  BY <1>1, UndisturbedSharing DEF futures

\* Sharing is inductive.
LEMMA NextSharing == Sharing /\ [Next]_vars => Sharing'
<1> SUFFICES ASSUME Sharing, [Next]_vars
             PROVE  InflightExact' /\ NoStrandedWaiter'
  BY NextTypeOK DEF Sharing
<1>1. ASSUME NEW l \in Loads, Step(l) \/ Mishap(l)
      PROVE  InflightExact' /\ NoStrandedWaiter'
  BY <1>1, StepSharing, MishapSharing
<1>2. ASSUME NEW l \in Loads, NEW k \in Keys,
             Begin(l, k) \/ BeginUncached(l, k)
      PROVE  InflightExact' /\ NoStrandedWaiter'
  BY <1>2, BeginSharing
<1>3. CASE Environment
  BY <1>3, EnvironmentSharing
     DEF Environment, ChangeSource, ExpireProbe, ExpireCached, ExpireSig
<1>4. CASE UNCHANGED vars
  BY <1>4, EnvironmentSharing DEF vars
<1> QED  BY <1>1, <1>2, <1>3, <1>4 DEF Next

\* Sharing holds initially.
LEMMA InitSharing == Init => Sharing
<1>1. Init => InflightExact /\ NoStrandedWaiter
  BY DEF Init, Idle, InflightExact, NoStrandedWaiter, Leads, At, Executing
<1> QED  BY <1>1, InitTypeOK DEF Sharing

\* Sharing is an invariant.
LEMMA AlwaysSharing == Spec => []Sharing
  BY InitSharing, NextSharing, PTL DEF Spec

\* In every worker _inflight holds exactly the calls that are executing,
\* however executions end.
THEOREM InflightIsExact == Spec => []InflightExact
  BY AlwaysSharing, PTL DEF Sharing

\* Every waiting call waits on a pending future of its own key.
THEOREM WaitersHaveLeaders == Spec => []NoStrandedWaiter
  BY AlwaysSharing, PTL DEF Sharing

-----------------------------------------------------------------------------
(***************************************************************************)
(* Answers: whatever is cached, stored or held was computed for its own    *)
(* key and from data that exists.                                          *)
(***************************************************************************)
\* A signature or version v that the data of cube c has had.
HadBy(v, c) == v # None => v <= source[c]

EnvelopeOf(e, k) == e # None => e.key = k /\ e.version <= source[CubeOf[k]]

Snapshots ==
    /\ \A c \in Cubes : HadBy(probeCache[c], c)
    /\ \A k \in Keys : HadBy(storedSig[k], CubeOf[k]) /\ EnvelopeOf(cached[k], k)
    /\ \A l \in Loads : /\ HadBy(call[l].sig, CubeOfCall(l))
                        /\ EnvelopeOf(call[l].env, call[l].key)

\* A step that changes nothing but the locals of calls.
LEMMA LocalsSnapshots ==
    ASSUME Snapshots, UNCHANGED <<source, redis>>,
           \A m \in Loads : /\ HadBy(call'[m].sig, CubeOf[call'[m].key])
                            /\ EnvelopeOf(call'[m].env, call'[m].key)
    PROVE  Snapshots'
<1>1. UNCHANGED <<source, cached, storedSig, probeCache>>  BY DEF redis
<1>2. \A c \in Cubes : HadBy(probeCache[c], c)'
  BY <1>1 DEF Snapshots, HadBy
<1>3. \A k \in Keys : /\ HadBy(storedSig[k], CubeOf[k])'
                      /\ EnvelopeOf(cached[k], k)'
  BY <1>1 DEF Snapshots, HadBy, EnvelopeOf
<1>4. \A m \in Loads : /\ HadBy(call[m].sig, CubeOfCall(m))'
                       /\ EnvelopeOf(call[m].env, call[m].key)'
  BY <1>1 DEF HadBy, EnvelopeOf, CubeOfCall
<1> QED  BY <1>2, <1>3, <1>4 DEF Snapshots

\* A step that changes nothing but the locals of call l.
LEMMA SlotSnapshots ==
    ASSUME Snapshots, NEW l \in Loads, UNCHANGED <<source, redis>>,
           \A m \in Loads \ {l} : call'[m] = call[m],
           HadBy(call'[l].sig, CubeOf[call'[l].key]),
           EnvelopeOf(call'[l].env, call'[l].key)
    PROVE  Snapshots'
<1>1. ASSUME NEW m \in Loads
      PROVE  /\ HadBy(call'[m].sig, CubeOf[call'[m].key])
             /\ EnvelopeOf(call'[m].env, call'[m].key)
  <2>1. CASE m = l  BY <2>1
  <2>2. CASE m # l
    <3>1. call'[m] = call[m]  BY <2>2
    <3> QED  BY <3>1 DEF Snapshots, CubeOfCall
  <2> QED  BY <2>1, <2>2
<1> QED  BY <1>1, LocalsSnapshots

\* The end of a call hands its envelope to waiters of its own key only.
LEMMA EndSnapshots ==
    ASSUME Sharing, Snapshots, NEW l \in Loads, NEW how \in Outcomes,
           End(l, how), call[l].pc \in Running
    PROVE  Snapshots'
<1>1. \A m \in Waiters(l) : call[m].key = call[l].key
  BY DEF Sharing, NoStrandedWaiter, LeadsFor, Waiters
<1>2. \A m \in Loads :
         /\ call'[m].key = call[m].key /\ call'[m].sig = call[m].sig
         /\ \/ call'[m].env = call[m].env
            \/ call'[m].env = call[l].env /\ call[m].key = call[l].key
  BY <1>1, EndEffect DEF Sharing
<1>3. ASSUME NEW m \in Loads
      PROVE  /\ HadBy(call'[m].sig, CubeOf[call'[m].key])
             /\ EnvelopeOf(call'[m].env, call'[m].key)
  <2>1. /\ HadBy(call[m].sig, CubeOf[call[m].key])
        /\ EnvelopeOf(call[m].env, call[m].key)
        /\ EnvelopeOf(call[l].env, call[l].key)
    BY DEF Snapshots, CubeOfCall
  <2> QED  BY <1>2, <2>1
<1>4. UNCHANGED <<source, redis>>  BY DEF End
<1> QED  BY <1>3, <1>4, LocalsSnapshots

\* What a call does by itself keeps Snapshots.
LEMMA StepSnapshots ==
    ASSUME Sharing, Snapshots, NEW l \in Loads, Step(l)
    PROVE  Snapshots'
<1> USE DEF Snapshots, HadBy, EnvelopeOf, CubeOfCall, redis
<1>a. call[l] \in Calls /\ call \in [Loads -> Calls]  BY DEF Sharing, TypeOK
<1>1. CASE ReadProbeCache(l)
  <2>1. call[l].key \in Keys
    BY <1>1 DEF ReadProbeCache, Sharing, TypeOK, LocalsBound, At
  <2>2. /\ \A m \in Loads \ {l} : call'[m] = call[m]
        /\ UNCHANGED <<source, redis>>
    BY <1>1, <1>a DEF ReadProbeCache
  <2>3. /\ call'[l].key = call[l].key /\ call'[l].env = call[l].env
        /\ call'[l].sig = probeCache[CubeOf[call[l].key]]
    BY <1>1, <1>a DEF ReadProbeCache, Calls
  <2>4. HadBy(call'[l].sig, CubeOf[call'[l].key])  BY <2>1, <2>3
  <2>5. EnvelopeOf(call'[l].env, call'[l].key)  BY <2>3
  <2> HIDE DEF Snapshots, HadBy, EnvelopeOf
  <2> QED  BY <2>2, <2>4, <2>5, SlotSnapshots
<1>2. CASE RunProbe(l)
  <2>1. call[l].key \in Keys
    BY <1>2 DEF RunProbe, Sharing, TypeOK, LocalsBound, At
  <2>2. /\ \A m \in Loads \ {l} : call'[m] = call[m]
        /\ UNCHANGED <<source, redis>>
    BY <1>2, <1>a DEF RunProbe
  <2>3. /\ call'[l].key = call[l].key /\ call'[l].env = call[l].env
        /\ call'[l].sig = source[CubeOf[call[l].key]]
    BY <1>2, <1>a DEF RunProbe, Calls
  <2>4. source[CubeOf[call[l].key]] \in Nat
    BY <2>1 DEF Sharing, TypeOK, Versions
  <2>5. HadBy(call'[l].sig, CubeOf[call'[l].key])  BY <2>2, <2>3, <2>4 DEF HadBy
  <2>6. EnvelopeOf(call'[l].env, call'[l].key)  BY <2>3
  <2> HIDE DEF Snapshots, HadBy, EnvelopeOf
  <2> QED  BY <2>2, <2>5, <2>6, SlotSnapshots
<1>3. CASE StoreProbe(l)
  BY <1>3 DEF StoreProbe, Sharing, TypeOK, LocalsBound, At
<1>4. CASE Miss(l)  BY <1>4 DEF Miss, Sharing, TypeOK
<1>5. CASE Hit(l)
  <2>1. call[l].key \in Keys
    BY <1>5 DEF Hit, Sharing, TypeOK, LocalsBound, At
  <2>2. /\ \A m \in Loads \ {l} : call'[m] = call[m]
        /\ UNCHANGED <<source, redis>>
    BY <1>5, <1>a DEF Hit
  <2>3. /\ call'[l].key = call[l].key /\ call'[l].sig = call[l].sig
        /\ call'[l].env = cached[call[l].key]
    BY <1>5, <1>a DEF Hit, Calls
  <2>4. HadBy(call'[l].sig, CubeOf[call'[l].key])  BY <2>3
  <2>5. EnvelopeOf(call'[l].env, call'[l].key)  BY <2>1, <2>3
  <2> HIDE DEF Snapshots, HadBy, EnvelopeOf
  <2> QED  BY <2>2, <2>4, <2>5, SlotSnapshots
<1>6. CASE Validate(l)
  <2>1. call[l] \in Calls /\ call \in [Loads -> Calls]  BY DEF Sharing, TypeOK
  <2>2. /\ \A m \in Loads \ {l} : call'[m] = call[m]
        /\ UNCHANGED <<source, redis>>
    BY <1>6, <2>1 DEF Validate
  <2>3. call'[l].key = call[l].key /\ call'[l].sig = call[l].sig
        /\ call'[l].env \in {None, call[l].env}
    BY <1>6, <2>1 DEF Validate, Calls
  <2> QED  BY <2>2, <2>3, SlotSnapshots
<1>7. CASE Delete(l)  BY <1>7 DEF Delete, Sharing, TypeOK
<1>8. CASE Join(l)
  <2>1. call[l] \in Calls /\ call \in [Loads -> Calls]  BY DEF Sharing, TypeOK
  <2>2. /\ \A m \in Loads \ {l} : call'[m] = call[m]
        /\ UNCHANGED <<source, redis>>
    BY <1>8, <2>1 DEF Join
  <2>3. call'[l].key = call[l].key /\ call'[l].sig = call[l].sig
        /\ call'[l].env = call[l].env
    BY <1>8, <2>1 DEF Join, Calls
  <2> QED  BY <2>2, <2>3, SlotSnapshots
<1>9. CASE Lead(l)  BY <1>9 DEF Lead, Sharing, TypeOK
<1>10. CASE Execute(l)
  <2>1. call[l] \in Calls /\ call \in [Loads -> Calls]  BY DEF Sharing, TypeOK
  <2>2. /\ \A m \in Loads \ {l} : call'[m] = call[m]
        /\ UNCHANGED <<source, redis>>
    BY <1>10, <2>1 DEF Execute, ComputedFrom
  <2>3. /\ call'[l].key = call[l].key /\ call'[l].sig = call[l].sig
        /\ call'[l].env = [key |-> call[l].key, version |-> source[CubeOfCall(l)]]
    BY <1>10, <2>1 DEF Execute, ComputedFrom, Calls
  <2>4. source[CubeOfCall(l)] \in Nat
    BY <1>10 DEF Execute, ComputedFrom, Sharing, TypeOK, LocalsBound, At, Versions
  <2>5. HadBy(call'[l].sig, CubeOf[call'[l].key])
    BY <2>3 DEF Snapshots, CubeOfCall
  <2>6. EnvelopeOf(call'[l].env, call'[l].key)
    BY <2>3, <2>4 DEF EnvelopeOf, CubeOfCall
  <2> HIDE DEF Snapshots, HadBy, EnvelopeOf
  <2> QED  BY <2>2, <2>5, <2>6, SlotSnapshots
<1>11. CASE SetEx(l)
  BY <1>11 DEF SetEx, Sharing, TypeOK, LocalsBound, At
<1>12. CASE SetExSig(l)
  BY <1>12 DEF SetExSig, Sharing, TypeOK, LocalsBound, At
<1>13. CASE Settle(l)
  <2> HIDE DEF Snapshots
  <2>1. call[l].pc \in Running  BY <1>13 DEF Settle, At, Running, Executing
  <2> QED  BY <1>13, <2>1, EndSnapshots DEF Settle, Outcomes
<1>14. CASE Finish(l)  BY <1>14 DEF Finish, Idle, Sharing, TypeOK
<1> QED
  BY <1>1, <1>2, <1>3, <1>4, <1>5, <1>6, <1>7, <1>8, <1>9, <1>10, <1>11,
     <1>12, <1>13, <1>14 DEF Step

\* A failure or a cancellation keeps Snapshots.
LEMMA MishapSnapshots ==
    ASSUME Sharing, Snapshots, NEW l \in Loads, Mishap(l)
    PROVE  Snapshots'
<1>1. CASE Fail(l)  BY <1>1, EndSnapshots DEF Fail, Outcomes
<1>2. CASE CancelRunning(l)  BY <1>2, EndSnapshots DEF CancelRunning, Outcomes
<1>3. CASE CancelWaiting(l)
  <2>1. \A m \in Loads :
           /\ call'[m].key = call[m].key /\ call'[m].sig = call[m].sig
           /\ call'[m].env = call[m].env
    BY <1>3, CancelEffect DEF Sharing
  <2>2. ASSUME NEW m \in Loads
        PROVE  /\ HadBy(call'[m].sig, CubeOf[call'[m].key])
               /\ EnvelopeOf(call'[m].env, call'[m].key)
    <3>1. HadBy(call[m].sig, CubeOf[call[m].key])
          /\ EnvelopeOf(call[m].env, call[m].key)
      BY DEF Snapshots, CubeOfCall
    <3> QED  BY <2>1, <3>1
  <2>3. UNCHANGED <<source, redis>>  BY <1>3 DEF CancelWaiting
  <2> QED  BY <2>2, <2>3, LocalsSnapshots
<1> QED  BY <1>1, <1>2, <1>3 DEF Mishap

\* The data only gets newer, entries only go away.
LEMMA EnvironmentSnapshots ==
    ASSUME Sharing, Snapshots, Environment
    PROVE  Snapshots'
<1> USE DEF Snapshots, HadBy, EnvelopeOf, CubeOfCall, redis
<1>1. ASSUME NEW c \in Cubes, ChangeSource(c) PROVE Snapshots'
  <2>1. \A d \in Cubes : source[d] \in Nat /\ source'[d] \in Nat
                         /\ source[d] <= source'[d]
    BY <1>1 DEF ChangeSource, Sharing, TypeOK, Versions
  <2>2. \A d \in Cubes : probeCache[d] # None => probeCache[d] \in Nat
    BY DEF Sharing, TypeOK, Versions
  <2>3. \A k \in Keys : CubeOf[k] \in Cubes
    OBVIOUS
  <2>4. ASSUME NEW l \in Loads
        PROVE  /\ call[l].sig # None => call[l].sig \in Nat
               /\ call[l].env # None => call[l].env.version \in Nat
    <3>1. call[l] \in Calls  BY DEF Sharing, TypeOK
    <3> QED  BY <3>1 DEF Calls, Versions, Envelopes
  <2>5. \A l \in Loads : call[l].sig # None \/ call[l].env # None
                            => CubeOf[call[l].key] \in Cubes
    BY DEF Sharing, TypeOK, LocalsBound, Idle
  <2>6. UNCHANGED <<cached, storedSig, probeCache, call>>
    BY <1>1 DEF ChangeSource
  <2>7. \A d \in Cubes : HadBy(probeCache[d], d)'
    BY <2>1, <2>2, <2>6
  <2>8. \A k \in Keys : /\ HadBy(storedSig[k], CubeOf[k])'
                        /\ EnvelopeOf(cached[k], k)'
    <3> SUFFICES ASSUME NEW k \in Keys
                 PROVE  /\ HadBy(storedSig[k], CubeOf[k])'
                        /\ EnvelopeOf(cached[k], k)'
      OBVIOUS
    <3> DEFINE d == CubeOf[k]
    <3>1. cached'[k] = cached[k] /\ storedSig'[k] = storedSig[k]  BY <2>6
    <3>2. /\ storedSig[k] # None => storedSig[k] \in Nat
          /\ cached[k] # None => cached[k].version \in Nat
      <4>1. storedSig[k] # None => storedSig[k] \in Nat
        BY DEF Sharing, TypeOK, Versions
      <4>2. cached[k] # None => cached[k] \in Envelopes
        BY DEF Sharing, TypeOK
      <4> QED  BY <4>1, <4>2 DEF Envelopes, Versions
    <3>3. source[d] \in Nat /\ source'[d] \in Nat /\ source[d] <= source'[d]
      BY <2>1, <2>3
    <3>4. /\ storedSig[k] # None => storedSig[k] <= source[d]
          /\ cached[k] # None => cached[k].key = k /\ cached[k].version <= source[d]
      BY DEF Snapshots, HadBy, EnvelopeOf
    <3> HIDE DEF d
    <3>5. /\ storedSig'[k] # None => storedSig'[k] <= source'[d]
          /\ cached'[k] # None => cached'[k].key = k /\ cached'[k].version <= source'[d]
      BY <3>1, <3>2, <3>3, <3>4
    <3> QED  BY <3>5 DEF d
  <2>9. ASSUME NEW l \in Loads
        PROVE  /\ HadBy(call[l].sig, CubeOfCall(l))'
               /\ EnvelopeOf(call[l].env, call[l].key)'
    <3>1. call'[l] = call[l]  BY <2>6
    <3>2. CASE call[l].sig = None /\ call[l].env = None  BY <3>1, <3>2
    <3>3. CASE CubeOf[call[l].key] \in Cubes
      BY <2>1, <2>4, <2>6, <3>1, <3>3
    <3> QED  BY <2>5, <3>2, <3>3
  <2> QED  BY <2>7, <2>8, <2>9
<1>2. ASSUME NEW c \in Cubes, ExpireProbe(c) PROVE Snapshots'
  BY <1>2 DEF ExpireProbe, Sharing, TypeOK
<1>3. ASSUME NEW k \in Keys, ExpireCached(k) PROVE Snapshots'
  BY <1>3 DEF ExpireCached, Sharing, TypeOK
<1>4. ASSUME NEW k \in Keys, ExpireSig(k) PROVE Snapshots'
  BY <1>4 DEF ExpireSig, Sharing, TypeOK
<1> QED  BY <1>1, <1>2, <1>3, <1>4 DEF Environment

\* Snapshots is inductive, given Sharing.
LEMMA NextSnapshots == Sharing /\ Snapshots /\ [Next]_vars => Snapshots'
<1> SUFFICES ASSUME Sharing, Snapshots, [Next]_vars PROVE Snapshots'
  OBVIOUS
<1>1. ASSUME NEW l \in Loads, NEW k \in Keys, Begin(l, k) PROVE Snapshots'
  <2>1. call[l].sig = None /\ call[l].env = None
    BY <1>1 DEF Begin, FirstPoint, Sharing, TypeOK, LocalsBound, Idle
  <2> QED
    BY <1>1, <2>1 DEF Begin, FirstPoint, Sharing, TypeOK, Snapshots, HadBy, EnvelopeOf,
                      CubeOfCall, redis
<1>2. ASSUME NEW l \in Loads, NEW k \in Keys, BeginUncached(l, k)
      PROVE  Snapshots'
  <2>1. call[l].sig = None /\ call[l].env = None
    BY <1>2 DEF BeginUncached, Sharing, TypeOK, LocalsBound, Idle
  <2> QED
    BY <1>2, <2>1 DEF BeginUncached, Sharing, TypeOK, Snapshots, HadBy,
                      EnvelopeOf, CubeOfCall, redis
<1>3. CASE UNCHANGED vars
  BY <1>3 DEF vars, Snapshots, HadBy, EnvelopeOf, CubeOfCall, redis
<1> QED
  BY <1>1, <1>2, <1>3, StepSnapshots, MishapSnapshots, EnvironmentSnapshots
     DEF Next

\* Snapshots holds initially.
LEMMA InitSnapshots == Init => Snapshots
  BY DEF Init, Idle, Snapshots, HadBy, EnvelopeOf

\* Snapshots is an invariant.
LEMMA AlwaysSnapshots == Spec => [](Sharing /\ Snapshots)
  BY InitSharing, InitSnapshots, NextSharing, NextSnapshots, PTL DEF Spec

\* A call that ends well, as leader, on a hit or by joining, has an envelope
\* that was computed for its own key, in any number of workers.
THEOREM AnswersAreOwn == Spec => []AnswersOwnKey
<1>1. Sharing /\ Snapshots => AnswersOwnKey
  BY DEF AnswersOwnKey, Snapshots, EnvelopeOf, Sharing, TypeOK, LocalsBound
<1> QED  BY <1>1, AlwaysSnapshots, PTL

-----------------------------------------------------------------------------
(***************************************************************************)
(* Refreshes of one worker: what a leader has still to store is no older   *)
(* than what Redis holds under its key, and what it has stored is there    *)
(* unless it was deleted or has expired.                                   *)
(***************************************************************************)
OneWorker == \A l, m \in Loads : Home[l] = Home[m]

Storing(l) == call[l].pc \in {"setex", "setexSig"}

RefreshOf(l) ==
    /\ At(l, "setex") =>
          /\ cached[call[l].key] # None
                => cached[call[l].key].version <= call[l].env.version
          /\ storedSig[call[l].key] # None
                => storedSig[call[l].key] <= call[l].env.version
    /\ Storing(l) /\ call[l].sig # None => call[l].sig <= call[l].env.version
    /\ At(l, "setexSig") => cached[call[l].key] \in {None, call[l].env}

Refreshes == SignatureBehindData /\ \A l \in Loads : RefreshOf(l)

IInv == Sharing /\ Snapshots /\ Refreshes

\* What every step does but the execution of a leader and its two SETEX.
Lowers ==
    /\ \A k \in Keys : /\ cached'[k] \in {None, cached[k]}
                       /\ storedSig'[k] \in {None, storedSig[k]}
    /\ \A l \in Loads : Storing(l)' => call'[l] = call[l]

Refreshing(l) == Execute(l) \/ SetEx(l) \/ SetExSig(l)

\* A call between its execution and its settling leads, with a key.
LEMMA StoringLeads ==
    ASSUME Sharing, NEW l \in Loads, Storing(l)
    PROVE  Leads(l) /\ call[l].key \in Keys /\ call[l].env \in Envelopes
  BY DEF Sharing, TypeOK, LocalsBound, Storing, Leads, At, Executing

\* Two calls of one worker that lead for one key are one call.
LEMMA OneLeader ==
    ASSUME OneWorker, Sharing, NEW l \in Loads, NEW m \in Loads,
           Leads(l), Leads(m), call[l].key = call[m].key
    PROVE  l = m
<1>1. Entry(l) = l /\ Entry(m) = m  BY DEF Sharing, InflightExact
<1>2. Home[l] = Home[m]  BY DEF OneWorker
<1> QED  BY <1>1, <1>2 DEF Entry

\* Entries that stay or go, and stores that do not advance, keep Refreshes.
LEMMA LowersRefreshes ==
    ASSUME Sharing, Sharing', Refreshes, Lowers
    PROVE  Refreshes'
<1>1. SignatureBehindData'
  BY DEF Refreshes, SignatureBehindData, Lowers
<1>2. ASSUME NEW l \in Loads PROVE RefreshOf(l)'
  <2>1. CASE ~Storing(l)'  BY <2>1 DEF RefreshOf, Storing, At
  <2>2. CASE Storing(l)'
    <3>1. call'[l] = call[l]  BY <2>2 DEF Lowers
    <3>2. Storing(l)  BY <2>2, <3>1 DEF Storing
    <3>3. call[l].key \in Keys  BY <3>2, StoringLeads
    <3>4. /\ cached'[call[l].key] \in {None, cached[call[l].key]}
          /\ storedSig'[call[l].key] \in {None, storedSig[call[l].key]}
      BY <3>3 DEF Lowers
    <3>5. RefreshOf(l)  BY DEF Refreshes
    <3> QED  BY <3>1, <3>4, <3>5 DEF RefreshOf, Storing, At
  <2> QED  BY <2>1, <2>2
<1> QED  BY <1>1, <1>2 DEF Refreshes

\* The end of a call lets no call begin to store.
LEMMA EndLowers ==
    ASSUME Sharing, NEW l \in Loads, NEW how \in Outcomes, End(l, how),
           call[l].pc \in Running
    PROVE  Lowers
<1>1. UNCHANGED <<cached, storedSig>>  BY DEF End, redis
<1>2. ASSUME NEW m \in Loads, Storing(m)' PROVE call'[m] = call[m]
  <2>1. call[m] \in Calls  BY DEF Sharing, TypeOK
  <2>2. CASE m \in {l} \cup Waiters(l)
    <3>1. call'[m].pc = "returned"  BY <2>1, <2>2 DEF End, Calls
    <3> QED  BY <1>2, <3>1 DEF Storing
  <2>3. CASE m \notin {l} \cup Waiters(l)  BY <2>3 DEF End
  <2> QED  BY <2>2, <2>3
<1> QED  BY <1>1, <1>2 DEF Lowers

\* A step of a call lowers, unless it is one of the three of a refresh.
LEMMA StepLowers ==
    ASSUME Sharing, NEW l \in Loads, Step(l), ~Refreshing(l)
    PROVE  Lowers
<1>1. call[l] \in Calls /\ call \in [Loads -> Calls]
  BY DEF Sharing, TypeOK
<1>2. CASE Settle(l)
  <2>1. call[l].pc \in Running  BY <1>2 DEF Settle, At, Running, Executing
  <2> QED  BY <1>2, <2>1, EndLowers DEF Settle, Outcomes
<1>3. CASE Delete(l)
  <2>1. call'[l].pc = "enter"  BY <1>1, <1>3 DEF Delete, Calls
  <2>2. \A m \in Loads \ {l} : call'[m] = call[m]  BY <1>1, <1>3 DEF Delete
  <2>3. \A k \in Keys : /\ cached'[k] \in {None, cached[k]}
                        /\ storedSig'[k] \in {None, storedSig[k]}
    BY <1>3 DEF Delete, Sharing, TypeOK
  <2> QED  BY <2>1, <2>2, <2>3 DEF Lowers, Storing
<1>4. ASSUME \/ ReadProbeCache(l) \/ RunProbe(l) \/ StoreProbe(l) \/ Miss(l)
             \/ Hit(l) \/ Validate(l) \/ Join(l) \/ Lead(l) \/ Finish(l)
      PROVE  Lowers
  <2>1. UNCHANGED <<cached, storedSig>>
    BY <1>4 DEF ReadProbeCache, RunProbe, StoreProbe, Miss, Hit, Validate,
                Join, Lead, Finish, redis
  <2>2. \A m \in Loads \ {l} : call'[m] = call[m]
    BY <1>1, <1>4 DEF ReadProbeCache, RunProbe, StoreProbe, Miss, Hit,
                      Validate, Join, Lead, Finish
  <2>3. call'[l].pc \notin {"setex", "setexSig"}
    <3>1. CASE ReadProbeCache(l)  BY <1>1, <3>1 DEF ReadProbeCache, Calls
    <3>2. CASE RunProbe(l)  BY <1>1, <3>2 DEF RunProbe, Calls
    <3>3. CASE StoreProbe(l)  BY <1>1, <3>3 DEF StoreProbe, Calls
    <3>4. CASE Miss(l)  BY <1>1, <3>4 DEF Miss, Calls
    <3>5. CASE Hit(l)  BY <1>1, <3>5 DEF Hit, Calls
    <3>6. CASE Validate(l)  BY <1>1, <3>6 DEF Validate, Calls
    <3>7. CASE Join(l)  BY <1>1, <3>7 DEF Join, Calls
    <3>8. CASE Lead(l)  BY <1>1, <3>8 DEF Lead, Calls
    <3>9. CASE Finish(l)  BY <1>1, <3>9 DEF Finish, Idle
    <3> QED
      BY <1>4, <3>1, <3>2, <3>3, <3>4, <3>5, <3>6, <3>7, <3>8, <3>9
  <2> QED  BY <2>1, <2>2, <2>3 DEF Lowers, Storing
<1> QED  BY <1>2, <1>3, <1>4 DEF Step, Refreshing

\* Every step of the system lowers, unless it is one of a refresh.
LEMMA NextLowers ==
    ASSUME Sharing, [Next]_vars, \A l \in Loads : ~Refreshing(l)
    PROVE  Lowers
<1>1. call \in [Loads -> Calls]  BY DEF Sharing, TypeOK
<1>2. ASSUME NEW l \in Loads, Mishap(l) PROVE Lowers
  <2>1. CASE Fail(l)  BY <2>1, EndLowers DEF Fail, Outcomes
  <2>2. CASE CancelRunning(l)  BY <2>2, EndLowers DEF CancelRunning, Outcomes
  <2>3. CASE CancelWaiting(l)
    <3>1. ASSUME NEW m \in Loads, Storing(m)' PROVE call'[m] = call[m]
      <4>1. call[m] \in Calls  BY <1>1
      <4>2. CASE m \in Waiters(call[l].leader)
        <5>1. call'[m].pc = "returned"  BY <2>3, <4>1, <4>2 DEF CancelWaiting, Calls
        <5> QED  BY <3>1, <5>1 DEF Storing
      <4>3. CASE m \notin Waiters(call[l].leader)
        BY <2>3, <4>3 DEF CancelWaiting
      <4> QED  BY <4>2, <4>3
    <3> QED  BY <2>3, <3>1 DEF CancelWaiting, Lowers, redis
  <2> QED  BY <1>2, <2>1, <2>2, <2>3 DEF Mishap
<1>3. ASSUME NEW l \in Loads, NEW k \in Keys,
             Begin(l, k) \/ BeginUncached(l, k)
      PROVE  Lowers
  <2>1. call[l] \in Calls  BY <1>1
  <2>2. UNCHANGED <<cached, storedSig>>
    BY <1>3 DEF Begin, FirstPoint, BeginUncached, redis
  <2>3. \A m \in Loads \ {l} : call'[m] = call[m]
    BY <1>1, <1>3 DEF Begin, FirstPoint, BeginUncached
  <2>4. call'[l].pc \notin {"setex", "setexSig"}
    BY <1>1, <1>3, <2>1 DEF Begin, FirstPoint, BeginUncached, Calls
  <2> QED  BY <2>2, <2>3, <2>4 DEF Lowers, Storing
<1>4. CASE Environment
  <2>1. UNCHANGED call
    BY <1>4 DEF Environment, ChangeSource, ExpireProbe, ExpireCached, ExpireSig
  <2>2. \A k \in Keys : /\ cached'[k] \in {None, cached[k]}
                        /\ storedSig'[k] \in {None, storedSig[k]}
    BY <1>4 DEF Environment, ChangeSource, ExpireProbe, ExpireCached,
                ExpireSig, redis, Sharing, TypeOK
  <2> QED  BY <2>1, <2>2 DEF Lowers
<1>5. CASE UNCHANGED vars  BY <1>5 DEF vars, redis, Lowers
<1> QED  BY <1>2, <1>3, <1>4, <1>5, StepLowers DEF Next

\* The execution reads data no older than anything that is stored, cached or
\* held: what its call has to store is no older than all of it.
LEMMA ExecuteRefreshes ==
    ASSUME IInv, NEW l \in Loads, Execute(l)
    PROVE  Refreshes'
<1> USE DEF IInv
<1>1. /\ call \in [Loads -> Calls] /\ call[l] \in Calls
      /\ UNCHANGED <<cached, storedSig>>
  BY DEF Execute, ComputedFrom, redis, Sharing, TypeOK
<1>2. SignatureBehindData'
  BY <1>1 DEF Refreshes, SignatureBehindData
<1>3. ASSUME NEW m \in Loads, m # l PROVE RefreshOf(m)'
  <2>1. call'[m] = call[m]  BY <1>1, <1>3 DEF Execute, ComputedFrom
  <2> QED  BY <1>1, <2>1 DEF Refreshes, RefreshOf, Storing, At
<1>4. RefreshOf(l)'
  <2>1. /\ call'[l].key = call[l].key /\ call'[l].sig = call[l].sig
        /\ call'[l].env = [key |-> call[l].key, version |-> source[CubeOfCall(l)]]
        /\ call'[l].pc \in {"setex", "returned"}
    BY <1>1 DEF Execute, ComputedFrom, Calls
  <2>2. call[l].key \in Keys
    BY DEF Execute, ComputedFrom, Sharing, TypeOK, LocalsBound, At
  <2>3. /\ HadBy(call[l].sig, CubeOfCall(l))
        /\ HadBy(storedSig[call[l].key], CubeOfCall(l))
        /\ EnvelopeOf(cached[call[l].key], call[l].key)
    BY <2>2 DEF Snapshots, CubeOfCall
  <2>4. call'[l].env.version = source[CubeOfCall(l)]  BY <2>1
  <2> QED
    BY <1>1, <2>1, <2>3, <2>4
       DEF RefreshOf, Storing, At, HadBy, EnvelopeOf, CubeOfCall
<1> QED  BY <1>2, <1>3, <1>4 DEF Refreshes

\* The envelope is replaced by one that is no older than it and than the
\* signature beside it.
LEMMA SetExRefreshes ==
    ASSUME OneWorker, IInv, NEW l \in Loads, SetEx(l)
    PROVE  /\ Refreshes'
           /\ \A k \in Keys : cached[k] # None /\ cached'[k] # None
                 => cached[k].version <= cached'[k].version
<1> USE DEF IInv
<1> DEFINE key == call[l].key
           env == call[l].env
<1>1. /\ call \in [Loads -> Calls] /\ call[l] \in Calls
      /\ cached \in [Keys -> Envelopes \cup {None}]
      /\ UNCHANGED storedSig
  BY DEF SetEx, Sharing, TypeOK
<1>2. Storing(l) /\ At(l, "setex")  BY DEF SetEx, Storing, At
<1>3. Leads(l) /\ key \in Keys /\ env \in Envelopes  BY <1>2, StoringLeads
<1>4. /\ cached'[key] = env
      /\ \A k \in Keys \ {key} : cached'[k] = cached[k]
  BY <1>1, <1>3 DEF SetEx
<1>5. /\ cached[key] # None => cached[key].version <= env.version
      /\ storedSig[key] # None => storedSig[key] <= env.version
      /\ call[l].sig # None => call[l].sig <= env.version
  BY <1>2 DEF Refreshes, RefreshOf
<1>6. SignatureBehindData'
  <2>1. ASSUME NEW k \in Keys, (cached[k] # None /\ storedSig[k] # None)'
        PROVE  (storedSig[k] <= cached[k].version)'
    <3>1. CASE k = key  BY <1>1, <1>4, <1>5, <2>1, <3>1
    <3>2. CASE k # key
      BY <1>1, <1>4, <2>1, <3>2 DEF Refreshes, SignatureBehindData
    <3> QED  BY <3>1, <3>2
  <2> QED  BY <2>1 DEF SignatureBehindData
<1>7. ASSUME NEW m \in Loads, m # l PROVE RefreshOf(m)'
  <2>1. call'[m] = call[m]  BY <1>1, <1>7 DEF SetEx
  <2>2. CASE Storing(m)
    <3>1. Leads(m) /\ call[m].key \in Keys  BY <2>2, StoringLeads
    <3>2. call[m].key # key  BY <1>3, <1>7, <3>1, OneLeader
    <3>3. cached'[call[m].key] = cached[call[m].key]  BY <1>4, <3>1, <3>2
    <3> QED
      BY <1>1, <2>1, <3>3 DEF Refreshes, RefreshOf, Storing, At
  <2>3. CASE ~Storing(m)  BY <2>1, <2>3 DEF RefreshOf, Storing, At
  <2> QED  BY <2>2, <2>3
<1>8. RefreshOf(l)'
  <2>1. /\ call'[l].key = key /\ call'[l].sig = call[l].sig
        /\ call'[l].env = env /\ call'[l].pc \in {"setexSig", "settle"}
    BY <1>1 DEF SetEx, Calls
  <2> QED  BY <1>4, <1>5, <2>1 DEF RefreshOf, Storing, At
<1>9. ASSUME NEW k \in Keys, cached[k] # None, cached'[k] # None
      PROVE  cached[k].version <= cached'[k].version
  <2>1. CASE k = key  BY <1>4, <1>5, <1>9, <2>1
  <2>2. CASE k # key
    <3>1. cached[k] \in Envelopes /\ cached'[k] = cached[k]
      BY <1>1, <1>4, <1>9, <2>2
    <3> QED  BY <3>1 DEF Envelopes, Versions
  <2> QED  BY <2>1, <2>2
<1> QED  BY <1>6, <1>7, <1>8, <1>9 DEF Refreshes

\* The signature is stored beside the envelope of the same execution, or of
\* none.
LEMMA SetExSigRefreshes ==
    ASSUME OneWorker, IInv, NEW l \in Loads, SetExSig(l)
    PROVE  Refreshes'
<1> USE DEF IInv
<1> DEFINE key == call[l].key
<1>1. /\ call \in [Loads -> Calls] /\ call[l] \in Calls
      /\ storedSig \in [Keys -> Versions \cup {None}]
      /\ UNCHANGED cached
  BY DEF SetExSig, Sharing, TypeOK
<1>2. Storing(l) /\ At(l, "setexSig")  BY DEF SetExSig, Storing, At
<1>3. Leads(l) /\ key \in Keys  BY <1>2, StoringLeads
<1>4. /\ storedSig'[key] = call[l].sig
      /\ \A k \in Keys \ {key} : storedSig'[k] = storedSig[k]
  BY <1>1, <1>3 DEF SetExSig
<1>5. /\ cached[key] \in {None, call[l].env}
      /\ call[l].sig # None => call[l].sig <= call[l].env.version
  BY <1>2 DEF Refreshes, RefreshOf
<1>6. SignatureBehindData'
  <2>1. ASSUME NEW k \in Keys, (cached[k] # None /\ storedSig[k] # None)'
        PROVE  (storedSig[k] <= cached[k].version)'
    <3>1. CASE k = key  BY <1>1, <1>4, <1>5, <2>1, <3>1
    <3>2. CASE k # key
      BY <1>1, <1>4, <2>1, <3>2 DEF Refreshes, SignatureBehindData
    <3> QED  BY <3>1, <3>2
  <2> QED  BY <2>1 DEF SignatureBehindData
<1>7. ASSUME NEW m \in Loads, m # l PROVE RefreshOf(m)'
  <2>1. call'[m] = call[m]  BY <1>1, <1>7 DEF SetExSig
  <2>2. CASE Storing(m)
    <3>1. Leads(m) /\ call[m].key \in Keys  BY <2>2, StoringLeads
    <3>2. call[m].key # key  BY <1>3, <1>7, <3>1, OneLeader
    <3>3. storedSig'[call[m].key] = storedSig[call[m].key]
      BY <1>4, <3>1, <3>2
    <3> QED
      BY <1>1, <2>1, <3>3 DEF Refreshes, RefreshOf, Storing, At
  <2>3. CASE ~Storing(m)  BY <2>1, <2>3 DEF RefreshOf, Storing, At
  <2> QED  BY <2>2, <2>3
<1>8. RefreshOf(l)'
  <2>1. call'[l].pc = "settle"  BY <1>1 DEF SetExSig, Calls
  <2> QED  BY <2>1 DEF RefreshOf, Storing, At
<1> QED  BY <1>6, <1>7, <1>8 DEF Refreshes

\* IInv is inductive in one worker.
LEMMA NextRefreshes == OneWorker => (IInv /\ [Next]_vars => IInv')
<1> SUFFICES ASSUME OneWorker, IInv, [Next]_vars PROVE IInv'
  OBVIOUS
<1>1. Sharing' /\ Snapshots'
  BY NextSharing, NextSnapshots DEF IInv
<1>2. Refreshes'
  <2>1. CASE \A l \in Loads : ~Refreshing(l)
    BY <1>1, <2>1, NextLowers, LowersRefreshes DEF IInv
  <2>2. ASSUME NEW l \in Loads, Refreshing(l) PROVE Refreshes'
    BY <2>2, ExecuteRefreshes, SetExRefreshes, SetExSigRefreshes DEF Refreshing
  <2> QED  BY <2>1, <2>2
<1> QED  BY <1>1, <1>2 DEF IInv

\* IInv holds initially.
LEMMA InitRefreshes == Init => IInv
<1>1. Init => Refreshes
  BY DEF Init, Idle, Refreshes, SignatureBehindData, RefreshOf, Storing, At
<1> QED  BY <1>1, InitSharing, InitSnapshots DEF IInv

\* A step moves a cached envelope to one of newer data, or drops it.
LEMMA NextCacheForward ==
    OneWorker => (IInv /\ [Next]_vars =>
        \A k \in Keys : cached[k] # None /\ cached'[k] # None
            => cached[k].version <= cached'[k].version)
<1> SUFFICES ASSUME OneWorker, IInv, [Next]_vars, NEW k \in Keys,
                    cached[k] # None, cached'[k] # None
             PROVE  cached[k].version <= cached'[k].version
  OBVIOUS
<1>1. cached[k] \in Envelopes  BY DEF IInv, Sharing, TypeOK
<1>2. CASE cached'[k] = cached[k]  BY <1>1, <1>2 DEF Envelopes, Versions
<1>3. CASE \A l \in Loads : ~Refreshing(l)
  <2>1. Lowers  BY <1>3, NextLowers DEF IInv
  <2> QED  BY <1>2, <2>1 DEF Lowers
<1>4. ASSUME NEW l \in Loads, Refreshing(l)
      PROVE  cached[k].version <= cached'[k].version
  <2>1. CASE SetEx(l)  BY <2>1, SetExRefreshes
  <2>2. CASE Execute(l) \/ SetExSig(l)
    BY <1>2, <2>2 DEF Execute, ComputedFrom, SetExSig, redis
  <2> QED  BY <1>4, <2>1, <2>2 DEF Refreshing
<1> QED  BY <1>3, <1>4

\* With one worker, the signature stored beside an envelope is never newer
\* than the data behind the envelope: what lines 181-184 serve is at least
\* as fresh as the signature they compare.
THEOREM SignaturesTrail ==
    ASSUME OneWorker PROVE Spec => []SignatureBehindData
<1>1. IInv /\ [Next]_vars => IInv'  BY NextRefreshes
<1>2. IInv => SignatureBehindData  BY DEF IInv, Refreshes
<1> QED  BY <1>1, <1>2, InitRefreshes, PTL DEF Spec

\* With one worker, no step replaces a cached envelope by one computed from
\* older data, whatever expires, fails or is cancelled in between.
THEOREM CacheMovesForward ==
    ASSUME OneWorker PROVE Spec => CacheNeverGoesBack
<1>1. IInv /\ [Next]_vars => IInv'  BY NextRefreshes
<1>2. IInv /\ [Next]_vars =>
        [\A k \in Keys : cached[k] # None /\ cached'[k] # None
            => cached[k].version <= cached'[k].version]_vars
  BY NextCacheForward
<1> QED  BY <1>1, <1>2, InitRefreshes, PTL DEF Spec, CacheNeverGoesBack

=============================================================================
