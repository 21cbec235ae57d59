-------------------------- MODULE QueryOrchestrator --------------------------
(***************************************************************************)
(* QueryOrchestrator.load (orchestrator/orchestrator.py): the cached,      *)
(* probed, de-duplicated execution of a query, run by concurrent coroutines *)
(* of one or several worker processes that share Redis and the database.   *)
(*                                                                         *)
(* Data.  A source cube is a version number, raised by every change of its *)
(* data; a result envelope is the cache key it answers and the version it  *)
(* was computed from; the signature of a refreshKey probe is the version   *)
(* the probe saw.                                                          *)
(*                                                                         *)
(* Steps.  A coroutine yields at each await.  An action is the effect of   *)
(* one awaited call, at the instant the server applies it, with the local  *)
(* computation that led to it; what a coroutine does to the _inflight      *)
(* dictionary between two awaits is an action of its own, so that between  *)
(* the effect of a call and the resumption of its caller others may run.   *)
(***************************************************************************)
EXTENDS Naturals

CONSTANTS
    Loads,       \* call slots: each runs one load() at a time, then another
    Keys,        \* cache keys (query + security context, make_cache_key)
    Cubes,       \* the cubes of the schema
    CubeOf,      \* primary cube of the query behind a key
    Probed,      \* cubes that declare refresh_key.sql
    Windowed,    \* probed cubes with updateWindow > 0
    Workers,     \* processes, each with its own _inflight
    Home,        \* the worker a call slot runs in
    Cancellable, \* call slots whose task the server may cancel
    MaxVersion,  \* bound: number of changes of a source
    None         \* Python's None

Versions  == 0 .. MaxVersion
Envelopes == [key : Keys, version : Versions]

ASSUME ConstantsAssumption ==
    /\ CubeOf \in [Keys -> Cubes]
    /\ Windowed \subseteq Probed
    /\ Probed \subseteq Cubes
    /\ Home \in [Loads -> Workers]
    /\ Cancellable \subseteq Loads
    /\ MaxVersion \in Nat

ASSUME NoneAssumption ==
    None \notin Versions \cup Envelopes \cup Loads \cup Keys

VARIABLES
    source,     \* source[c]: version of the data behind cube c
    cached,     \* cached[k]: envelope stored in Redis under k
    storedSig,  \* storedSig[k]: signature stored in Redis under k + ":probe"
    probeCache, \* probeCache[c]: signature stored under cubepy:probe:c
    inflight,   \* inflight[w][k]: the call whose future _inflight[k] holds
    futureCancelled, \* futureCancelled[l]: the future of call l is cancelled
    call        \* call[l]: the locals of the load() running in slot l

redis   == <<cached, storedSig, probeCache>>
futures == <<inflight, futureCancelled>>
vars    == <<source, redis, futures, call>>

(***************************************************************************)
(* The control points of load().                                           *)
(***************************************************************************)
Executing == {"execute", "setex", "setexSig", "settle"}  \* lines 200-217
Looking   == {"probeCache", "probeSql", "probeStore",
              "get", "getSig", "delete", "enter"}        \* lines 174-192
Running   == Looking \cup Executing
Points    == Running \cup {"idle", "await", "returned"}

\* No load() in the slot; a call keeps its key, use_cache, probe_sig, the
\* envelope it holds, the call whose future it awaits, and how it ended.
Idle == [pc |-> "idle", key |-> None, useCache |-> FALSE, sig |-> None,
         env |-> None, leader |-> None, outcome |-> "none"]

At(l, p)      == call[l].pc = p
CubeOfCall(l) == CubeOf[call[l].key]

\* Call l holds the pending entry of its key in its worker's _inflight.
Leads(l) == call[l].useCache /\ call[l].pc \in Executing
LeadsFor(l, w, k) == Leads(l) /\ Home[l] = w /\ call[l].key = k
Waiters(l) == {m \in Loads : At(m, "await") /\ call[m].leader = l}

Init ==
    /\ source = [c \in Cubes |-> 0]
    /\ cached = [k \in Keys |-> None]
    /\ storedSig = [k \in Keys |-> None]
    /\ probeCache = [c \in Cubes |-> None]
    /\ inflight = [w \in Workers |-> [k \in Keys |-> None]]
    /\ futureCancelled = [l \in Loads |-> FALSE]
    /\ call = [l \in Loads |-> Idle]

-----------------------------------------------------------------------------
\* Where _probe_signature takes a call for k, lines 262-274: a cube without
\* refresh_key.sql is not probed; one with updateWindow <= 0 is probed anew.
FirstPoint(k) ==
    IF CubeOf[k] \in Windowed THEN "probeCache"
    ELSE IF CubeOf[k] \in Probed THEN "probeSql" ELSE "get"

\* load(use_cache=True), lines 171-175.
Begin(l, k) ==
    /\ At(l, "idle")
    /\ call' = [call EXCEPT ![l].key = k, ![l].useCache = TRUE,
                            ![l].pc = FirstPoint(k)]
    /\ UNCHANGED <<source, redis, futures>>

\* load(use_cache=False), the polls of the two subscribe endpoints.
BeginUncached(l, k) ==
    /\ At(l, "idle")
    /\ call' = [call EXCEPT ![l].key = k, ![l].pc = "execute"]
    /\ UNCHANGED <<source, redis, futures>>

\* GET cubepy:probe:<cube>, lines 274-277.
ReadProbeCache(l) ==
    /\ At(l, "probeCache")
    /\ LET found == probeCache[CubeOfCall(l)]
       IN  call' = [call EXCEPT ![l].sig = found,
                                ![l].pc = IF found = None THEN "probeSql" ELSE "get"]
    /\ UNCHANGED <<source, redis, futures>>

\* The probe query, lines 279-281.
RunProbe(l) ==
    /\ At(l, "probeSql")
    /\ call' = [call EXCEPT ![l].sig = source[CubeOfCall(l)],
                            ![l].pc = IF CubeOfCall(l) \in Windowed
                                      THEN "probeStore" ELSE "get"]
    /\ UNCHANGED <<source, redis, futures>>

\* SETEX cubepy:probe:<cube>, lines 282-283.
StoreProbe(l) ==
    /\ At(l, "probeStore")
    /\ probeCache' = [probeCache EXCEPT ![CubeOfCall(l)] = call[l].sig]
    /\ call' = [call EXCEPT ![l].pc = "get"]
    /\ UNCHANGED <<source, cached, storedSig, futures>>

\* GET key: a miss, lines 176-177.
Miss(l) ==
    /\ At(l, "get")
    /\ cached[call[l].key] = None
    /\ call' = [call EXCEPT ![l].pc = "enter"]
    /\ UNCHANGED <<source, redis, futures>>

\* GET key: a hit is the answer if there is no probe, else its signature is
\* read next, lines 176-181.
Hit(l) ==
    /\ At(l, "get")
    /\ cached[call[l].key] # None
    /\ call' = [call EXCEPT
                  ![l].env = cached[call[l].key],
                  ![l].pc = IF call[l].sig = None THEN "returned" ELSE "getSig",
                  ![l].outcome = IF call[l].sig = None THEN "ok" ELSE "none"]
    /\ UNCHANGED <<source, redis, futures>>

\* Mutant of Validate: line 182 asks only that a signature is stored.
ValidateAnySignature(l) ==
    /\ At(l, "getSig")
    /\ \/ /\ storedSig[call[l].key] # None
          /\ call' = [call EXCEPT ![l].pc = "returned", ![l].outcome = "ok"]
       \/ /\ storedSig[call[l].key] = None
          /\ call' = [call EXCEPT ![l].pc = "delete", ![l].env = None]
    /\ UNCHANGED <<source, redis, futures>>

\* GET key:probe: the signature read now decides whether the envelope read
\* before is served, lines 181-184, or dropped, line 185.
Validate(l) ==
    /\ At(l, "getSig")
    /\ \/ /\ storedSig[call[l].key] = call[l].sig
          /\ call' = [call EXCEPT ![l].pc = "returned", ![l].outcome = "ok"]
       \/ /\ storedSig[call[l].key] # call[l].sig
          /\ call' = [call EXCEPT ![l].pc = "delete", ![l].env = None]
    /\ UNCHANGED <<source, redis, futures>>

\* DEL key, line 186: the signature stays behind.
Delete(l) ==
    /\ At(l, "delete")
    /\ cached' = [cached EXCEPT ![call[l].key] = None]
    /\ call' = [call EXCEPT ![l].pc = "enter"]
    /\ UNCHANGED <<source, storedSig, probeCache, futures>>

-----------------------------------------------------------------------------
\* Mutant of Entry: line 189 finds the future of any query, as a key that
\* left out the filters or the security context would.
EntryOfAnyKey(l) ==
    LET found == {k \in Keys : inflight[Home[l]][k] # None}
    IN  IF found = {} THEN None ELSE inflight[Home[l]][CHOOSE k \in found : TRUE]

\* self._inflight.get(key), line 189.
Entry(l) == inflight[Home[l]][call[l].key]

\* An identical query is in flight: await its future, lines 189-192; if
\* another waiter's cancellation has cancelled it, the await raises at once.
Join(l) ==
    /\ At(l, "enter")
    /\ Entry(l) # None
    /\ \/ /\ ~futureCancelled[Entry(l)]
          /\ call' = [call EXCEPT ![l].leader = Entry(l), ![l].pc = "await"]
       \/ /\ futureCancelled[Entry(l)]
          /\ call' = [call EXCEPT ![l].leader = Entry(l), ![l].pc = "returned",
                                  ![l].outcome = "cancelled"]
    /\ UNCHANGED <<source, redis, futures>>

\* Mutant of Lead: a cold caller does not look for another, lines 189-190.
LeadUnchecked(l) ==
    /\ At(l, "enter")
    /\ inflight' = [inflight EXCEPT ![Home[l]][call[l].key] = l]
    /\ call' = [call EXCEPT ![l].pc = "execute"]
    /\ UNCHANGED <<source, redis, futureCancelled>>

\* The first cold caller registers its future, lines 195-198.
Lead(l) ==
    /\ At(l, "enter")
    /\ Entry(l) = None
    /\ inflight' = [inflight EXCEPT ![Home[l]][call[l].key] = l]
    /\ call' = [call EXCEPT ![l].pc = "execute"]
    /\ UNCHANGED <<source, redis, futureCancelled>>

\* Mutant of ComputedFrom: the entry is popped before the answer is cached.
ComputedFromThenPop(l, v) ==
    /\ At(l, "execute")
    /\ call' = [call EXCEPT
                  ![l].env = [key |-> call[l].key, version |-> v],
                  ![l].pc = IF call[l].useCache THEN "setex" ELSE "returned",
                  ![l].outcome = IF call[l].useCache THEN "none" ELSE "ok"]
    /\ inflight' = IF call[l].useCache
                   THEN [inflight EXCEPT ![Home[l]][call[l].key] = None]
                   ELSE inflight
    /\ UNCHANGED <<source, redis, futureCancelled>>

\* The query is answered from data of version v, lines 201 and 219-252.
ComputedFrom(l, v) ==
    /\ At(l, "execute")
    /\ call' = [call EXCEPT
                  ![l].env = [key |-> call[l].key, version |-> v],
                  ![l].pc = IF call[l].useCache THEN "setex" ELSE "returned",
                  ![l].outcome = IF call[l].useCache THEN "none" ELSE "ok"]
    /\ UNCHANGED <<source, redis, futures>>

\* Execution on the base cube.
Execute(l) == ComputedFrom(l, source[CubeOfCall(l)])

\* SETEX key, lines 203-205.
SetEx(l) ==
    /\ At(l, "setex")
    /\ cached' = [cached EXCEPT ![call[l].key] = call[l].env]
    /\ call' = [call EXCEPT ![l].pc = IF call[l].sig # None THEN "setexSig"
                                      ELSE "settle"]
    /\ UNCHANGED <<source, storedSig, probeCache, futures>>

\* Mutant of SetExSig: the probe is run again when the signature is stored.
SetExSigOfNow(l) ==
    /\ At(l, "setexSig")
    /\ storedSig' = [storedSig EXCEPT ![call[l].key] = source[CubeOfCall(l)]]
    /\ call' = [call EXCEPT ![l].pc = "settle"]
    /\ UNCHANGED <<source, cached, probeCache, futures>>

\* SETEX key:probe, line 206.
SetExSig(l) ==
    /\ At(l, "setexSig")
    /\ storedSig' = [storedSig EXCEPT ![call[l].key] = call[l].sig]
    /\ call' = [call EXCEPT ![l].pc = "settle"]
    /\ UNCHANGED <<source, cached, probeCache, futures>>

\* Mutant of End: the handler of line 211 is `except Exception`, which does
\* not catch CancelledError, so that the future stays pending.
EndByException(l, how) ==
    /\ call' = [m \in Loads |->
                  IF m = l \/ (how # "cancelled" /\ m \in Waiters(l))
                  THEN [call[m] EXCEPT !.pc = "returned", !.env = call[l].env,
                                       !.outcome = how]
                  ELSE call[m]]
    /\ inflight' = IF Leads(l)
                   THEN [inflight EXCEPT ![Home[l]][call[l].key] = None]
                   ELSE inflight
    /\ futureCancelled' = [futureCancelled EXCEPT ![l] = FALSE]
    /\ UNCHANGED <<source, redis>>

\* Mutant of End: the pop of line 217 is not in a finally block.
EndWithoutFinally(l, how) ==
    /\ call' = [m \in Loads |->
                  IF m \in {l} \cup Waiters(l)
                  THEN [call[m] EXCEPT !.pc = "returned", !.env = call[l].env,
                                       !.outcome = how]
                  ELSE call[m]]
    /\ inflight' = IF Leads(l) /\ how = "ok"
                   THEN [inflight EXCEPT ![Home[l]][call[l].key] = None]
                   ELSE inflight
    /\ futureCancelled' = [futureCancelled EXCEPT ![l] = FALSE]
    /\ UNCHANGED <<source, redis>>

(***************************************************************************)
(* The end of a call: if it leads, set_result or set_exception unless the  *)
(* future is already cancelled, then the pop of the finally block, in one  *)
(* synchronous stretch (lines 208-217).  Every call waiting on the future  *)
(* ends the same way; a cancelled future has none.                         *)
(***************************************************************************)
End(l, how) ==
    /\ call' = [m \in Loads |->
                  IF m \in {l} \cup Waiters(l)
                  THEN [call[m] EXCEPT !.pc = "returned", !.env = call[l].env,
                                       !.outcome = how]
                  ELSE call[m]]
    /\ inflight' = IF Leads(l)
                   THEN [inflight EXCEPT ![Home[l]][call[l].key] = None]
                   ELSE inflight
    /\ futureCancelled' = [futureCancelled EXCEPT ![l] = FALSE]
    /\ UNCHANGED <<source, redis>>

Settle(l) == At(l, "settle") /\ End(l, "ok")

\* Mutant of Fail: an error is delivered as a result (no `raise`, line 214).
FailSwallowed(l) == call[l].pc \in Running /\ End(l, "ok")

\* An awaited Redis command or SQL statement raises, before or after it
\* took effect.
Fail(l) == call[l].pc \in Running /\ End(l, "failed")

\* The task of a call that is not waiting is cancelled: CancelledError is a
\* BaseException, so it takes the same way out.
CancelRunning(l) ==
    l \in Cancellable /\ call[l].pc \in Running /\ End(l, "cancelled")

\* The task of a waiting call is cancelled: asyncio cancels the future it
\* awaits (line 192), which is the one every other waiter awaits.
CancelWaiting(l) ==
    /\ l \in Cancellable
    /\ At(l, "await")
    /\ call' = [m \in Loads |->
                  IF m \in Waiters(call[l].leader)
                  THEN [call[m] EXCEPT !.pc = "returned", !.outcome = "cancelled"]
                  ELSE call[m]]
    /\ futureCancelled' = [futureCancelled EXCEPT ![call[l].leader] = TRUE]
    /\ UNCHANGED <<source, redis, inflight>>

\* The caller takes the result; the slot is free for another call.
Finish(l) ==
    /\ At(l, "returned")
    /\ call' = [call EXCEPT ![l] = Idle]
    /\ UNCHANGED <<source, redis, futures>>

-----------------------------------------------------------------------------
(***************************************************************************)
(* The environment: the data changes; Redis expires each entry on its own  *)
(* clock, the envelope and its signature having been set one after the     *)
(* other.                                                                  *)
(***************************************************************************)
ChangeSource(c) ==
    /\ source[c] < MaxVersion
    /\ source' = [source EXCEPT ![c] = @ + 1]
    /\ UNCHANGED <<redis, futures, call>>

ExpireCached(k) ==
    /\ cached[k] # None
    /\ cached' = [cached EXCEPT ![k] = None]
    /\ UNCHANGED <<source, storedSig, probeCache, futures, call>>

ExpireSig(k) ==
    /\ storedSig[k] # None
    /\ storedSig' = [storedSig EXCEPT ![k] = None]
    /\ UNCHANGED <<source, cached, probeCache, futures, call>>

ExpireProbe(c) ==
    /\ probeCache[c] # None
    /\ probeCache' = [probeCache EXCEPT ![c] = None]
    /\ UNCHANGED <<source, cached, storedSig, futures, call>>

\* What call l does by itself, when the servers answer.
Step(l) ==
    \/ ReadProbeCache(l) \/ RunProbe(l) \/ StoreProbe(l)
    \/ Miss(l) \/ Hit(l) \/ Validate(l) \/ Delete(l)
    \/ Join(l) \/ Lead(l)
    \/ Execute(l) \/ SetEx(l) \/ SetExSig(l) \/ Settle(l)
    \/ Finish(l)

\* What may befall call l.
Mishap(l) == Fail(l) \/ CancelRunning(l) \/ CancelWaiting(l)

Environment ==
    \/ \E c \in Cubes : ChangeSource(c) \/ ExpireProbe(c)
    \/ \E k \in Keys : ExpireCached(k) \/ ExpireSig(k)

Next ==
    \/ \E l \in Loads : Step(l) \/ Mishap(l)
    \/ \E l \in Loads, k \in Keys : Begin(l, k) \/ BeginUncached(l, k)
    \/ Environment

Spec == Init /\ [][Next]_vars

(***************************************************************************)
(* Fairness: the event loop resumes every coroutine whose await completed, *)
(* and Redis and the database answer or fail every request; the TTL of a   *)
(* cached probe result runs out.  Nothing forces a call to be made, the    *)
(* data to change, a call to fail or a cached envelope to expire.          *)
(***************************************************************************)
Fairness ==
    /\ \A l \in Loads : WF_vars(Step(l))
    /\ \A c \in Cubes : WF_vars(ExpireProbe(c))

FairSpec == Spec /\ Fairness

-----------------------------------------------------------------------------
Outcomes == {"none", "ok", "failed", "cancelled"}

Calls == [pc : Points, key : Keys \cup {None}, useCache : BOOLEAN,
          sig : Versions \cup {None}, env : Envelopes \cup {None},
          leader : Loads \cup {None}, outcome : Outcomes]

\* What the locals of a call are bound to at each control point.
LocalsBound(l) ==
    /\ IF At(l, "idle") THEN call[l] = Idle ELSE call[l].key \in Keys
    /\ call[l].pc \in Looking \cup {"await", "setex", "setexSig", "settle"}
          => call[l].useCache
    /\ call[l].pc \in {"probeStore", "getSig", "delete", "setexSig"}
          => call[l].sig \in Versions
    /\ call[l].pc \in {"getSig", "setex", "setexSig", "settle"}
          => call[l].env \in Envelopes
    /\ At(l, "returned") /\ call[l].outcome = "ok" => call[l].env \in Envelopes
    /\ At(l, "await") => call[l].leader \in Loads

\* Types of the variables, and of each local where load() uses it: no step
\* reads a signature, an envelope or a future that was never assigned.
TypeOK ==
    /\ source \in [Cubes -> Versions]
    /\ cached \in [Keys -> Envelopes \cup {None}]
    /\ storedSig \in [Keys -> Versions \cup {None}]
    /\ probeCache \in [Cubes -> Versions \cup {None}]
    /\ inflight \in [Workers -> [Keys -> Loads \cup {None}]]
    /\ futureCancelled \in [Loads -> BOOLEAN]
    /\ call \in [Loads -> Calls]
    /\ \A l \in Loads : LocalsBound(l)

\* _inflight holds exactly the futures of the calls that are executing, each
\* under its own key: no entry outlives its execution, whichever way that
\* ends, and no two calls of a worker execute one key at the same time.
InflightExact ==
    /\ \A w \in Workers, k \in Keys :
          inflight[w][k] # None => LeadsFor(inflight[w][k], w, k)
    /\ \A l \in Loads : Leads(l) => Entry(l) = l

\* A waiting call waits for a call of its own worker that is executing its
\* own key and whose future is still pending: it can be neither stranded by
\* a leader that is gone nor answered with another query's envelope.
NoStrandedWaiter ==
    \A l \in Loads : At(l, "await") =>
        /\ LeadsFor(call[l].leader, Home[l], call[l].key)
        /\ ~futureCancelled[call[l].leader]

\* Every call that ends well, as leader, on a hit or by joining, holds an
\* envelope that was computed for its own query and security context.
AnswersOwnKey ==
    \A l \in Loads : At(l, "returned") /\ call[l].outcome = "ok"
        => call[l].env.key = call[l].key

\* The signature stored beside an envelope is never newer than the data the
\* envelope was computed from, so comparing it with a current probe can only
\* err towards executing again.  The two entries are written, deleted and
\* expired separately, by calls that may fail in between.
SignatureBehindData ==
    \A k \in Keys : cached[k] # None /\ storedSig[k] # None
        => storedSig[k] <= cached[k].version

\* No step replaces a cached envelope by one computed from older data.
CacheNeverGoesBack ==
    [][\A k \in Keys : cached[k] # None /\ cached'[k] # None
          => cached[k].version <= cached'[k].version]_vars

\* Every call ends: with a result, an exception or a cancellation, whatever
\* happens to the calls it shares an execution with.
EveryLoadReturns ==
    \A l \in Loads : ~At(l, "idle") ~> At(l, "returned")

\* A probed cube's data changes for the last time: from some moment on every
\* cached load of it returns that data, although no envelope need expire.
FreshOnceSourceRests ==
    \A c \in Probed :
        <>[](source[c] = MaxVersion)
          => <>[](\A l \in Loads :
                    /\ At(l, "returned") /\ call[l].outcome = "ok"
                    /\ CubeOfCall(l) = c
                    => call[l].env.version = MaxVersion)

-----------------------------------------------------------------------------
(***************************************************************************)
(* What the repository says of load() and its interleavings do not keep.   *)
(***************************************************************************)

\* A hit is served only if the probe is unchanged since its envelope was
\* computed (the test of refresh_key.sql): the envelope is no older than
\* what the call's own probe saw.  The envelope and the signature are read
\* by two commands, between which another call may refresh both.
HitNotOlderThanProbe ==
    \A l \in Loads :
        /\ At(l, "returned") /\ call[l].outcome = "ok"
        /\ call[l].leader = None /\ call[l].sig # None
        => call[l].sig <= call[l].env.version

=============================================================================
