---------------------------- MODULE Subscriptions ----------------------------
(***************************************************************************)
(* One WebSocket connection of api/routes_ws.py: the handler, which reads   *)
(* the client's messages, and the poll tasks it creates, one per message   *)
(* id, which load their query again and again and push what has changed.   *)
(*                                                                         *)
(* A hash of a result is the result; a result is the data of its query.    *)
(* Cancelling a task lets it run no further than the await it is at: a     *)
(* cancelled poll only unwinds, which releases the send lock.              *)
(***************************************************************************)
CONSTANTS
    MessageIds, \* ids that the client gives its subscriptions
    Polls,      \* slots for poll tasks
    Queries,    \* queries that parse
    Results,    \* what the data of a query may be
    None

ASSUME SubscriptionsAssumption ==
    None \notin Results \cup Polls \cup MessageIds \cup Queries

VARIABLES
    data,    \* data[q]: what query q returns now
    alive,   \* the client is connected
    handler, \* where subscribe() is
    subs,    \* subs[m]: the task registered under message id m
    poll,    \* poll[p]: the locals of _poll in slot p
    got      \* history, got[m]: the newest result pushed to the client under m

vars == <<data, alive, handler, subs, poll, got>>

Done    == {"free", "told", "raised"}
Sending == {"send", "sent", "errsend"}
Serving == {"receive", "errlock", "errsend"}

Free == [at |-> "free", id |-> None, query |-> None,
         held |-> None, last |-> None, cancelled |-> FALSE]

NewPoll(m, q) == [Free EXCEPT !.at = "load", !.id = m, !.query = q]

Init ==
    /\ data \in [Queries -> Results]
    /\ alive = TRUE
    /\ handler = "auth"
    /\ subs = [m \in MessageIds |-> None]
    /\ poll = [p \in Polls |-> Free]
    /\ got = [m \in MessageIds |-> None]

\* send_lock is held by whoever is at a send.
LockFree ==
    /\ handler # "errsend"
    /\ \A p \in Polls : poll[p].at \notin Sending

Running(p) == poll[p].at \notin Done /\ ~poll[p].cancelled

\* The tasks ps after task.cancel(), which does nothing to a task that is done.
Cancelled(ps) ==
    [p \in Polls |-> IF p \in ps /\ poll[p].at \notin Done
                     THEN [poll[p] EXCEPT !.cancelled = TRUE]
                     ELSE poll[p]]

Registered == {p \in Polls : \E m \in MessageIds : subs[m] = p}

-----------------------------------------------------------------------------
(* The handler.  What a client sent before it went away is not read. *)

GoTo(point) ==
    /\ handler' = point
    /\ UNCHANGED <<data, alive, subs, poll, got>>

Authenticate == handler = "auth" /\ alive /\ GoTo("receive")

\* No message in time, none that can be read, or no valid token.
RefuseClient == handler = "auth" /\ GoTo("gone")

\* Mutant of Subscribe: the task registered before is not cancelled.
SubscribeUncancelled(m, q, p) ==
    /\ handler = "receive" /\ alive
    /\ poll[p].at \in Done /\ p \notin Registered
    /\ subs' = [subs EXCEPT ![m] = p]
    /\ poll' = [poll EXCEPT ![p] = NewPoll(m, q)]
    /\ UNCHANGED <<data, alive, handler, got>>

Subscribe(m, q, p) ==
    /\ handler = "receive" /\ alive
    /\ poll[p].at \in Done /\ p \notin Registered
    /\ subs' = [subs EXCEPT ![m] = p]
    /\ poll' = [Cancelled({subs[m]}) EXCEPT ![p] = NewPoll(m, q)]
    /\ UNCHANGED <<data, alive, handler, got>>

\* The query of a subscribe message does not parse: an error is sent.
RefuseQuery == handler = "receive" /\ alive /\ GoTo("errlock")

HandlerLocks == handler = "errlock" /\ LockFree /\ GoTo("errsend")

HandlerTells == handler = "errsend" /\ alive /\ GoTo("receive")

\* Mutant of Unsubscribe: the task is taken out of subs and left to run.
UnsubscribeUncancelled(m) ==
    /\ handler = "receive" /\ alive
    /\ subs' = [subs EXCEPT ![m] = None]
    /\ UNCHANGED <<data, alive, handler, poll, got>>

Unsubscribe(m) ==
    /\ handler = "receive" /\ alive
    /\ subs' = [subs EXCEPT ![m] = None]
    /\ poll' = Cancelled({subs[m]})
    /\ UNCHANGED <<data, alive, handler, got>>

\* The finally clause, up to its first await.
Leave ==
    /\ handler' = "closing"
    /\ poll' = Cancelled(Registered)
    /\ UNCHANGED <<data, alive, subs, got>>

\* A message that cannot be handled: no JSON, no object, an interval that is
\* no number.
HandlerRaises == handler = "receive" /\ alive /\ Leave

\* Mutant of HandlerEnds: the registered tasks are awaited, not cancelled.
HandlerEndsUncancelled ==
    /\ handler \in {"receive", "errsend"} /\ ~alive
    /\ GoTo("closing")

\* The receive, or the send of an error, finds the client gone.
HandlerEnds == handler \in {"receive", "errsend"} /\ ~alive /\ Leave

\* The handler has awaited the registered tasks.
Close ==
    /\ handler = "closing"
    /\ \A p \in Registered : poll[p].at \in Done
    /\ GoTo("gone")

-----------------------------------------------------------------------------
(* A poll. *)

At(p, point) == Running(p) /\ poll[p].at = point

Update(p, state) ==
    /\ poll' = [poll EXCEPT ![p] = state]
    /\ UNCHANGED <<data, alive, handler, subs>>

Become(p, state) == Update(p, state) /\ UNCHANGED got

\* Mutant of Load: only the first result is news.
LoadOnce(p) ==
    /\ At(p, "load")
    /\ IF poll[p].last = None
       THEN Become(p, [poll[p] EXCEPT !.at = "lock",
                                      !.held = data[poll[p].query]])
       ELSE Become(p, [poll[p] EXCEPT !.at = "sleep"])

\* An uncached load; its result is news if it is not the last one pushed.
Load(p) ==
    /\ At(p, "load")
    /\ IF data[poll[p].query] # poll[p].last
       THEN Become(p, [poll[p] EXCEPT !.at = "lock",
                                      !.held = data[poll[p].query]])
       ELSE Become(p, [poll[p] EXCEPT !.at = "sleep"])

\* The load raises one of the three exceptions that _poll expects.
LoadRefused(p) ==
    At(p, "load") /\ Become(p, [poll[p] EXCEPT !.at = "errlock"])

\* It raises another one, and the task ends with it.
LoadRaises(p) ==
    At(p, "load") /\ Become(p, [Free EXCEPT !.at = "raised"])

Locked(p) ==
    \/ At(p, "lock") /\ Become(p, [poll[p] EXCEPT !.at = "send"])
    \/ At(p, "errlock") /\ Become(p, [poll[p] EXCEPT !.at = "errsend"])

\* Mutant of Lock: nobody waits for the send lock.
LockAtOnce(p) == Locked(p)

Lock(p) == LockFree /\ Locked(p)

\* The frame is written; send_json has not returned yet.
Push(p) ==
    /\ At(p, "send") /\ alive
    /\ Update(p, [poll[p] EXCEPT !.at = "sent"])
    /\ got' = [got EXCEPT ![poll[p].id] = poll[p].held]

Pushed(p) ==
    /\ At(p, "sent")
    /\ Become(p, [poll[p] EXCEPT !.at = "sleep", !.held = None,
                                 !.last = poll[p].held])

\* The error frame is sent, and the task returns.
Tell(p) ==
    At(p, "errsend") /\ alive /\ Become(p, [Free EXCEPT !.at = "told"])

SendRaises(p) ==
    /\ At(p, "send") \/ At(p, "errsend")
    /\ ~alive
    /\ Become(p, [Free EXCEPT !.at = "raised"])

Wake(p) == At(p, "sleep") /\ Become(p, [poll[p] EXCEPT !.at = "load"])

\* CancelledError is raised at the await where the task is.
Unwind(p) == poll[p].cancelled /\ Become(p, Free)

-----------------------------------------------------------------------------
ChangeData(q) ==
    /\ \E r \in Results \ {data[q]} : data' = [data EXCEPT ![q] = r]
    /\ UNCHANGED <<alive, handler, subs, poll, got>>

Disconnect ==
    /\ alive
    /\ alive' = FALSE
    /\ UNCHANGED <<data, handler, subs, poll, got>>

Ending == (RefuseClient /\ ~alive) \/ HandlerTells \/ HandlerEnds \/ Close

PollStep(p) ==
    \/ Load(p) \/ LoadRefused(p) \/ LoadRaises(p) \/ Lock(p)
    \/ Push(p) \/ Pushed(p) \/ Tell(p) \/ SendRaises(p) \/ Wake(p)
    \/ Unwind(p)

Next ==
    \/ Authenticate \/ RefuseClient
    \/ \E m \in MessageIds, q \in Queries, p \in Polls : Subscribe(m, q, p)
    \/ \E m \in MessageIds : Unsubscribe(m)
    \/ RefuseQuery \/ HandlerLocks \/ HandlerTells
    \/ HandlerRaises \/ HandlerEnds \/ Close
    \/ \E p \in Polls : PollStep(p)
    \/ \E q \in Queries : ChangeData(q)
    \/ Disconnect

Spec == Init /\ [][Next]_vars

(***************************************************************************)
(* Fairness: the event loop resumes whoever can go on, loads and sends     *)
(* end, and those who wait for the send lock get it in turn (asyncio.Lock  *)
(* is first in, first out).  No client is made to send, stay or go.        *)
(***************************************************************************)
FairSpec ==
    /\ Spec
    /\ WF_vars(Ending) /\ SF_vars(HandlerLocks)
    /\ \A p \in Polls : WF_vars(PollStep(p)) /\ SF_vars(Lock(p))

-----------------------------------------------------------------------------
TaskStates ==
    [at : Done \cup Sending \cup {"load", "lock", "errlock", "sleep"},
     id : MessageIds \cup {None}, query : Queries \cup {None},
     held : Results \cup {None}, last : Results \cup {None},
     cancelled : BOOLEAN]

\* What a task has in hand at each point: one that is done has nothing, any
\* other its subscription, a result from the comparison to the return of the
\* send, and asleep a result that it pushed.
WellFormed(t) ==
    /\ t.at \in Done => t = [Free EXCEPT !.at = t.at]
    /\ t.at \notin Done => t.id # None /\ t.query # None
    /\ t.held # None <=> t.at \in {"lock", "send", "sent"}
    /\ t.at = "sleep" => t.last # None

\* Types, what each task has in hand, and one sender at a time.
TypeOK ==
    /\ data \in [Queries -> Results]
    /\ alive \in BOOLEAN
    /\ handler \in Serving \cup {"auth", "closing", "gone"}
    /\ subs \in [MessageIds -> Polls \cup {None}]
    /\ got \in [MessageIds -> Results \cup {None}]
    /\ poll \in [Polls -> TaskStates]
    /\ \A p \in Polls : WellFormed(poll[p])
    /\ \A p \in Polls : poll[p].at \in Sending =>
          /\ handler # "errsend"
          /\ \A q \in Polls \ {p} : poll[q].at \notin Sending

\* Nobody polls but the tasks of the subscriptions in force: whatever the client
\* subscribes again or unsubscribes, and while whichever poll is loading,
\* waiting or sending, no two tasks answer under one message id, and none runs
\* on once the handler is leaving.
OnlySubscribedPoll ==
    \A p \in Polls :
        Running(p) => handler \in Serving /\ subs[poll[p].id] = p

\* What a sleeping poll takes for the last result pushed is the last result the
\* client was pushed under that message id, by whatever task.
HashIsWhatClientHas ==
    \A p \in Polls :
        Running(p) /\ poll[p].at = "sleep" => got[poll[p].id] = poll[p].last

\* When the client has gone, the handler ends, and every task with it: none is
\* left that loads for nobody, sends to nobody or keeps the send lock.
NothingOutlivesClient ==
    ~alive ~> [](handler = "gone" /\ \A p \in Polls : poll[p].at \in Done)

\* While a subscription is in force and its data is at rest, the client comes to
\* have that data, and keeps it, whatever was pushed, refused, replaced or
\* waited for the lock before.
ClientCatchesUp ==
    \A p \in Polls, m \in MessageIds, q \in Queries, r \in Results :
        <>[](/\ alive /\ data[q] = r
             /\ subs[m] = p /\ poll[p].query = q /\ Running(p))
          => <>[](got[m] = r)

=============================================================================
