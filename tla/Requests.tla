------------------------------- MODULE Requests -------------------------------
(***************************************************************************)
(* Two requests that talk more than once to what they depend on: POST      *)
(* /v1/ask, which has a language model write a query, repair it once and   *)
(* put the result into words, and POST /v1/subscribe, the long poll, which *)
(* loads again and again until the result changes or its time is up.       *)
(* QueryOrchestrator.load is taken here by what QueryService says of it:   *)
(* it reads the data at one moment, or raises.                             *)
(***************************************************************************)
EXTENDS Integers, Sequences

CONSTANTS
    Values,         \* what a query may answer; Empty is the answer without rows
    Empty,
    Members,        \* members that a query may name where the whitelist looks
    Allowed,        \* those of the cubes that the caller sees
    Replies,        \* the query payloads that the language model may write
    Interprets,     \* settings.ask_interpret
    MaxAsks,        \* questions that are asked in all
    MaxChanges,     \* changes of the data
    MaxFailures,    \* loads of the long poll that raise
    MaxWait,        \* its timeout, in ticks ...
    Every,          \* ... and the time between its loads
    None

\* A payload names members where _collect_members looks; those it may have in
\* filters under "or_" and "and_", which Query.parse takes too, are not among
\* them.  `stops` is the first function that cannot take it: _collect_members,
\* _normalize_filter_numbers or Query.parse.
Payload == [named : SUBSET Members, stops : {"collect", "normalise", "parse", "never"}]

ASSUME RequestsAssumption ==
    /\ Empty \in Values /\ None \notin Values \cup Replies
    /\ Allowed \subseteq Members /\ Replies \subseteq Payload
    /\ Interprets \in BOOLEAN
    /\ MaxAsks \in Nat /\ MaxChanges \in Nat /\ MaxFailures \in Nat
    /\ MaxWait \in Nat /\ Every \in Nat \ {0}

VARIABLES
    data,       \* what a load reads now
    changes,    \* how often the data has changed
    asked,      \* how many questions have been asked
    ask,        \* the question being answered, or the last one
    audit,      \* the calls of _audit: [ask, outcome]
    poll,       \* the long poll
    failures,   \* how many of its loads have raised
    has         \* what the client of the long poll was last answered

vars == <<data, changes, asked, ask, audit, poll, failures, has>>
askVars  == <<asked, ask, audit>>
pollVars == <<poll, failures, has>>

Outcomes == {"ok", "not_answerable", "invalid_query"}

Init ==
    /\ data \in Values /\ changes = 0
    /\ asked = 0 /\ audit = <<>>
    /\ ask = [phase |-> "done", attempt |-> 0, try |-> 1, query |-> None, rows |-> None,
              status |-> None]
    /\ poll = [phase |-> "idle", left |-> 0, base |-> None, got |-> None]
    /\ failures = 0 /\ has = None

\* The owners of the data change it.
Change ==
    /\ changes < MaxChanges
    /\ data' \in Values \ {data}
    /\ changes' = changes + 1
    /\ UNCHANGED <<askVars, pollVars>>

-----------------------------------------------------------------------------
(* ask *)

\* A question is put to the model, or answered before: an empty one with 400,
\* any with 500 when the glossary does not resolve and 503 without a model.
Ask ==
    /\ ask.phase = "done" /\ asked < MaxAsks
    /\ asked' = asked + 1
    /\ LET Begun(phase, attempt, status) ==
              [phase |-> phase, attempt |-> attempt, try |-> 1, query |-> None, rows |-> None,
               status |-> status]
       IN  \/ ask' = Begun("planning", 1, None)
           \/ \E status \in {400, 500, 503} : ask' = Begun("done", 0, status)
    /\ UNCHANGED <<audit, pollVars, data, changes>>

\* A call of _audit; that an OSError may cost its line is swallowed there.
Audit(outcome) == audit' = Append(audit, [ask |-> asked, outcome |-> outcome])

Finish(status) == ask' = [ask EXCEPT !.phase = "done", !.status = status]

\* The exception of a planning call is answered at once, that of the
\* interpretation only costs its sentence.
LLMError ==
    \/ /\ ask.phase = "planning"
       /\ Finish(503)
       /\ UNCHANGED audit
    \/ /\ ask.phase = "interpreting"
       /\ Finish(200) /\ Audit("ok")

Conversing == ask.phase \in {"planning", "interpreting"}

\* Mutant of PostFails: the post is retried as long as it fails.
PostFailsAgain ==
    /\ Conversing
    /\ ask' = [ask EXCEPT !.try = 3 - @] /\ UNCHANGED audit
    /\ UNCHANGED <<asked, pollVars, data, changes>>

\* LLM.chat: a post that times out or fails is retried once.
PostFails ==
    /\ Conversing
    /\ \/ ask.try = 1 /\ ask' = [ask EXCEPT !.try = 2] /\ UNCHANGED audit
       \/ ask.try = 2 /\ LLMError
    /\ UNCHANGED <<asked, pollVars, data, changes>>

\* A body whose list of choices is empty: an IndexError, which chat does not
\* retry and neither the route nor _interpret catches.
NoChoices ==
    /\ Conversing
    /\ Finish(500)
    /\ UNCHANGED <<asked, audit, pollVars, data, changes>>

\* extract_json raises a ValueError, answered like a model that is down.
Unparsable ==
    /\ ask.phase = "planning"
    /\ Finish(503)
    /\ UNCHANGED <<asked, audit, pollVars, data, changes>>

NotAnswerable ==
    /\ ask.phase = "planning"
    /\ Finish(400) /\ Audit("not_answerable")
    /\ UNCHANGED <<asked, pollVars, data, changes>>

\* Whether the route runs a reply: what it can see of it is on the whitelist,
\* and Query.parse takes it.
Runnable(reply) == reply.named \subseteq Allowed /\ reply.stops = "never"

\* A payload of a shape that the functions before Query.parse do not expect (an
\* order that is a list, a time dimension that is a string, a filter's member
\* that is a number) raises an AttributeError that no handler catches.
Raises(reply) ==
    \/ reply.stops = "collect"
    \/ reply.stops = "normalise" /\ reply.named \subseteq Allowed

ReplyRaises(reply) ==
    /\ ask.phase = "planning" /\ Raises(reply)
    /\ Finish(500)
    /\ UNCHANGED <<asked, audit, pollVars, data, changes>>

\* A query that may be run is; another is sent back, once, with what is wrong.
Planned(reply) ==
    /\ ask.phase = "planning" /\ Runnable(reply)
    /\ ask' = [ask EXCEPT !.phase = "loading", !.query = reply]
    /\ UNCHANGED <<asked, audit, pollVars, data, changes>>

Repair(reply) ==
    /\ ask.phase = "planning" /\ ~Raises(reply) /\ ~Runnable(reply)
    /\ \/ /\ ask.attempt = 1
          /\ ask' = [ask EXCEPT !.attempt = 2, !.try = 1]
          /\ UNCHANGED audit
       \/ /\ ask.attempt = 2
          /\ Finish(400) /\ Audit("invalid_query")
    /\ UNCHANGED <<asked, pollVars, data, changes>>

\* orch.load reads the data ...
AskReads ==
    /\ ask.phase = "loading"
    /\ ask' = [ask EXCEPT !.phase = "loaded", !.rows = data]
    /\ UNCHANGED <<asked, audit, pollVars, data, changes>>

\* Mutant of AskRaises: the failure is audited as an answer.
AskRaisesAudited ==
    /\ ask.phase = "loading"
    /\ Finish(500) /\ Audit("ok")
    /\ UNCHANGED <<asked, pollVars, data, changes>>

\* ... or raises, which no handler of the route catches.
AskRaises ==
    /\ ask.phase = "loading"
    /\ Finish(500)
    /\ UNCHANGED <<asked, audit, pollVars, data, changes>>

AskLoaded ==
    /\ ask.phase = "loaded"
    /\ \/ /\ Interprets /\ ask.rows # Empty
          /\ ask' = [ask EXCEPT !.phase = "interpreting", !.try = 1]
          /\ UNCHANGED audit
       \/ /\ ~Interprets \/ ask.rows = Empty
          /\ Finish(200) /\ Audit("ok")
    /\ UNCHANGED <<asked, pollVars, data, changes>>

Interpreted ==
    /\ ask.phase = "interpreting"
    /\ Finish(200) /\ Audit("ok")
    /\ UNCHANGED <<asked, pollVars, data, changes>>

-----------------------------------------------------------------------------
(* subscribe *)

Subscribe ==
    /\ poll.phase = "idle"
    /\ poll' = [phase |-> "first", left |-> MaxWait, base |-> None, got |-> None]
    /\ UNCHANGED <<failures, has, askVars, data, changes>>

\* load(use_cache=False), the first time and in the loop.  A load of the loop
\* may take some of the time that is left.
PollReads ==
    /\ poll.phase \in {"first", "loading"}
    /\ \E taken \in IF poll.phase = "first" THEN {0} ELSE {0, 1} :
          poll' = [poll EXCEPT !.phase = IF @ = "first" THEN "ready" ELSE "read",
                               !.base = IF @ = None THEN data ELSE @,
                               !.got = data, !.left = @ - taken]
    /\ UNCHANGED <<failures, has, askVars, data, changes>>

\* An error of the first load is answered 400 or 500, one of the loop 500.
PollRaises ==
    /\ poll.phase \in {"first", "loading"} /\ failures < MaxFailures
    /\ failures' = failures + 1
    /\ poll' = [poll EXCEPT !.phase = "idle"]
    /\ UNCHANGED <<has, askVars, data, changes>>

Sleep ==
    /\ poll.phase = "ready" /\ poll.left > 0
    /\ poll' = [poll EXCEPT !.phase = "loading", !.left = @ - Every]
    /\ UNCHANGED <<failures, has, askVars, data, changes>>

Compare ==
    /\ poll.phase = "read" /\ poll.got = poll.base
    /\ poll' = [poll EXCEPT !.phase = "ready"]
    /\ UNCHANGED <<failures, has, askVars, data, changes>>

\* Mutant of Answer: a poll whose result did not change is answered nothing.
AnswerChangesOnly ==
    /\ \/ poll.phase = "read" /\ poll.got # poll.base /\ has' = poll.got
       \/ poll.phase = "ready" /\ poll.left <= 0 /\ UNCHANGED has
    /\ poll' = [poll EXCEPT !.phase = "idle"]
    /\ UNCHANGED <<failures, askVars, data, changes>>

\* The result has changed, or time is up: the latest result is sent.
Answer ==
    /\ \/ poll.phase = "read" /\ poll.got # poll.base
       \/ poll.phase = "ready" /\ poll.left <= 0
    /\ has' = poll.got
    /\ poll' = [poll EXCEPT !.phase = "idle"]
    /\ UNCHANGED <<failures, askVars, data, changes>>

-----------------------------------------------------------------------------
\* A post of the language model ends, its timeout sees to that.
Post ==
    \/ PostFails \/ NoChoices \/ Unparsable \/ NotAnswerable \/ Interpreted
    \/ \E reply \in Replies : Planned(reply) \/ Repair(reply) \/ ReplyRaises(reply)

AskStep  == Post \/ AskReads \/ AskRaises \/ AskLoaded
PollStep == PollReads \/ PollRaises \/ Sleep \/ Compare \/ Answer

Next == Change \/ Ask \/ AskStep \/ Subscribe \/ PollStep

\* Loads end (QueryOrchestrator), posts and sleeps end by their timeouts, and
\* the client of a long poll polls again.
Fairness == WF_vars(AskStep) /\ WF_vars(PollStep) /\ WF_vars(Subscribe)

Spec == Init /\ [][Next]_vars /\ Fairness

-----------------------------------------------------------------------------
EntriesOf(n) == {i \in DOMAIN audit : audit[i].ask = n}

\* What the audit trail says is true, however the model, the repair round and
\* the load end: a question has at most one line, written as it is answered; the
\* line says ok just when the answer is one with data, anything else only of
\* a refusal, and no answer with data goes without.
AuditTellsTheOutcome ==
    /\ \A i, j \in DOMAIN audit : i # j => audit[i].ask # audit[j].ask
    /\ \A i \in DOMAIN audit : audit[i].ask \in 1 .. asked
    /\ ask.phase # "done" => EntriesOf(asked) = {}
    /\ ask.phase = "done" /\ asked > 0 =>
          /\ ask.status = 200 => EntriesOf(asked) # {}
          /\ \A i \in EntriesOf(asked) :
                ask.status = IF audit[i].outcome = "ok" THEN 200 ELSE 400

\* Every question and every long poll is answered, whatever fails.
RequestsReturn ==
    /\ (ask.phase # "done") ~> (ask.phase = "done")
    /\ (poll.phase # "idle") ~> (poll.phase = "idle")

\* A client that polls again and again has the latest data once it rests, a
\* change between two of its polls included.
PollerCatchesUp == \A v \in Values : <>[](data = v) => <>[](has = v)

=============================================================================
