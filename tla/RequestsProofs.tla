---------------------------- MODULE RequestsProofs ----------------------------
(***************************************************************************)
(* Proofs about the questions of Requests: for any payloads that the model *)
(* may write, any number of questions and any failures, what the audit     *)
(* trail says of a question is how it was answered.                        *)
(***************************************************************************)
EXTENDS Requests, TLAPS

Entry == [ask : Nat, outcome : Outcomes]

Statuses == {None, 200, 400, 500, 503}

Asking ==
    [phase   : {"planning", "loading", "loaded", "interpreting", "done"},
     attempt : {0, 1, 2}, try : {1, 2},
     query   : Replies \cup {None}, rows : Values \cup {None},
     status  : Statuses]

\* The part of the state that the invariant is about.
AskTyped ==
    /\ data \in Values /\ asked \in Nat
    /\ audit \in Seq(Entry) /\ ask \in Asking

IInv == AskTyped /\ AuditTellsTheOutcome

\* No question has been asked yet, and none is pending.
LEMMA InitIInv == Init => IInv
  BY RequestsAssumption
     DEF Init, IInv, AskTyped, Asking, Statuses, Entry, AuditTellsTheOutcome, EntriesOf

-----------------------------------------------------------------------------
\* A step that leaves questions and audit alone, and the data among the values.
LEMMA OthersKeepIInv ==
    ASSUME IInv, UNCHANGED askVars, data' \in Values
    PROVE  IInv'
  BY DEF IInv, AskTyped, AuditTellsTheOutcome, EntriesOf, askVars

\* A question goes on, without a line in the audit trail.
LEMMA GoesOn ==
    ASSUME IInv, UNCHANGED <<asked, audit, data>>,
           ask.phase # "done", ask' \in Asking, ask'.phase # "done"
    PROVE  IInv'
  BY DEF IInv, AskTyped, AuditTellsTheOutcome, EntriesOf

\* A question ends unaudited, with the status of an error.
LEMMA EndsUnaudited ==
    ASSUME IInv, UNCHANGED <<asked, audit, data>>, ask.phase # "done",
           NEW status \in {500, 503}, Finish(status)
    PROVE  IInv'
  <1>0. status \in Statuses
    BY DEF Statuses
  <1>1. ask' \in Asking /\ ask'.phase = "done" /\ ask'.status = status
    <2>1. ask \in Asking
      BY DEF IInv, AskTyped
    <2>2. ask' = [phase |-> "done", attempt |-> ask.attempt, try |-> ask.try, query |-> ask.query,
                  rows |-> ask.rows, status |-> status]
      BY <2>1 DEF Finish, Asking
    <2>3. /\ ask.attempt \in {0, 1, 2} /\ ask.try \in {1, 2}
          /\ ask.rows \in Values \cup {None} /\ ask.query \in Replies \cup {None}
      BY <2>1 DEF Asking
    <2> QED
      BY <1>0, <2>2, <2>3 DEF Asking
  <1>2. EntriesOf(asked)' = {}
    BY DEF IInv, AuditTellsTheOutcome, EntriesOf
  <1> QED
    BY <1>1, <1>2 DEF IInv, AskTyped, AuditTellsTheOutcome, EntriesOf

\* A question is audited and ends, as ok with 200, as anything else with 400.
LEMMA EndsAudited ==
    ASSUME IInv, UNCHANGED <<asked, data>>, ask.phase # "done", asked > 0,
           NEW outcome \in Outcomes, NEW status \in {200, 400},
           (outcome = "ok") <=> (status = 200),
           Finish(status), Audit(outcome)
    PROVE  IInv'
  <1>0. status \in Statuses
    BY DEF Statuses
  <1>1. ask' \in Asking /\ ask'.phase = "done" /\ ask'.status = status
    BY <1>0 DEF Finish, IInv, AskTyped, Asking
  <1>2. audit' = Append(audit, [ask |-> asked, outcome |-> outcome])
    BY DEF Audit
  <1> DEFINE n == Len(audit) + 1
  <1>3. /\ [ask |-> asked, outcome |-> outcome] \in Entry
        /\ audit \in Seq(Entry) /\ asked \in Nat
    BY <1>2 DEF IInv, AskTyped, Entry
  <1>4. /\ audit' \in Seq(Entry) /\ Len(audit) \in Nat
        /\ DOMAIN audit = 1 .. Len(audit) /\ DOMAIN audit' = 1 .. n
        /\ \A i \in DOMAIN audit : i # n /\ audit'[i] = audit[i]
        /\ audit'[n] = [ask |-> asked, outcome |-> outcome]
    BY <1>2, <1>3
  <1>5. \A i \in DOMAIN audit : audit[i].ask # asked
    BY DEF IInv, AuditTellsTheOutcome, EntriesOf
  <1>6. EntriesOf(asked)' = {n}
    BY <1>4, <1>5 DEF EntriesOf
  <1>7. AuditTellsTheOutcome'
    <2>1. \A i, j \in DOMAIN audit' : i # j => audit'[i].ask # audit'[j].ask
      BY <1>4, <1>5 DEF IInv, AuditTellsTheOutcome
    <2>2. \A i \in DOMAIN audit' : audit'[i].ask \in 1 .. asked'
      BY <1>3, <1>4 DEF IInv, AuditTellsTheOutcome
    <2> QED
      BY <1>1, <1>4, <1>6, <2>1, <2>2 DEF AuditTellsTheOutcome
  <1> QED
    BY <1>1, <1>3, <1>4, <1>7 DEF IInv, AskTyped

-----------------------------------------------------------------------------
\* No question is being answered before one has been asked: needed to know
\* that the last question has a number.
Numbered == ask.phase # "done" => asked > 0

LEMMA NextIInv == IInv /\ Numbered /\ [Next]_vars => (IInv /\ Numbered)'
  <1> SUFFICES ASSUME IInv, Numbered, [Next]_vars PROVE IInv' /\ Numbered'
    OBVIOUS
  <1> USE DEF Conversing, LLMError
  <1>1. CASE UNCHANGED vars
    BY <1>1, OthersKeepIInv DEF vars, askVars, Numbered, IInv, AskTyped
  <1>2. CASE Change
    BY <1>2, OthersKeepIInv DEF Change, askVars, Numbered
  <1>3. CASE Ask
    BY <1>3, RequestsAssumption DEF Ask, Numbered, IInv, AskTyped, Asking, Statuses, Entry, AuditTellsTheOutcome,
          EntriesOf
  <1>4. CASE PollStep \/ Subscribe
    BY <1>4, OthersKeepIInv DEF PollStep, Subscribe, PollReads, PollRaises, Sleep, Compare,
          Answer, askVars, Numbered, IInv, AskTyped
  <1>5. CASE AskStep
    <2> UNCHANGED <<asked, data>>
      BY <1>5 DEF AskStep, Post, PostFails, NoChoices, Unparsable, NotAnswerable, Interpreted, Planned,
            Repair, ReplyRaises, AskReads, AskRaises, AskLoaded
    <2> Numbered'
      BY <1>5 DEF AskStep, Post, PostFails, NoChoices, Unparsable, NotAnswerable, Interpreted, Planned,
            Repair, ReplyRaises, AskReads, AskRaises, AskLoaded, Numbered
    <2> ask.phase \in {"planning", "interpreting", "loading", "loaded"}
      BY <1>5 DEF AskStep, Post, PostFails, NoChoices, Unparsable, NotAnswerable, Interpreted, Planned,
            Repair, ReplyRaises, AskReads, AskRaises, AskLoaded
    <2> ask.phase # "done" /\ asked > 0
      BY DEF Numbered
    <2>1. CASE PostFails
      <3>1. CASE ask.try = 1 /\ ask' = [ask EXCEPT !.try = 2] /\ UNCHANGED audit
        <4>1. ask' \in Asking /\ ask'.phase # "done"
          BY <3>1 DEF IInv, AskTyped, Asking
        <4> QED
          BY <3>1, <4>1, GoesOn
      <3>2. CASE ask.phase = "planning" /\ Finish(503) /\ UNCHANGED audit
        BY <3>2, EndsUnaudited
      <3>3. CASE ask.phase = "interpreting" /\ Finish(200) /\ Audit("ok")
        BY <3>3, EndsAudited DEF Outcomes
      <3> QED
        BY <2>1, <3>1, <3>2, <3>3 DEF PostFails
    <2>2. CASE Unparsable
      BY <2>2, EndsUnaudited DEF Unparsable
    <2>3. CASE NotAnswerable
      BY <2>3, EndsAudited DEF NotAnswerable, Outcomes
    <2>4. CASE Interpreted
      BY <2>4, EndsAudited DEF Interpreted, Outcomes
    <2>5. ASSUME NEW reply \in Replies, Planned(reply) PROVE IInv'
      <3>1. ask' \in Asking /\ ask'.phase # "done"
        BY <2>5 DEF Planned, IInv, AskTyped, Asking
      <3> QED
        BY <2>5, <3>1, GoesOn DEF Planned
    <2>6. ASSUME NEW reply \in Replies, Repair(reply) PROVE IInv'
      <3>1. CASE ask.attempt = 1
        <4>1. /\ ask' = [ask EXCEPT !.attempt = 2, !.try = 1]
              /\ ask.phase = "planning" /\ UNCHANGED audit
          BY <2>6, <3>1 DEF Repair
        <4>2. ask' \in Asking /\ ask'.phase = "planning"
          BY <4>1 DEF IInv, AskTyped, Asking
        <4> QED
          BY <4>1, <4>2, GoesOn
      <3>2. CASE ask.attempt = 2
        BY <2>6, <3>2, EndsAudited DEF Repair, Outcomes
      <3> QED
        BY <2>6, <3>1, <3>2 DEF Repair
    <2>7. ASSUME NEW reply \in Replies, ReplyRaises(reply) PROVE IInv'
      BY <2>7, EndsUnaudited DEF ReplyRaises
    <2>8. CASE AskReads
      <3>1. ask' \in Asking /\ ask'.phase # "done"
        BY <2>8 DEF AskReads, IInv, AskTyped, Asking
      <3> QED
        BY <2>8, <3>1, GoesOn DEF AskReads
    <2>9. CASE AskRaises
      BY <2>9, EndsUnaudited DEF AskRaises
    <2>10. CASE AskLoaded
      <3>1. CASE ask' = [ask EXCEPT !.phase = "interpreting", !.try = 1] /\ UNCHANGED audit
        <4>1. ask' \in Asking /\ ask'.phase # "done"
          BY <2>10, <3>1 DEF AskLoaded, IInv, AskTyped, Asking
        <4> QED
          BY <3>1, <4>1, GoesOn
      <3>2. CASE Finish(200) /\ Audit("ok")
        BY <3>2, EndsAudited DEF Outcomes
      <3> QED
        BY <2>10, <3>1, <3>2 DEF AskLoaded
    <2>11. CASE NoChoices
      BY <2>11, EndsUnaudited DEF NoChoices
    <2> QED
      BY <1>5, <2>1, <2>2, <2>3, <2>4, <2>5, <2>6, <2>7, <2>8, <2>9, <2>10, <2>11 DEF AskStep, Post
  <1> QED
    BY <1>1, <1>2, <1>3, <1>4, <1>5 DEF Next

-----------------------------------------------------------------------------
\* What the audit trail says of a question is how it was answered, whatever the
\* model writes and whatever fails.
THEOREM AuditIsTrue == Spec => []AuditTellsTheOutcome
  <1>1. Init => IInv /\ Numbered
    BY InitIInv DEF Init, Numbered
  <1>2. IInv => AuditTellsTheOutcome
    BY DEF IInv
  <1> QED
    BY <1>1, <1>2, NextIInv, PTL DEF Spec

=============================================================================
