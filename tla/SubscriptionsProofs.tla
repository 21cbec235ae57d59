------------------------- MODULE SubscriptionsProofs -------------------------
(***************************************************************************)
(* Theorems about Subscriptions, for any number of message ids, tasks,     *)
(* queries and results.                                                    *)
(***************************************************************************)
EXTENDS Subscriptions, TLAPS

\* The newest frame under a message id is what the poll in force has sent last:
\* the result in its hand from the write of the frame until send_json returns,
\* the one it remembers before and after.
PushesAreRemembered ==
    \A p \in Polls : Running(p) =>
        /\ poll[p].at = "sent" => got[poll[p].id] = poll[p].held
        /\ poll[p].at # "sent" /\ poll[p].last # None
              => got[poll[p].id] = poll[p].last

IInv == TypeOK /\ OnlySubscribedPoll /\ PushesAreRemembered

\* The shapes of state that the actions give a task.
LEMMA States ==
    /\ Free \in TaskStates /\ WellFormed(Free)
    /\ [Free EXCEPT !.at = "told"] \in TaskStates
    /\ WellFormed([Free EXCEPT !.at = "told"])
    /\ [Free EXCEPT !.at = "raised"] \in TaskStates
    /\ WellFormed([Free EXCEPT !.at = "raised"])
    /\ \A m \in MessageIds, q \in Queries :
          NewPoll(m, q) \in TaskStates /\ WellFormed(NewPoll(m, q))
BY SubscriptionsAssumption
   DEF TaskStates, WellFormed, Free, NewPoll, Done, Sending

\* No task exists before the client has been authenticated.
LEMMA InitIInv == Init => IInv
<1> SUFFICES ASSUME Init PROVE IInv
  OBVIOUS
<1>1. \A p \in Polls : poll[p] = Free
  BY DEF Init
<1>2. TypeOK
  BY <1>1, States DEF Init, TypeOK, Free, Sending, Serving
<1>3. \A p \in Polls : ~Running(p)
  BY <1>1 DEF Running, Free, Done
<1> QED
  BY <1>2, <1>3 DEF IInv, OnlySubscribedPoll, PushesAreRemembered

\* One task changes and nothing else that TypeOK is about.
LEMMA UpdateTypes ==
    ASSUME TypeOK, NEW p \in Polls, NEW t \in TaskStates, WellFormed(t),
           Update(p, t), got' \in [MessageIds -> Results \cup {None}],
           t.at \in Sending => LockFree \/ poll[p].at \in Sending
    PROVE  TypeOK'
<1>1. poll' \in [Polls -> TaskStates]
  BY DEF TypeOK, Update
<1>2. \A q \in Polls : poll'[q] = IF q = p THEN t ELSE poll[q]
  BY DEF TypeOK, Update
<1>3. \A q \in Polls : WellFormed(poll'[q])
  BY <1>2 DEF TypeOK
<1>4. \A q \in Polls : poll'[q].at \in Sending =>
          /\ handler # "errsend"
          /\ \A u \in Polls \ {q} : poll'[u].at \notin Sending
  BY <1>2 DEF TypeOK, LockFree
<1> QED
  BY <1>1, <1>3, <1>4 DEF TypeOK, Update

\* Cancelling changes nothing that TypeOK is about.
LEMMA CancelTypes ==
    ASSUME TypeOK, NEW ps
    PROVE  /\ Cancelled(ps) \in [Polls -> TaskStates]
           /\ \A p \in Polls : /\ WellFormed(Cancelled(ps)[p])
                               /\ Cancelled(ps)[p].at = poll[p].at
<1>1. ASSUME NEW t \in TaskStates, WellFormed(t), t.at \notin Done
      PROVE  LET u == [t EXCEPT !.cancelled = TRUE]
             IN  u \in TaskStates /\ WellFormed(u) /\ u.at = t.at
  BY <1>1 DEF TaskStates, WellFormed
<1>2. ASSUME NEW p \in Polls
      PROVE  /\ Cancelled(ps)[p] \in TaskStates
             /\ WellFormed(Cancelled(ps)[p])
             /\ Cancelled(ps)[p].at = poll[p].at
  <2>1. poll[p] \in TaskStates /\ WellFormed(poll[p])
    BY DEF TypeOK
  <2>2. CASE p \in ps /\ poll[p].at \notin Done
    BY <1>1, <2>1, <2>2 DEF Cancelled
  <2>3. CASE ~(p \in ps /\ poll[p].at \notin Done)
    BY <2>1, <2>3 DEF Cancelled
  <2> QED
    BY <2>2, <2>3
<1> QED
  BY <1>2 DEF Cancelled

\* Nothing changes of the tasks, and no error is about to be sent.
LEMMA HandlerTypes ==
    ASSUME TypeOK, UNCHANGED <<poll, got, data>>, alive' \in BOOLEAN,
           handler' \in Serving \cup {"auth", "closing", "gone"},
           subs' \in [MessageIds -> Polls \cup {None}],
           handler' = "errsend" => handler = "errsend" \/ LockFree
    PROVE  TypeOK'
BY DEF TypeOK, LockFree

\* What a load returns to a task is a result.
LEMMA LoadedResult ==
    ASSUME TypeOK, NEW p \in Polls, poll[p].at = "load"
    PROVE  data[poll[p].query] \in Results /\ data[poll[p].query] # None
BY SubscriptionsAssumption DEF TypeOK, TaskStates, WellFormed, Done

\* Every action keeps the types, and at most one task at a send.
LEMMA TypeOKStep == TypeOK /\ [Next]_vars => TypeOK'
<1> USE SubscriptionsAssumption
<1> SUFFICES ASSUME TypeOK, [Next]_vars PROVE TypeOK'
  OBVIOUS
<1>1. ASSUME Authenticate PROVE TypeOK'
  BY <1>1, HandlerTypes DEF Authenticate, GoTo, TypeOK, Serving
<1>2. ASSUME RefuseClient PROVE TypeOK'
  BY <1>2, HandlerTypes DEF RefuseClient, GoTo, TypeOK, Serving
<1>3. ASSUME RefuseQuery PROVE TypeOK'
  BY <1>3, HandlerTypes DEF RefuseQuery, GoTo, TypeOK, Serving
<1>4. ASSUME HandlerLocks PROVE TypeOK'
  BY <1>4, HandlerTypes DEF HandlerLocks, GoTo, TypeOK, Serving
<1>5. ASSUME HandlerTells PROVE TypeOK'
  BY <1>5, HandlerTypes DEF HandlerTells, GoTo, TypeOK, Serving
<1>6. ASSUME Close PROVE TypeOK'
  BY <1>6, HandlerTypes DEF Close, GoTo, TypeOK, Serving
<1>7. ASSUME Disconnect PROVE TypeOK'
  BY <1>7, HandlerTypes DEF Disconnect, TypeOK, Serving
<1>8. ASSUME NEW m \in MessageIds, NEW q \in Queries, NEW p \in Polls,
             Subscribe(m, q, p)
      PROVE  TypeOK'
  <2>1. /\ poll' \in [Polls -> TaskStates]
        /\ \A u \in Polls : poll'[u] = IF u = p THEN NewPoll(m, q)
                                        ELSE Cancelled({subs[m]})[u]
    BY <1>8, CancelTypes, States DEF Subscribe
  <2>2. NewPoll(m, q).at = "load"
    BY DEF NewPoll, Free
  <2>3. subs' \in [MessageIds -> Polls \cup {None}]
    BY <1>8 DEF Subscribe, TypeOK
  <2>4. \A u \in Polls : /\ WellFormed(poll'[u])
                         /\ poll'[u].at \in Sending => poll'[u].at = poll[u].at
    BY <2>1, <2>2, CancelTypes, States DEF Sending
  <2> QED
    BY <1>8, <2>1, <2>3, <2>4 DEF Subscribe, TypeOK
<1>9. ASSUME NEW m \in MessageIds, Unsubscribe(m) PROVE TypeOK'
  <2>1. subs' \in [MessageIds -> Polls \cup {None}]
    BY <1>9 DEF Unsubscribe, TypeOK
  <2> QED
    BY <1>9, <2>1, CancelTypes DEF Unsubscribe, TypeOK
<1>10. ASSUME HandlerRaises \/ HandlerEnds PROVE TypeOK'
  BY <1>10, CancelTypes DEF HandlerRaises, HandlerEnds, Leave, TypeOK, Sending
<1>11. ASSUME NEW p \in Polls, Load(p) PROVE TypeOK'
  <2> DEFINE news == [poll[p] EXCEPT !.at = "lock",
                                     !.held = data[poll[p].query]]
             same == [poll[p] EXCEPT !.at = "sleep"]
  <2>1. poll[p] \in TaskStates /\ WellFormed(poll[p]) /\ poll[p].at = "load"
    BY <1>11 DEF Load, At, Become, TypeOK
  <2>2. PICK r \in Results : r = data[poll[p].query] /\ r # None
    BY <2>1, LoadedResult
  <2>3. LET t == [poll[p] EXCEPT !.at = "lock", !.held = r]
        IN  t \in TaskStates /\ WellFormed(t) /\ t.at \notin Sending
    BY <2>1, <2>2 DEF TaskStates, WellFormed, Done, Sending
  <2>4. news \in TaskStates /\ WellFormed(news) /\ news.at \notin Sending
    BY <2>2, <2>3
  <2>5. ASSUME data[poll[p].query] = poll[p].last
        PROVE  same \in TaskStates /\ WellFormed(same) /\ same.at \notin Sending
    BY <1>11, <2>5 DEF Load, At, Become, TypeOK, TaskStates, WellFormed,
                       Done, Sending
  <2>6. got' \in [MessageIds -> Results \cup {None}]
    BY <1>11 DEF Load, At, Become, TypeOK
  <2> QED
    BY <1>11, <2>4, <2>5, <2>6, UpdateTypes DEF Load, At, Become
<1>12. ASSUME NEW p \in Polls, LoadRefused(p) PROVE TypeOK'
  <2> DEFINE t == [poll[p] EXCEPT !.at = "errlock"]
  <2>1. t \in TaskStates /\ WellFormed(t) /\ t.at \notin Sending
    BY <1>12 DEF LoadRefused, At, Become, TypeOK, TaskStates, WellFormed,
                 Done, Sending
  <2>2. Update(p, t) /\ got' \in [MessageIds -> Results \cup {None}]
    BY <1>12 DEF LoadRefused, At, Become, TypeOK, TaskStates, WellFormed, Done
  <2> QED
    BY <1>12, <2>1, <2>2, UpdateTypes DEF LoadRefused, At, Become
<1>13. ASSUME NEW p \in Polls, LoadRaises(p) PROVE TypeOK'
  <2> DEFINE t == [Free EXCEPT !.at = "raised"]
  <2>1. t \in TaskStates /\ WellFormed(t) /\ t.at \notin Sending
    BY <1>13 DEF LoadRaises, At, Become, TypeOK, TaskStates, WellFormed,
                 Done, Sending, Free
  <2>2. Update(p, t) /\ got' \in [MessageIds -> Results \cup {None}]
    BY <1>13 DEF LoadRaises, At, Become, TypeOK, TaskStates, WellFormed,
                 Done, Free
  <2> QED
    BY <1>13, <2>1, <2>2, UpdateTypes DEF LoadRaises, At, Become
<1>14. ASSUME NEW p \in Polls, Lock(p) PROVE TypeOK'
  <2> DEFINE t(x) == [poll[p] EXCEPT !.at = x]
  <2>1. poll[p] \in TaskStates /\ WellFormed(poll[p]) /\ LockFree
    BY <1>14 DEF Lock, TypeOK
  <2>2. CASE At(p, "lock") /\ Become(p, t("send"))
    <3>1. t("send") \in TaskStates /\ WellFormed(t("send"))
      BY <2>1, <2>2 DEF At, TaskStates, WellFormed, Done, Sending
    <3> QED
      BY <2>1, <2>2, <3>1, UpdateTypes DEF Become, TypeOK
  <2>3. CASE At(p, "errlock") /\ Become(p, t("errsend"))
    <3>1. t("errsend") \in TaskStates /\ WellFormed(t("errsend"))
      BY <2>1, <2>3 DEF At, TaskStates, WellFormed, Done, Sending
    <3> QED
      BY <2>1, <2>3, <3>1, UpdateTypes DEF Become, TypeOK
  <2> QED
    BY <1>14, <2>2, <2>3 DEF Lock, Locked
<1>15. ASSUME NEW p \in Polls, Push(p) PROVE TypeOK'
  <2> DEFINE t == [poll[p] EXCEPT !.at = "sent"]
  <2>1. t \in TaskStates /\ WellFormed(t) /\ poll[p].at \in Sending
    BY <1>15 DEF Push, At, Become, TypeOK, TaskStates, WellFormed, Done,
                 Sending
  <2>2. Update(p, t) /\ got' \in [MessageIds -> Results \cup {None}]
    BY <1>15 DEF Push, At, Become, TypeOK, TaskStates, WellFormed, Done
  <2> QED
    BY <1>15, <2>1, <2>2, UpdateTypes DEF Push, At, Become
<1>16. ASSUME NEW p \in Polls, Pushed(p) PROVE TypeOK'
  <2> DEFINE t == [poll[p] EXCEPT !.at = "sleep", !.held = None,
                                 !.last = poll[p].held]
  <2>1. poll[p] \in TaskStates /\ WellFormed(poll[p]) /\ poll[p].at = "sent"
    BY <1>16 DEF Pushed, At, Become, TypeOK
  <2>2. poll[p].held \in Results /\ poll[p].held # None
    BY <2>1 DEF TaskStates, WellFormed
  <2>3. t \in TaskStates
    BY <2>1, <2>2 DEF TaskStates
  <2>4. WellFormed(t) /\ t.at \notin Sending
    BY <2>1, <2>2, <2>3 DEF TaskStates, WellFormed, Done, Sending
  <2>5. Update(p, t) /\ got' \in [MessageIds -> Results \cup {None}]
    BY <1>16 DEF Pushed, At, Become, TypeOK, TaskStates, WellFormed, Done
  <2> QED
    BY <1>16, <2>5, <2>3, <2>4, UpdateTypes DEF Pushed, At, Become
<1>17. ASSUME NEW p \in Polls, Tell(p) PROVE TypeOK'
  <2> DEFINE t == [Free EXCEPT !.at = "told"]
  <2>1. t \in TaskStates /\ WellFormed(t) /\ t.at \notin Sending
    BY <1>17 DEF Tell, At, Become, TypeOK, TaskStates, WellFormed, Done,
                 Sending, Free
  <2>2. Update(p, t) /\ got' \in [MessageIds -> Results \cup {None}]
    BY <1>17 DEF Tell, At, Become, TypeOK, TaskStates, WellFormed, Done, Free
  <2> QED
    BY <1>17, <2>1, <2>2, UpdateTypes DEF Tell, At, Become
<1>18. ASSUME NEW p \in Polls, SendRaises(p) PROVE TypeOK'
  <2> DEFINE t == [Free EXCEPT !.at = "raised"]
  <2>1. t \in TaskStates /\ WellFormed(t) /\ t.at \notin Sending
    BY <1>18 DEF SendRaises, At, Become, TypeOK, TaskStates, WellFormed,
                 Done, Sending, Free
  <2>2. Update(p, t) /\ got' \in [MessageIds -> Results \cup {None}]
    BY <1>18 DEF SendRaises, At, Become, TypeOK, TaskStates, WellFormed,
                 Done, Free
  <2> QED
    BY <1>18, <2>1, <2>2, UpdateTypes DEF SendRaises, At, Become
<1>19. ASSUME NEW p \in Polls, Wake(p) PROVE TypeOK'
  <2> DEFINE t == [poll[p] EXCEPT !.at = "load"]
  <2>1. t \in TaskStates /\ WellFormed(t) /\ t.at \notin Sending
    BY <1>19 DEF Wake, At, Become, TypeOK, TaskStates, WellFormed, Done,
                 Sending
  <2>2. Update(p, t) /\ got' \in [MessageIds -> Results \cup {None}]
    BY <1>19 DEF Wake, At, Become, TypeOK, TaskStates, WellFormed, Done
  <2> QED
    BY <1>19, <2>1, <2>2, UpdateTypes DEF Wake, At, Become
<1>20. ASSUME NEW p \in Polls, Unwind(p) PROVE TypeOK'
  <2> DEFINE t == Free
  <2>1. t \in TaskStates /\ WellFormed(t) /\ t.at \notin Sending
    BY DEF TaskStates, WellFormed, Done, Sending, Free
  <2>2. Update(p, t) /\ got' \in [MessageIds -> Results \cup {None}]
    BY <1>20 DEF Unwind, At, Become, TypeOK, TaskStates, WellFormed, Done,
                 Free
  <2> QED
    BY <1>20, <2>1, <2>2, UpdateTypes DEF Unwind, At, Become
<1>21. ASSUME NEW q \in Queries, ChangeData(q) PROVE TypeOK'
  BY <1>21 DEF ChangeData, TypeOK
<1>22. ASSUME UNCHANGED vars PROVE TypeOK'
  BY <1>22 DEF vars, TypeOK
<1> QED
  BY <1>1, <1>2, <1>3, <1>4, <1>5, <1>6, <1>7, <1>8, <1>9, <1>10, <1>11,
     <1>12, <1>13, <1>14, <1>15, <1>16, <1>17, <1>18, <1>19, <1>20, <1>21,
     <1>22
     DEF Next, PollStep

\* Whoever is replaced, unsubscribed or left is cancelled in the same step.
LEMMA OnlySubscribedPollStep ==
    TypeOK /\ OnlySubscribedPoll /\ [Next]_vars => OnlySubscribedPoll'
<1> USE SubscriptionsAssumption
<1> SUFFICES ASSUME TypeOK, OnlySubscribedPoll, [Next]_vars
             PROVE  OnlySubscribedPoll'
  OBVIOUS
<1> USE DEF TypeOK, TaskStates, WellFormed, OnlySubscribedPoll, Done, Serving
<1>1. ASSUME Authenticate
      PROVE  OnlySubscribedPoll'
  BY <1>1 DEF Authenticate, GoTo, Running
<1>2. ASSUME RefuseClient
      PROVE  OnlySubscribedPoll'
  BY <1>2 DEF RefuseClient, GoTo, Running
<1>3. ASSUME NEW m \in MessageIds, NEW q \in Queries, NEW p \in Polls,
             Subscribe(m, q, p)
      PROVE  OnlySubscribedPoll'
  BY <1>3 DEF Subscribe, Cancelled, Registered, NewPoll, Free, Running
<1>4. ASSUME NEW m \in MessageIds, Unsubscribe(m)
      PROVE  OnlySubscribedPoll'
  BY <1>4 DEF Unsubscribe, Cancelled, Free, Running
<1>5. ASSUME RefuseQuery
      PROVE  OnlySubscribedPoll'
  BY <1>5 DEF RefuseQuery, GoTo, Running
<1>6. ASSUME HandlerLocks
      PROVE  OnlySubscribedPoll'
  BY <1>6 DEF HandlerLocks, GoTo, LockFree, Running
<1>7. ASSUME HandlerTells
      PROVE  OnlySubscribedPoll'
  BY <1>7 DEF HandlerTells, GoTo, Running
<1>8. ASSUME HandlerRaises
      PROVE  OnlySubscribedPoll'
  BY <1>8 DEF HandlerRaises, Leave, Cancelled, Registered, Free, Running
<1>9. ASSUME HandlerEnds
      PROVE  OnlySubscribedPoll'
  BY <1>9 DEF HandlerEnds, Leave, Cancelled, Registered, Free, Running
<1>10. ASSUME Close
      PROVE  OnlySubscribedPoll'
  BY <1>10 DEF Close, GoTo, Running
<1>11. ASSUME NEW p \in Polls, Load(p)
      PROVE  OnlySubscribedPoll'
  <2>1. CASE data[poll[p].query] # poll[p].last
    <3>1. PICK r \in Results : r = data[poll[p].query]
      BY <1>11, LoadedResult DEF Load, At, Become
    <3>2. poll' = [poll EXCEPT ![p] = [poll[p] EXCEPT !.at = "lock",
                                                      !.held = r]]
      BY <1>11, <2>1, <3>1 DEF Load, At, Become, Update
    <3> QED
      BY <1>11, <3>2 DEF Load, At, Become, Update, Running
  <2>2. CASE data[poll[p].query] = poll[p].last
    BY <1>11, <2>2 DEF Load, At, Become, Update, Running
  <2> QED
    BY <2>1, <2>2
<1>12. ASSUME NEW p \in Polls, LoadRefused(p)
      PROVE  OnlySubscribedPoll'
  BY <1>12 DEF LoadRefused, At, Become, Update, Running, Free
<1>13. ASSUME NEW p \in Polls, LoadRaises(p)
      PROVE  OnlySubscribedPoll'
  BY <1>13 DEF LoadRaises, At, Become, Update, Running, Free
<1>14. ASSUME NEW p \in Polls, Lock(p)
      PROVE  OnlySubscribedPoll'
  BY <1>14 DEF Lock, At, Become, Locked, Update, Running, Free, LockFree
<1>15. ASSUME NEW p \in Polls, Push(p)
      PROVE  OnlySubscribedPoll'
  BY <1>15 DEF Push, At, Become, Update, Running, Free
<1>16. ASSUME NEW p \in Polls, Pushed(p)
      PROVE  OnlySubscribedPoll'
  BY <1>16 DEF Pushed, At, Become, Update, Running, Free
<1>17. ASSUME NEW p \in Polls, Tell(p)
      PROVE  OnlySubscribedPoll'
  BY <1>17 DEF Tell, At, Become, Update, Running, Free
<1>18. ASSUME NEW p \in Polls, SendRaises(p)
      PROVE  OnlySubscribedPoll'
  BY <1>18 DEF SendRaises, At, Become, Update, Running, Free
<1>19. ASSUME NEW p \in Polls, Wake(p)
      PROVE  OnlySubscribedPoll'
  BY <1>19 DEF Wake, At, Become, Update, Running, Free
<1>20. ASSUME NEW p \in Polls, Unwind(p)
      PROVE  OnlySubscribedPoll'
  BY <1>20 DEF Unwind, At, Become, Update, Running, Free
<1>21. ASSUME NEW q \in Queries, ChangeData(q)
      PROVE  OnlySubscribedPoll'
  BY <1>21 DEF ChangeData, Running
<1>22. ASSUME Disconnect
      PROVE  OnlySubscribedPoll'
  BY <1>22 DEF Disconnect, Running
<1>23. ASSUME UNCHANGED vars PROVE OnlySubscribedPoll'
  BY <1>23 DEF vars, Running
<1> QED
  BY <1>1, <1>2, <1>3, <1>4, <1>5, <1>6, <1>7, <1>8, <1>9, <1>10, <1>11,
     <1>12, <1>13, <1>14, <1>15, <1>16, <1>17, <1>18, <1>19, <1>20, <1>21,
     <1>22, <1>23
     DEF Next, PollStep

\* A frame disturbs no other poll, since no other one has its message id.
LEMMA PushesStep ==
    IInv /\ [Next]_vars => PushesAreRemembered'
<1> USE SubscriptionsAssumption
<1> SUFFICES ASSUME TypeOK, OnlySubscribedPoll, PushesAreRemembered,
                    [Next]_vars
             PROVE  PushesAreRemembered'
  BY DEF IInv
<1> USE DEF TypeOK, TaskStates, WellFormed, PushesAreRemembered, Done
<1>1. ASSUME Authenticate
      PROVE  PushesAreRemembered'
  BY <1>1 DEF Authenticate, GoTo, Running
<1>2. ASSUME RefuseClient
      PROVE  PushesAreRemembered'
  BY <1>2 DEF RefuseClient, GoTo, Running
<1>3. ASSUME NEW m \in MessageIds, NEW q \in Queries, NEW p \in Polls,
             Subscribe(m, q, p)
      PROVE  PushesAreRemembered'
  BY <1>3 DEF Subscribe, Cancelled, Registered, NewPoll, Free, Running
<1>4. ASSUME NEW m \in MessageIds, Unsubscribe(m)
      PROVE  PushesAreRemembered'
  BY <1>4 DEF Unsubscribe, Cancelled, Free, Running
<1>5. ASSUME RefuseQuery
      PROVE  PushesAreRemembered'
  BY <1>5 DEF RefuseQuery, GoTo, Running
<1>6. ASSUME HandlerLocks
      PROVE  PushesAreRemembered'
  BY <1>6 DEF HandlerLocks, GoTo, LockFree, Running
<1>7. ASSUME HandlerTells
      PROVE  PushesAreRemembered'
  BY <1>7 DEF HandlerTells, GoTo, Running
<1>8. ASSUME HandlerRaises
      PROVE  PushesAreRemembered'
  BY <1>8 DEF HandlerRaises, Leave, Cancelled, Registered, Free, Running
<1>9. ASSUME HandlerEnds
      PROVE  PushesAreRemembered'
  BY <1>9 DEF HandlerEnds, Leave, Cancelled, Registered, Free, Running
<1>10. ASSUME Close
      PROVE  PushesAreRemembered'
  BY <1>10 DEF Close, GoTo, Running
<1>11. ASSUME NEW p \in Polls, Load(p)
      PROVE  PushesAreRemembered'
  <2>1. CASE data[poll[p].query] # poll[p].last
    <3>1. PICK r \in Results : r = data[poll[p].query]
      BY <1>11, LoadedResult DEF Load, At, Become
    <3>2. poll' = [poll EXCEPT ![p] = [poll[p] EXCEPT !.at = "lock",
                                                      !.held = r]]
      BY <1>11, <2>1, <3>1 DEF Load, At, Become, Update
    <3> QED
      BY <1>11, <3>2 DEF Load, At, Become, Update, Running
  <2>2. CASE data[poll[p].query] = poll[p].last
    BY <1>11, <2>2 DEF Load, At, Become, Update, Running
  <2> QED
    BY <2>1, <2>2
<1>12. ASSUME NEW p \in Polls, LoadRefused(p)
      PROVE  PushesAreRemembered'
  BY <1>12 DEF LoadRefused, At, Become, Update, Running, Free
<1>13. ASSUME NEW p \in Polls, LoadRaises(p)
      PROVE  PushesAreRemembered'
  BY <1>13 DEF LoadRaises, At, Become, Update, Running, Free
<1>14. ASSUME NEW p \in Polls, Lock(p)
      PROVE  PushesAreRemembered'
  BY <1>14 DEF Lock, At, Become, Locked, Update, Running, Free, LockFree
<1>15. ASSUME NEW p \in Polls, Push(p)
      PROVE  PushesAreRemembered'
  BY <1>15 DEF Push, At, Become, OnlySubscribedPoll, Update, Running, Free
<1>16. ASSUME NEW p \in Polls, Pushed(p)
      PROVE  PushesAreRemembered'
  BY <1>16 DEF Pushed, At, Become, Update, Running, Free
<1>17. ASSUME NEW p \in Polls, Tell(p)
      PROVE  PushesAreRemembered'
  BY <1>17 DEF Tell, At, Become, Update, Running, Free
<1>18. ASSUME NEW p \in Polls, SendRaises(p)
      PROVE  PushesAreRemembered'
  BY <1>18 DEF SendRaises, At, Become, Update, Running, Free
<1>19. ASSUME NEW p \in Polls, Wake(p)
      PROVE  PushesAreRemembered'
  BY <1>19 DEF Wake, At, Become, Update, Running, Free
<1>20. ASSUME NEW p \in Polls, Unwind(p)
      PROVE  PushesAreRemembered'
  BY <1>20 DEF Unwind, At, Become, Update, Running, Free
<1>21. ASSUME NEW q \in Queries, ChangeData(q)
      PROVE  PushesAreRemembered'
  BY <1>21 DEF ChangeData, Running
<1>22. ASSUME Disconnect
      PROVE  PushesAreRemembered'
  BY <1>22 DEF Disconnect, Running
<1>23. ASSUME UNCHANGED vars PROVE PushesAreRemembered'
  BY <1>23 DEF vars, Running
<1> QED
  BY <1>1, <1>2, <1>3, <1>4, <1>5, <1>6, <1>7, <1>8, <1>9, <1>10, <1>11,
     <1>12, <1>13, <1>14, <1>15, <1>16, <1>17, <1>18, <1>19, <1>20, <1>21,
     <1>22, <1>23
     DEF Next, PollStep

\* The invariant holds in every behaviour.
LEMMA Invariance == Spec => []IInv
<1>1. IInv /\ [Next]_vars => IInv'
  BY TypeOKStep, OnlySubscribedPollStep, PushesStep DEF IInv
<1> QED
  BY InitIInv, <1>1, PTL DEF Spec

\* What each poll has in hand at each await, and one sender at a time.
THEOREM TypeCorrect == Spec => []TypeOK
<1>1. IInv => TypeOK
  BY DEF IInv
<1> QED
  BY Invariance, <1>1, PTL

\* At most one task answers under a message id, and none runs on when the
\* handler is leaving, whatever the client subscribes again or unsubscribes.
THEOREM OnlySubscribed == Spec => []OnlySubscribedPoll
<1>1. IInv => OnlySubscribedPoll
  BY DEF IInv
<1> QED
  BY Invariance, <1>1, PTL

\* What a sleeping poll compares the next result with is what the client has.
THEOREM HashIsSound == Spec => []HashIsWhatClientHas
<1>1. IInv => HashIsWhatClientHas
  BY DEF IInv, TypeOK, WellFormed, PushesAreRemembered, HashIsWhatClientHas,
         Running, Done
<1> QED
  BY Invariance, <1>1, PTL

=============================================================================
