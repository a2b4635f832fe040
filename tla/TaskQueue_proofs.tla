-------------------------- MODULE TaskQueue_proofs --------------------------
(***************************************************************************)
(* RunsOnce, VerdictStands and StopFinishes for any number of tasks,       *)
(* failed exchanges, crashes and signals, as long as the view of the queue *)
(* reaches every update and every result there is (Seen).                  *)
(***************************************************************************)
EXTENDS TaskQueue, TLAPS

\* GET /admin/task-queue reads the newest rows; none is older than those yet.
Seen == Len(updates) <= UpdateWindow /\ Len(results) <= ResultWindow

Known(t) == \E i \in DOMAIN updates : updates[i] = t
Young(t) == \E i \in DOMAIN updates : updates[i] = t /\ i > aged

\* The verdicts that are stored or may still be.
Stored(r) == \E i \in DOMAIN results : results[i] = r
Said == {r \in Results : Stored(r) \/ ResultOf(r.task, r.status) \in late}
Silent(t) == \A r \in Said : r.task # t

\* What holds of the runner whatever the view shows.
Runner ==
  /\ pc = "picked" => picked \in Tasks
  /\ orphans # {} => pc = "recover"

\* A claim is in the store before the work starts, and the runner works on
\* nothing that was claimed, or has a verdict, already.
ClaimedFirst ==
  /\ \A t \in Tasks : runs[t] <= 1 /\ (runs[t] = 1 => Known(t))
  /\ pc = "picked" => runs[picked] = 0 /\ Silent(picked)
  /\ pc = "claim" => runs[current] = 0 /\ Silent(current)
  /\ pc \in {"run", "report"} => Young(current) /\ Silent(current)

\* The verdicts on a task agree, on the wire or stored; one on the wire that
\* says completed is of a claim of the last half hour, so that its task is no
\* orphan; and nothing but "failed" was said of an orphan.
OneVerdict ==
  /\ \A r, q \in Said : r.task = q.task => r = q
  /\ \A r \in Said : Known(r.task)
  /\ \A r \in Said : r.status = "completed" => Stored(r) \/ Young(r.task)
  /\ \A t \in orphans : Known(t) /\ \A r \in Said : r.task = t => r.status = "failed"

IInv == TypeOK /\ Runner /\ (Seen => ClaimedFirst /\ OneVerdict)

-----------------------------------------------------------------------------
(* What a POST does to the store.                                          *)

LEMMA Append1 ==
  ASSUME NEW S, NEW s \in Seq(S), NEW x \in S
  PROVE  /\ Append(s, x) \in Seq(S) /\ Len(s) \in Nat /\ Len(Append(s, x)) = Len(s) + 1
         /\ DOMAIN s = 1..Len(s) /\ DOMAIN Append(s, x) = 1..(Len(s) + 1)
         /\ \A i \in DOMAIN s : Append(s, x)[i] = s[i]
         /\ Append(s, x)[Len(s) + 1] = x
OBVIOUS

LEMMA HandleUpdate ==
  ASSUME TypeOK, NEW t \in Tasks, updates' = Append(updates, t), aged' = aged
  PROVE  /\ updates' \in Seq(Tasks) /\ Len(updates') = Len(updates) + 1 /\ aged' \in 0..Len(updates')
         /\ \A u : Known(u) => Known(u)'
         /\ \A u : Young(u) => Young(u)'
         /\ Known(t)' /\ Young(t)'
<1>1. /\ updates' \in Seq(Tasks) /\ Len(updates) \in Nat /\ Len(updates') = Len(updates) + 1
      /\ DOMAIN updates = 1..Len(updates) /\ DOMAIN updates' = 1..(Len(updates) + 1)
      /\ \A i \in DOMAIN updates : updates'[i] = updates[i]
      /\ updates'[Len(updates) + 1] = t
  BY Append1 DEF TypeOK
<1>2. aged \in 0..Len(updates)
  BY DEF TypeOK
<1>3. aged' \in 0..Len(updates') /\ Len(updates) + 1 \in DOMAIN updates' /\ Len(updates) + 1 > aged'
  BY <1>1, <1>2
<1>4. \A i \in DOMAIN updates : i \in DOMAIN updates'
  BY <1>1
<1>5. \A u : Known(u) => Known(u)'
  BY <1>1, <1>4 DEF Known
<1>6. \A u : Young(u) => Young(u)'
  BY <1>1, <1>4 DEF Young
<1>7. Known(t)' /\ Young(t)'
  BY <1>1, <1>3 DEF Known, Young
<1> QED BY <1>1, <1>3, <1>5, <1>6, <1>7

LEMMA HandleResult ==
  ASSUME TypeOK, NEW r \in Results, results' = Append(results, r)
  PROVE  /\ results' \in Seq(Results) /\ Len(results') = Len(results) + 1
         /\ \A q : Stored(q)' <=> Stored(q) \/ q = r
<1>1. /\ results' \in Seq(Results) /\ Len(results) \in Nat /\ Len(results') = Len(results) + 1
      /\ DOMAIN results = 1..Len(results) /\ DOMAIN results' = 1..(Len(results) + 1)
      /\ \A i \in DOMAIN results : results'[i] = results[i]
      /\ results'[Len(results) + 1] = r
  BY Append1 DEF TypeOK
<1>2. DOMAIN results' = DOMAIN results \cup {Len(results) + 1}
  BY <1>1
<1>3. \A q : Stored(q)' <=> Stored(q) \/ q = r
  BY <1>1, <1>2 DEF Stored
<1> QED BY <1>1, <1>3

\* A message is an update or a result.
LEMMA MessageIs ==
  ASSUME NEW m \in Messages
  PROVE  \/ m.kind = "update" /\ m.task \in Tasks /\ m = UpdateOf(m.task)
         \/ /\ m.kind = "result" /\ m.task \in Tasks /\ m.status \in Statuses
            /\ m = ResultOf(m.task, m.status)
BY DEF Messages, Updates, UpdateOf, ResultOf

LEMMA MessageOf ==
  ASSUME NEW t \in Tasks, NEW status \in Statuses
  PROVE  /\ UpdateOf(t) \in Messages /\ UpdateOf(t).kind = "update" /\ UpdateOf(t).task = t
         /\ ResultOf(t, status) \in Messages /\ ResultOf(t, status).kind = "result"
         /\ \A u \in Tasks, s \in Statuses :
               /\ ResultOf(u, s) # UpdateOf(t)
               /\ ResultOf(u, s) = ResultOf(t, status) => u = t /\ s = status
BY DEF Messages, Updates, UpdateOf, ResultOf

\* However the server comes to handle a message: nothing known is forgotten, an
\* update makes its task known, a result is stored.
LEMMA HandleEffect ==
  ASSUME TypeOK, NEW m \in Messages, Handle(m), aged' = aged
  PROVE  /\ updates' \in Seq(Tasks) /\ results' \in Seq(Results) /\ aged' \in 0..Len(updates')
         /\ Seen' => Seen
         /\ \A u : Known(u) => Known(u)'
         /\ \A u : Young(u) => Young(u)'
         /\ \A r \in Results : Stored(r)' <=> Stored(r) \/ m = ResultOf(r.task, r.status)
         /\ m.kind = "update" => Known(m.task)' /\ Young(m.task)'
<1>0. /\ Len(updates) \in Nat /\ Len(results) \in Nat
      /\ UpdateWindow \in Nat /\ ResultWindow \in Nat
  BY ConstantsAssumption DEF TypeOK
<1>1. CASE m.kind = "update" /\ m.task \in Tasks /\ m = UpdateOf(m.task)
  <2>1. updates' = Append(updates, m.task) /\ results' = results
    BY <1>1 DEF Handle
  <2>2. \A r \in Results : m # ResultOf(r.task, r.status)
    BY <1>1 DEF UpdateOf, ResultOf
  <2>3. \A r : Stored(r)' <=> Stored(r)
    BY <2>1 DEF Stored
  <2>4. /\ updates' \in Seq(Tasks) /\ Len(updates') = Len(updates) + 1 /\ aged' \in 0..Len(updates')
        /\ \A u : Known(u) => Known(u)'
        /\ \A u : Young(u) => Young(u)'
        /\ Known(m.task)' /\ Young(m.task)'
    BY <1>1, <2>1, HandleUpdate
  <2>5. results' \in Seq(Results)
    BY <2>1 DEF TypeOK
  <2>6. Seen' => Seen
    BY <1>0, <2>1, <2>4 DEF Seen
  <2> QED BY <2>2, <2>3, <2>4, <2>5, <2>6
<1>2. CASE /\ m.kind = "result" /\ m.task \in Tasks /\ m.status \in Statuses
           /\ m = ResultOf(m.task, m.status)
  <2> DEFINE q == [task |-> m.task, status |-> m.status]
  <2>1. results' = Append(results, q) /\ updates' = updates /\ q \in Results
    BY <1>2 DEF Handle, Results
  <2>2. \A r \in Results : m = ResultOf(r.task, r.status) <=> r = q
    BY <1>2 DEF ResultOf, Results
  <2> HIDE DEF q
  <2>3. /\ results' \in Seq(Results) /\ Len(results') = Len(results) + 1
        /\ \A r : Stored(r)' <=> Stored(r) \/ r = q
    BY <2>1, HandleResult
  <2>4. /\ updates' \in Seq(Tasks) /\ aged' \in 0..Len(updates')
        /\ \A u : Known(u) => Known(u)'
        /\ \A u : Young(u) => Young(u)'
    BY <2>1 DEF TypeOK, Known, Young
  <2>5. Seen' => Seen
    BY <1>0, <2>1, <2>3 DEF Seen
  <2> QED BY <1>2, <2>2, <2>3, <2>4, <2>5
<1> QED BY <1>1, <1>2, MessageIs

\* The runner's POST, whatever comes of it.
LEMMA PostEffect ==
  ASSUME TypeOK, NEW m \in Messages, Answered(m) \/ Unanswered(m)
  PROVE  /\ requests' = requests /\ aged' \in 0..Len(updates') /\ failures' \in 0..MaxFailures
         /\ updates' \in Seq(Tasks) /\ results' \in Seq(Results) /\ late' \subseteq Messages
         /\ Seen' => Seen
         /\ \A u : Known(u) => Known(u)'
         /\ \A u : Young(u) => Young(u)'
         /\ \A r \in Results : Stored(r) => Stored(r)'
         /\ \A r \in Said' : r \in Said \/ m = ResultOf(r.task, r.status)
         /\ Answered(m) /\ m.kind = "update" => Known(m.task)' /\ Young(m.task)'
<1>1. CASE Answered(m)
  <2>1. Handle(m) /\ UNCHANGED <<requests, aged, late, failures>>
    BY <1>1 DEF Answered
  <2>2. /\ updates' \in Seq(Tasks) /\ results' \in Seq(Results) /\ aged' \in 0..Len(updates')
        /\ Seen' => Seen
        /\ \A u : Known(u) => Known(u)'
        /\ \A u : Young(u) => Young(u)'
        /\ \A r \in Results : Stored(r)' <=> Stored(r) \/ m = ResultOf(r.task, r.status)
        /\ m.kind = "update" => Known(m.task)' /\ Young(m.task)'
    BY <2>1, HandleEffect
  <2>3. \A r \in Said' : r \in Said \/ m = ResultOf(r.task, r.status)
    BY <2>1, <2>2 DEF Said
  <2> QED BY <2>1, <2>2, <2>3 DEF TypeOK
<1>2. CASE Unanswered(m) /\ ~Answered(m)
  <2>1. /\ failures' = failures + 1 /\ failures < MaxFailures /\ late' \in {late, late \cup {m}}
        /\ UNCHANGED <<requests, updates, aged, results>>
    BY <1>2 DEF Unanswered
  <2>2. failures' \in 0..MaxFailures
    BY <2>1, ConstantsAssumption DEF TypeOK
  <2>3. /\ \A u : Known(u) => Known(u)'
        /\ \A u : Young(u) => Young(u)'
        /\ \A r : Stored(r)' <=> Stored(r)
        /\ Seen' => Seen
    BY <2>1 DEF Known, Young, Stored, Seen
  <2>4. \A r \in Said' : r \in Said \/ m = ResultOf(r.task, r.status)
    BY <2>1, <2>3 DEF Said
  <2> QED BY <1>2, <2>1, <2>2, <2>3, <2>4 DEF TypeOK
<1> QED BY <1>1, <1>2

-----------------------------------------------------------------------------
(* Types, and what the runner holds.                                       *)

Typed == TypeOK /\ Runner

LEMMA TaskNotNone == None \notin Tasks
BY DEF None, Tasks

LEMMA InitTyped == Init => Typed
<1> SUFFICES ASSUME Init PROVE Typed
  OBVIOUS
<1>1. runs \in [Tasks -> Nat] /\ updates \in Seq(Tasks) /\ aged \in 0..Len(updates)
  BY DEF Init
<1>2. /\ requests \in Seq(Requests) /\ Len(requests) <= MaxTasks /\ results \in Seq(Results)
      /\ failures \in 0..MaxFailures /\ crashes \in 0..MaxCrashes /\ stops \in 0..MaxStops
  BY ConstantsAssumption DEF Init
<1>3. /\ late \subseteq Messages /\ pc = "boot" /\ picked = None /\ current = None
      /\ outcome \in Statuses /\ orphans = {} /\ stopping \in BOOLEAN
  BY DEF Init, Statuses
<1>4. TypeOK
  BY <1>1, <1>2, <1>3, Zenon DEF TypeOK
<1> QED BY <1>3, <1>4 DEF Typed, Runner

LEMMA SubmitTyped ==
  ASSUME Typed, NEW priority \in Priorities, NEW heavy \in BOOLEAN, NEW tick \in BOOLEAN,
         Submit(priority, heavy, tick)
  PROVE  Typed'
<1> DEFINE last == IF Len(requests) = 0 THEN 0 ELSE requests[Len(requests)].at
           q == [priority |-> priority, heavy |-> heavy, at |-> IF tick THEN last + 1 ELSE last]
<1>1. /\ requests' = Append(requests, q) /\ Len(requests) < MaxTasks
      /\ UNCHANGED <<updates, aged, results, late, runner, hist>>
  BY DEF Submit
<1>2. last \in Nat
  <2>1. requests \in Seq(Requests)
    BY DEF Typed, TypeOK
  <2>2. CASE Len(requests) # 0
    <3>1. requests[Len(requests)] \in Requests
      BY <2>1, <2>2
    <3> QED BY <2>2, <3>1 DEF Requests
  <2> QED BY <2>2
<1> HIDE DEF last
<1>3. q \in Requests
  BY <1>2 DEF Requests
<1> HIDE DEF q
<1>4. requests' \in Seq(Requests) /\ Len(requests') <= MaxTasks
  BY <1>1, <1>3, ConstantsAssumption DEF Typed, TypeOK
<1> QED BY <1>1, <1>4 DEF Typed, TypeOK, Runner, runner, hist

LEMMA PostTyped ==
  ASSUME Typed, NEW m \in Messages, Answered(m) \/ Unanswered(m)
  PROVE  /\ requests' \in Seq(Requests) /\ Len(requests') <= MaxTasks
         /\ updates' \in Seq(Tasks) /\ aged' \in 0..Len(updates')
         /\ results' \in Seq(Results) /\ late' \subseteq Messages /\ failures' \in 0..MaxFailures
BY PostEffect DEF Typed, TypeOK

LEMMA ForgottenTyped ==
  ASSUME Typed, Forgotten, late' \subseteq Messages, UNCHANGED failures,
         crashes' \in 0..MaxCrashes, UNCHANGED stops
  PROVE  Typed'
BY DEF Typed, TypeOK, Runner, Forgotten, Statuses, None

LEMMA OnTheWireTyped ==
  ASSUME Typed
  PROVE  OnTheWire \subseteq Messages
<1>1. CASE pc = "claim"
  <2>1. current \in Tasks /\ OnTheWire = {UpdateOf(current)}
    BY <1>1 DEF OnTheWire, Typed, TypeOK
  <2> QED BY <2>1 DEF UpdateOf, Messages, Updates
<1>2. CASE pc = "report"
  <2>1. current \in Tasks /\ outcome \in Statuses /\ OnTheWire = {ResultOf(current, outcome)}
    BY <1>2 DEF OnTheWire, Typed, TypeOK
  <2> QED BY <2>1 DEF ResultOf, Messages
<1>3. CASE pc = "recover"
  <2>1. orphans \subseteq Tasks /\ "failed" \in Statuses
    BY DEF Typed, TypeOK, Statuses
  <2>2. OnTheWire \subseteq {ResultOf(t, "failed") : t \in orphans}
    BY <1>3 DEF OnTheWire
  <2> QED BY <2>1, <2>2 DEF ResultOf, Messages
<1>4. CASE pc \notin {"claim", "report", "recover"}
  BY <1>4 DEF OnTheWire
<1> QED BY <1>1, <1>2, <1>3, <1>4

LEMMA TypedStep == Typed /\ [Next]_vars => Typed'
<1> SUFFICES ASSUME Typed, [Next]_vars PROVE Typed'
  OBVIOUS
<1> USE TaskNotNone
<1>1. ASSUME NEW priority \in Priorities, NEW heavy \in BOOLEAN, NEW tick \in BOOLEAN,
             Submit(priority, heavy, tick)
      PROVE  Typed'
  BY <1>1, SubmitTyped
<1>2. CASE HalfHour
  BY <1>2 DEF HalfHour, Typed, TypeOK, Runner, runner, hist
<1>3. ASSUME NEW m \in late, LateArrives(m) PROVE Typed'
  <2>1. m \in Messages /\ Handle(m) /\ aged' = aged
    BY <1>3 DEF LateArrives, Typed, TypeOK
  <2>2. updates' \in Seq(Tasks) /\ results' \in Seq(Results) /\ aged' \in 0..Len(updates')
    BY <2>1, HandleEffect DEF Typed
  <2> QED BY <1>3, <2>2 DEF LateArrives, Typed, TypeOK, Runner, runner, hist
<1>4. ASSUME NEW read \in BOOLEAN, Boot(read) PROVE Typed'
  <2>1. orphans' \subseteq Tasks
    <3>1. Len(requests) <= MaxTasks /\ DOMAIN requests = 1..Len(requests) /\ Len(requests) \in Nat
      BY DEF Typed, TypeOK
    <3>2. DOMAIN requests \subseteq Tasks
      BY <3>1, ConstantsAssumption DEF Tasks
    <3> QED BY <1>4, <3>2 DEF Boot, Orphans, Running, Bounded, Newest
  <2>2. failures' \in 0..MaxFailures
    BY <1>4, ConstantsAssumption DEF Boot, Typed, TypeOK
  <2> QED BY <1>4, <2>1, <2>2 DEF Boot, Typed, TypeOK, Runner, table
<1>5. ASSUME NEW t \in Tasks, RecoverOne(t) PROVE Typed'
  <2>1. ResultOf(t, "failed") \in Messages
    BY MessageOf DEF Statuses
  <2>2. /\ requests' \in Seq(Requests) /\ Len(requests') <= MaxTasks
        /\ updates' \in Seq(Tasks) /\ aged' \in 0..Len(updates')
        /\ results' \in Seq(Results) /\ late' \subseteq Messages /\ failures' \in 0..MaxFailures
    BY <1>5, <2>1, PostTyped DEF RecoverOne
  <2> QED BY <1>5, <2>2 DEF RecoverOne, Typed, TypeOK, Runner
<1>6. ASSUME NEW t \in Tasks, QueueRead(t) PROVE Typed'
  BY <1>6 DEF QueueRead, Typed, TypeOK, Runner, table, hist
<1>7. CASE Recovered \/ Poll \/ NothingPending \/ Launch
  BY <1>7 DEF Recovered, Poll, NothingPending, Launch, Typed, TypeOK, Runner, table, hist
<1>8. CASE PollFails
  <2>1. failures' \in 0..MaxFailures
    BY <1>8, ConstantsAssumption DEF PollFails, Typed, TypeOK
  <2> QED BY <1>8, <2>1 DEF PollFails, Typed, TypeOK, Runner, table
<1>9. CASE Dispatch \/ LockBusy
  BY <1>9 DEF Dispatch, LockBusy, Typed, TypeOK, Runner, table, hist
<1>10. CASE Claimed
  <2>1. current \in Tasks /\ UpdateOf(current) \in Messages
    BY <1>10, MessageOf DEF Claimed, Typed, TypeOK, Statuses
  <2>2. /\ requests' \in Seq(Requests) /\ Len(requests') <= MaxTasks
        /\ updates' \in Seq(Tasks) /\ aged' \in 0..Len(updates')
        /\ results' \in Seq(Results) /\ late' \subseteq Messages /\ failures' \in 0..MaxFailures
    BY <1>10, <2>1, PostTyped DEF Claimed
  <2>3. runs' \in [Tasks -> Nat]
    BY <1>10, <2>1 DEF Claimed, Typed, TypeOK
  <2> QED BY <1>10, <2>2, <2>3 DEF Claimed, Typed, TypeOK, Runner
<1>11. CASE ClaimFails
  <2>1. current \in Tasks /\ UpdateOf(current) \in Messages
    BY <1>11, MessageOf DEF ClaimFails, Typed, TypeOK, Statuses
  <2>2. /\ requests' \in Seq(Requests) /\ Len(requests') <= MaxTasks
        /\ updates' \in Seq(Tasks) /\ aged' \in 0..Len(updates')
        /\ results' \in Seq(Results) /\ late' \subseteq Messages /\ failures' \in 0..MaxFailures
    BY <1>11, <2>1, PostTyped DEF ClaimFails
  <2> QED BY <1>11, <2>2 DEF ClaimFails, Typed, TypeOK, Runner
<1>12. ASSUME NEW status \in Statuses, Ran(status) PROVE Typed'
  BY <1>12 DEF Ran, Typed, TypeOK, Runner, table, hist
<1>13. CASE Reported
  <2>1. current \in Tasks /\ ResultOf(current, outcome) \in Messages
    BY <1>13, MessageOf DEF Reported, Typed, TypeOK
  <2>2. /\ requests' \in Seq(Requests) /\ Len(requests') <= MaxTasks
        /\ updates' \in Seq(Tasks) /\ aged' \in 0..Len(updates')
        /\ results' \in Seq(Results) /\ late' \subseteq Messages /\ failures' \in 0..MaxFailures
    BY <1>13, <2>1, PostTyped DEF Reported
  <2> QED BY <1>13, <2>2 DEF Reported, Typed, TypeOK, Runner, Statuses
<1>14. CASE Sigterm
  <2>1. stops' \in 0..MaxStops
    BY <1>14, ConstantsAssumption DEF Sigterm, Typed, TypeOK
  <2> QED BY <1>14, <2>1 DEF Sigterm, Typed, TypeOK, Runner, table
<1>15. CASE Exit
  BY <1>15, ForgottenTyped DEF Exit, Typed, TypeOK
<1>16. CASE Crash
  <2>1. crashes' \in 0..MaxCrashes
    BY <1>16, ConstantsAssumption DEF Crash, Typed, TypeOK
  <2>2. late' \subseteq Messages
    BY <1>16, OnTheWireTyped DEF Crash, Typed, TypeOK
  <2> QED BY <1>16, <2>1, <2>2, ForgottenTyped DEF Crash
<1>17. CASE UNCHANGED vars
  BY <1>17 DEF vars, table, runner, hist, Typed, TypeOK, Runner
<1> QED
  BY <1>1, <1>2, <1>3, <1>4, <1>5, <1>6, <1>7, <1>8, <1>9, <1>10, <1>11, <1>12, <1>13, <1>14,
     <1>15, <1>16, <1>17, Zenon DEF Next, RunnerStep

-----------------------------------------------------------------------------
(* ClaimedFirst and OneVerdict, step by step.                              *)

\* Nothing known is forgotten and nothing new is said.
More == /\ \A u : Known(u) => Known(u)'
        /\ \A u : Young(u) => Young(u)'
        /\ \A r \in Results : Stored(r) => Stored(r)'
        /\ Said' \subseteq Said

Safe == ClaimedFirst /\ OneVerdict

LEMMA SaidResults == Said \subseteq Results
BY DEF Said

\* The store learns more; what the runner does next it has already begun.
LEMMA RestKeeps ==
  ASSUME Safe, More, UNCHANGED <<pc, picked, current, orphans, runs>>
  PROVE  Safe'
<1>1. \A t : Silent(t) => Silent(t)'
  BY DEF More, Silent
<1>2. ClaimedFirst'
  BY <1>1 DEF Safe, ClaimedFirst, More
<1>3. OneVerdict'
  BY SaidResults DEF Safe, OneVerdict, More
<1> QED BY <1>2, <1>3 DEF Safe

\* The runner lets go: it is between two tasks, or dead.
LEMMA RunnerFree ==
  ASSUME Safe, More, pc' \notin {"picked", "claim", "run", "report"}, orphans' = {},
         UNCHANGED runs
  PROVE  Safe'
<1>1. ClaimedFirst'
  BY DEF Safe, ClaimedFirst, More
<1>2. OneVerdict'
  BY SaidResults DEF Safe, OneVerdict, More
<1> QED BY <1>1, <1>2 DEF Safe

LEMMA SameTable == ASSUME UNCHANGED <<updates, aged, results, late>> PROVE More
BY DEF More, Known, Young, Stored, Said

\* Half an hour passes: nothing is on the wire, and no task is worked on.
LEMMA HalfHourSafe == ASSUME Typed, Safe, HalfHour PROVE Safe'
<1>1. /\ current = None /\ late = {} /\ UNCHANGED <<updates, results, late>>
      /\ UNCHANGED <<pc, picked, current, orphans, runs>>
  BY DEF HalfHour, runner, hist
<1>2. pc \notin {"claim", "run", "report"}
  BY <1>1 DEF Typed, TypeOK
<1>3. /\ \A u : Known(u)' <=> Known(u)
      /\ \A r : Stored(r)' <=> Stored(r)
      /\ Said' = Said /\ \A r \in Said : Stored(r)
  BY <1>1 DEF Known, Stored, Said
<1>4. \A t : Silent(t)' <=> Silent(t)
  BY <1>3 DEF Silent
<1>5. ClaimedFirst'
  BY <1>1, <1>2, <1>3, <1>4 DEF Safe, ClaimedFirst
<1>6. OneVerdict'
  BY <1>1, <1>3 DEF Safe, OneVerdict
<1> QED BY <1>5, <1>6 DEF Safe

\* A message given up on arrives: an update makes its task known, a verdict on
\* the wire becomes a stored one.
LEMMA LateSafe == ASSUME Typed, Safe, NEW m \in late, LateArrives(m) PROVE Safe'
<1>1. /\ m \in Messages /\ Handle(m) /\ aged' = aged /\ late' = late \ {m}
      /\ UNCHANGED <<pc, picked, current, orphans, runs>>
  BY DEF LateArrives, Typed, TypeOK, runner, hist
<1>2. /\ \A u : Known(u) => Known(u)'
      /\ \A u : Young(u) => Young(u)'
      /\ \A r \in Results : Stored(r)' <=> Stored(r) \/ m = ResultOf(r.task, r.status)
  BY <1>1, HandleEffect DEF Typed
<1>3. Said' \subseteq Said
  BY <1>1, <1>2 DEF Said
<1>4. More
  BY <1>2, <1>3 DEF More
<1> QED BY <1>1, <1>4, RestKeeps

LEMMA SeenUpdates == ASSUME Typed, Seen PROVE Newest(UpdateWindow, updates) = DOMAIN updates
<1>1. /\ Len(updates) \in Nat /\ DOMAIN updates = 1..Len(updates) /\ UpdateWindow \in Nat
      /\ Len(updates) <= UpdateWindow
  BY ConstantsAssumption DEF Typed, TypeOK, Seen
<1>2. \A i \in 1..Len(updates) : i + UpdateWindow > Len(updates)
  BY <1>1
<1> QED BY <1>1, <1>2 DEF Newest

LEMMA SeenResults == ASSUME Typed, Seen PROVE Newest(ResultWindow, results) = DOMAIN results
<1>1. /\ Len(results) \in Nat /\ DOMAIN results = 1..Len(results) /\ ResultWindow \in Nat
      /\ Len(results) <= ResultWindow
  BY ConstantsAssumption DEF Typed, TypeOK, Seen
<1>2. \A i \in 1..Len(results) : i + ResultWindow > Len(results)
  BY <1>1
<1> QED BY <1>1, <1>2 DEF Newest

\* The queue shows every update: what it shows as pending was never claimed, so
\* it has not run and nothing was said of it.
LEMMA ReadSafe == ASSUME Typed, Seen, Safe, NEW t \in Tasks, QueueRead(t) PROVE Safe'
<1>1. /\ UNCHANGED <<updates, aged, results, late, runs, orphans, current>>
      /\ pc' = "picked" /\ picked' = t /\ t \in Pending
  BY DEF QueueRead, table, hist, IsFirst
<1>2. Newest(UpdateWindow, updates) = DOMAIN updates
  BY SeenUpdates
<1>3. ~Known(t)
  BY <1>1, <1>2 DEF Pending, Bounded, HasUpdate, Known
<1>4. runs[t] = 0
  BY <1>3 DEF Safe, ClaimedFirst, Typed, TypeOK
<1>5. Silent(t)
  BY <1>3 DEF Safe, OneVerdict, Silent
<1>6. More /\ Said' = Said
  BY <1>1, SameTable DEF Said, Stored
<1>7. Silent(t)'
  BY <1>5, <1>6 DEF Silent
<1>8. ClaimedFirst'
  BY <1>1, <1>4, <1>6, <1>7 DEF Safe, ClaimedFirst, More
<1>9. OneVerdict'
  BY <1>1, <1>6, SaidResults DEF Safe, OneVerdict, More
<1> QED BY <1>8, <1>9 DEF Safe

LEMMA DispatchSafe == ASSUME Typed, Safe, Dispatch PROVE Safe'
<1>1. /\ UNCHANGED <<updates, aged, results, late, runs, orphans>>
      /\ pc = "picked" /\ pc' = "claim" /\ current' = picked
  BY DEF Dispatch, table, hist
<1>2. More /\ Said' = Said
  BY <1>1, SameTable DEF Said, Stored
<1>3. Silent(current)'
  BY <1>1, <1>2 DEF Safe, ClaimedFirst, Silent
<1>4. ClaimedFirst'
  BY <1>1, <1>2, <1>3 DEF Safe, ClaimedFirst, More
<1>5. OneVerdict'
  BY <1>1, <1>2, SaidResults DEF Safe, OneVerdict, More
<1> QED BY <1>4, <1>5 DEF Safe

\* The claim is acknowledged: it is in the store, newer than the half hour.
LEMMA ClaimedSafe == ASSUME Typed, Safe, Claimed PROVE Safe'
<1>1. /\ pc = "claim" /\ pc' = "run" /\ Answered(UpdateOf(current))
      /\ runs' = [runs EXCEPT ![current] = runs[current] + 1]
      /\ UNCHANGED <<current, orphans>>
  BY DEF Claimed
<1>2. /\ current \in Tasks /\ UpdateOf(current) \in Messages
      /\ UpdateOf(current).kind = "update" /\ UpdateOf(current).task = current
      /\ \A u \in Tasks, v \in Statuses : ResultOf(u, v) # UpdateOf(current)
  BY <1>1, MessageOf DEF Typed, TypeOK, Statuses
<1>3. /\ \A u : Known(u) => Known(u)'
      /\ \A u : Young(u) => Young(u)'
      /\ \A r \in Results : Stored(r) => Stored(r)'
      /\ \A r \in Said' : r \in Said \/ UpdateOf(current) = ResultOf(r.task, r.status)
      /\ Known(current)' /\ Young(current)'
  BY <1>1, <1>2, PostEffect, Zenon DEF Typed
<1>4. More
  <2>1. \A r \in Said' : r.task \in Tasks /\ r.status \in Statuses
    BY DEF Said, Results
  <2> QED BY <1>2, <1>3, <2>1 DEF More
<1>5. runs[current] = 0 /\ Silent(current)
  BY <1>1 DEF Safe, ClaimedFirst
<1>6. Silent(current)'
  BY <1>1, <1>4, <1>5 DEF More, Silent
<1>7. \A t \in Tasks : runs'[t] <= 1 /\ (runs'[t] = 1 => Known(t)')
  BY <1>1, <1>2, <1>3, <1>5 DEF Safe, ClaimedFirst, Typed, TypeOK
<1>8. Young(current)' /\ current' = current
  BY <1>1, <1>3
<1>9. ClaimedFirst'
  <2>1. Young(current') => Young(current)'
    BY <1>8
  <2> QED BY <1>1, <1>3, <1>6, <1>7 DEF ClaimedFirst, Young
<1>10. OneVerdict'
  BY <1>1, <1>4, SaidResults DEF Safe, OneVerdict, More
<1> QED BY <1>9, <1>10 DEF Safe

LEMMA ClaimFailsSafe == ASSUME Typed, Safe, ClaimFails PROVE Safe'
<1>1. /\ pc = "claim" /\ pc' = "idle" /\ Unanswered(UpdateOf(current))
      /\ UNCHANGED <<orphans, runs>>
  BY DEF ClaimFails
<1>2. /\ current \in Tasks /\ UpdateOf(current) \in Messages
      /\ \A u \in Tasks, v \in Statuses : ResultOf(u, v) # UpdateOf(current)
  BY <1>1, MessageOf DEF Typed, TypeOK, Statuses
<1>3. /\ \A u : Known(u) => Known(u)'
      /\ \A u : Young(u) => Young(u)'
      /\ \A r \in Results : Stored(r) => Stored(r)'
      /\ \A r \in Said' : r \in Said \/ UpdateOf(current) = ResultOf(r.task, r.status)
  BY <1>1, <1>2, PostEffect, Zenon DEF Typed
<1>4. More
  <2>1. \A r \in Said' : r.task \in Tasks /\ r.status \in Statuses
    BY DEF Said, Results
  <2> QED BY <1>2, <1>3, <2>1 DEF More
<1>5. orphans' = {}
  BY <1>1 DEF Typed, Runner
<1> QED BY <1>1, <1>4, <1>5, RunnerFree

\* The server may have one more verdict q: on a claimed task, and one that
\* agrees with all that was said of it.
LEMMA NewVerdict ==
  ASSUME Typed, Safe, NEW q \in Results,
         Known(q.task), Young(q.task) \/ q.status = "failed",
         \A r \in Said : r.task = q.task => r = q,
         \A u : Known(u) => Known(u)',
         \A u : Young(u) => Young(u)',
         \A r \in Results : Stored(r) => Stored(r)',
         \A r \in Said' : r \in Said \/ r = q,
         pc' \notin {"picked", "claim", "run", "report"},
         orphans' \subseteq orphans, orphans' # {} => q.status = "failed",
         UNCHANGED runs
  PROVE  Safe'
<1>1. ClaimedFirst'
  BY DEF Safe, ClaimedFirst
<1>2. \A r, p \in Said' : r.task = p.task => r = p
  BY DEF Safe, OneVerdict
<1>3. \A r \in Said' : Known(r.task)'
  BY DEF Safe, OneVerdict
<1>4. \A r \in Said' : r.status = "completed" => Stored(r)' \/ Young(r.task)'
  BY SaidResults DEF Safe, OneVerdict
<1>5. \A t \in orphans' : Known(t)' /\ \A r \in Said' : r.task = t => r.status = "failed"
  BY DEF Safe, OneVerdict
<1>6. OneVerdict'
  BY <1>2, <1>3, <1>4, <1>5 DEF OneVerdict
<1> QED BY <1>1, <1>6 DEF Safe

LEMMA VerdictOf ==
  ASSUME NEW t \in Tasks, NEW status \in Statuses
  PROVE  /\ [task |-> t, status |-> status] \in Results
         /\ \A r \in Results : ResultOf(t, status) = ResultOf(r.task, r.status)
                                  => r = [task |-> t, status |-> status]
BY DEF ResultOf, Results

\* What may be said of an orphan, and of the task whose run has ended.
LEMMA OrphanVerdict ==
  ASSUME Typed, Safe, NEW t \in orphans
  PROVE  /\ t \in Tasks /\ "failed" \in Statuses /\ Known(t)
         /\ \A r \in Said : r.task = t => r = [task |-> t, status |-> "failed"]
<1>1. t \in Tasks /\ Known(t) /\ \A r \in Said : r.task = t => r.status = "failed"
  BY DEF Typed, TypeOK, Safe, OneVerdict
<1> QED BY <1>1, SaidResults DEF Results, Statuses

LEMMA RunVerdict ==
  ASSUME Typed, Safe, pc = "report"
  PROVE  /\ current \in Tasks /\ outcome \in Statuses /\ Known(current) /\ Young(current)
         /\ \A r \in Said : r.task # current
         /\ orphans = {}
<1>1. current \in Tasks /\ outcome \in Statuses /\ orphans = {}
  BY DEF Typed, TypeOK, Runner
<1>2. Young(current) /\ Silent(current)
  BY DEF Safe, ClaimedFirst
<1> QED BY <1>1, <1>2 DEF Silent, Young, Known

LEMMA RecoverSafe == ASSUME Typed, Safe, NEW t \in Tasks, RecoverOne(t) PROVE Safe'
<1> DEFINE q == [task |-> t, status |-> "failed"]
<1>1. /\ pc' = "recover" /\ t \in orphans /\ orphans' \subseteq orphans /\ UNCHANGED runs
      /\ Answered(ResultOf(t, "failed")) \/ Unanswered(ResultOf(t, "failed"))
  BY DEF RecoverOne
<1>2. /\ q \in Results /\ q.task = t /\ q.status = "failed" /\ ResultOf(t, "failed") \in Messages
      /\ \A r \in Results : ResultOf(t, "failed") = ResultOf(r.task, r.status) => r = q
  BY <1>1, OrphanVerdict, VerdictOf, MessageOf
<1>3. Known(t) /\ \A r \in Said : r.task = t => r = q
  BY <1>1, OrphanVerdict
<1> HIDE DEF q
<1>4. /\ \A u : Known(u) => Known(u)'
      /\ \A u : Young(u) => Young(u)'
      /\ \A r \in Results : Stored(r) => Stored(r)'
      /\ \A r \in Said' : r \in Said \/ ResultOf(t, "failed") = ResultOf(r.task, r.status)
  BY <1>1, <1>2, PostEffect, Zenon DEF Typed
<1>5. \A r \in Said' : r \in Said \/ r = q
  <2>1. \A r \in Said' : r \in Results
    BY DEF Said
  <2> QED BY <1>2, <1>4, <2>1
<1> QED BY <1>1, <1>2, <1>3, <1>4, <1>5, NewVerdict

LEMMA ReportedSafe == ASSUME Typed, Safe, Reported PROVE Safe'
<1> DEFINE q == [task |-> current, status |-> outcome]
<1>1. /\ pc = "report" /\ pc' = "idle" /\ UNCHANGED <<orphans, runs>>
      /\ Answered(ResultOf(current, outcome)) \/ Unanswered(ResultOf(current, outcome))
  BY DEF Reported
<1>2. /\ current \in Tasks /\ outcome \in Statuses /\ Known(current) /\ Young(current)
      /\ \A r \in Said : r.task # current
      /\ orphans = {}
  BY <1>1, RunVerdict
<1>3. /\ q \in Results /\ q.task = current /\ ResultOf(current, outcome) \in Messages
      /\ \A r \in Results : ResultOf(current, outcome) = ResultOf(r.task, r.status) => r = q
  BY <1>2, VerdictOf, MessageOf
<1> HIDE DEF q
<1>4. /\ \A u : Known(u) => Known(u)'
      /\ \A u : Young(u) => Young(u)'
      /\ \A r \in Results : Stored(r) => Stored(r)'
      /\ \A r \in Said' : r \in Said \/ ResultOf(current, outcome) = ResultOf(r.task, r.status)
  BY <1>1, <1>3, PostEffect, Zenon DEF Typed
<1>5. \A r \in Said' : r \in Said \/ r = q
  <2>1. \A r \in Said' : r \in Results
    BY DEF Said
  <2> QED BY <1>3, <1>4, <2>1
<1> QED BY <1>1, <1>2, <1>3, <1>4, <1>5, NewVerdict

\* The runner dies; what it has on the wire may still arrive.
LEMMA CrashSafe == ASSUME Typed, Safe, Crash PROVE Safe'
<1>1. /\ pc' = "down" /\ orphans' = {} /\ UNCHANGED <<updates, aged, results, runs>>
      /\ late' \in {late, late \cup OnTheWire}
  BY DEF Crash, Forgotten
<1>2. /\ \A u : Known(u)' <=> Known(u)
      /\ \A u : Young(u)' <=> Young(u)
      /\ \A r : Stored(r)' <=> Stored(r)
  BY <1>1 DEF Known, Young, Stored
<1>3. \A r \in Said' : r \in Results /\ (r \in Said \/ ResultOf(r.task, r.status) \in OnTheWire)
  BY <1>1, <1>2 DEF Said
<1>4. ASSUME \A r \in Results : ResultOf(r.task, r.status) \notin OnTheWire PROVE Safe'
  <2>1. More
    BY <1>2, <1>3, <1>4 DEF More
  <2> QED BY <1>1, <2>1, RunnerFree
<1>5. ASSUME NEW t \in Tasks, NEW status \in Statuses, OnTheWire \subseteq {ResultOf(t, status)},
             Known(t), Young(t) \/ status = "failed",
             \A r \in Said : r.task = t => r = [task |-> t, status |-> status]
      PROVE  Safe'
  <2> DEFINE q == [task |-> t, status |-> status]
  <2>1. /\ q \in Results /\ q.task = t /\ q.status = status
        /\ \A r \in Results : ResultOf(t, status) = ResultOf(r.task, r.status) => r = q
    BY VerdictOf
  <2>2. \A r \in Said : r.task = q.task => r = q
    BY <1>5
  <2> HIDE DEF q
  <2>3. \A r \in Said' : r \in Said \/ r = q
    BY <1>3, <1>5, <2>1
  <2>4. Known(q.task) /\ (Young(q.task) \/ q.status = "failed")
    BY <1>5, <2>1
  <2> QED BY <1>1, <1>2, <2>1, <2>2, <2>3, <2>4, NewVerdict
<1>6. CASE pc = "claim"
  <2>1. OnTheWire = {UpdateOf(current)} /\ current \in Tasks
    BY <1>6 DEF OnTheWire, Typed, TypeOK
  <2>2. \A r \in Results : r.task \in Tasks /\ r.status \in Statuses
    BY DEF Results
  <2>3. \A r \in Results : ResultOf(r.task, r.status) \notin OnTheWire
    BY <2>1, <2>2, MessageOf
  <2> QED BY <1>4, <2>3
<1>7. CASE pc = "report"
  <2>1. OnTheWire = {ResultOf(current, outcome)}
    BY <1>7 DEF OnTheWire
  <2> QED BY <1>5, <1>7, <2>1, RunVerdict
<1>8. CASE pc = "recover"
  <2>1. OnTheWire = {ResultOf(t, "failed") : t \in {u \in orphans : \A v \in orphans : v <= u}}
    BY <1>8 DEF OnTheWire
  <2>2. CASE OnTheWire = {}
    BY <1>4, <2>2
  <2>3. CASE OnTheWire # {}
    <3>1. PICK t \in orphans : \A v \in orphans : v <= t
      BY <2>1, <2>3
    <3>2. orphans \subseteq Nat
      BY DEF Typed, TypeOK, Tasks
    <3>3. \A u \in orphans : (\A v \in orphans : v <= u) => u = t
      BY <3>1, <3>2
    <3>4. OnTheWire \subseteq {ResultOf(t, "failed")}
      BY <2>1, <3>3
    <3> QED BY <1>5, <3>4, OrphanVerdict
  <2> QED BY <2>2, <2>3
<1>9. CASE pc \notin {"claim", "report", "recover"}
  <2>1. OnTheWire = {}
    BY <1>9 DEF OnTheWire
  <2> QED BY <1>4, <2>1
<1> QED BY <1>6, <1>7, <1>8, <1>9

\* The queue shows every update and result: an orphan has no verdict stored, and
\* one on the wire that says completed is younger than orphans are.
LEMMA BootSafe == ASSUME Typed, Seen, Safe, NEW read \in BOOLEAN, Boot(read) PROVE Safe'
<1>1. /\ UNCHANGED <<updates, aged, results, late, runs>> /\ pc' = "recover"
      /\ orphans' \subseteq Orphans
  BY DEF Boot, table
<1>2. More /\ Said' = Said
  BY <1>1, SameTable DEF Said, Stored
<1>3. ASSUME NEW t \in Orphans PROVE Known(t) /\ \A r \in Said : r.task = t => r.status = "failed"
  <2>1. ~HasResult(t) /\ HasUpdate(t) /\ StartedLongAgo(t)
    BY DEF Orphans, Running, Bounded
  <2>2. Known(t)
    BY <2>1 DEF HasUpdate, Known, Newest
  <2>3. ~Young(t)
    <3>1. aged \in Nat /\ DOMAIN updates = 1..Len(updates) /\ Len(updates) \in Nat
      BY DEF Typed, TypeOK
    <3> QED BY <2>1, <3>1 DEF StartedLongAgo, Young
  <2>4. \A r : r.task = t => ~Stored(r)
    BY <2>1, SeenResults DEF HasResult, Stored
  <2>5. \A r \in Said : r.task = t => r.status # "completed"
    BY <2>3, <2>4 DEF Safe, OneVerdict
  <2> QED BY <2>2, <2>5, SaidResults DEF Results, Statuses
<1>4. ClaimedFirst'
  BY <1>1, <1>2 DEF Safe, ClaimedFirst, More
<1>5. OneVerdict'
  BY <1>1, <1>2, <1>3, SaidResults DEF Safe, OneVerdict, More
<1> QED BY <1>4, <1>5 DEF Safe

LEMMA SafeStep == Typed /\ Seen /\ Safe /\ [Next]_vars => Safe'
<1> SUFFICES ASSUME Typed, Seen, Safe, [Next]_vars PROVE Safe'
  OBVIOUS
<1>1. ASSUME NEW priority \in Priorities, NEW heavy \in BOOLEAN, NEW tick \in BOOLEAN,
             Submit(priority, heavy, tick)
      PROVE  Safe'
  BY <1>1, SameTable, RestKeeps DEF Submit, runner, hist
<1>2. CASE HalfHour BY <1>2, HalfHourSafe
<1>3. ASSUME NEW m \in late, LateArrives(m) PROVE Safe' BY <1>3, LateSafe
<1>4. ASSUME NEW read \in BOOLEAN, Boot(read) PROVE Safe' BY <1>4, BootSafe
<1>5. ASSUME NEW t \in Tasks, RecoverOne(t) PROVE Safe' BY <1>5, RecoverSafe
<1>6. ASSUME NEW t \in Tasks, QueueRead(t) PROVE Safe' BY <1>6, ReadSafe
<1>7. CASE Recovered \/ Poll \/ NothingPending \/ PollFails \/ LockBusy \/ Launch
  <2>1. /\ UNCHANGED <<updates, aged, results, late, orphans, runs>>
        /\ pc' \notin {"picked", "claim", "run", "report"}
    BY <1>7 DEF Recovered, Poll, NothingPending, PollFails, LockBusy, Launch, table, hist
  <2>2. pc # "recover" \/ orphans = {}
    BY <1>7 DEF Recovered, Poll, NothingPending, PollFails, LockBusy, Launch
  <2>3. orphans' = {}
    BY <2>1, <2>2 DEF Typed, Runner
  <2> QED BY <2>1, <2>3, SameTable, RunnerFree
<1>8. CASE Dispatch BY <1>8, DispatchSafe
<1>9. CASE Claimed BY <1>9, ClaimedSafe
<1>10. CASE ClaimFails BY <1>10, ClaimFailsSafe
<1>11. ASSUME NEW status \in Statuses, Ran(status) PROVE Safe'
  <2>1. /\ UNCHANGED <<updates, aged, results, late, orphans, runs, current>>
        /\ pc = "run" /\ pc' = "report"
    BY <1>11 DEF Ran, table, hist
  <2>2. More /\ Said' = Said
    BY <2>1, SameTable DEF Said, Stored
  <2>3. Young(current)' /\ Silent(current)'
    BY <2>1, <2>2 DEF Safe, ClaimedFirst, Young, Silent
  <2>4. ClaimedFirst'
    BY <2>1, <2>2, <2>3 DEF Safe, ClaimedFirst, More
  <2>5. OneVerdict'
    BY <2>1, <2>2, SaidResults DEF Safe, OneVerdict, More
  <2> QED BY <2>4, <2>5 DEF Safe
<1>12. CASE Reported BY <1>12, ReportedSafe
<1>13. CASE Sigterm
  BY <1>13, SameTable, RestKeeps DEF Sigterm, table
<1>14. CASE Exit
  BY <1>14, SameTable, RunnerFree DEF Exit, Forgotten
<1>15. CASE Crash BY <1>15, CrashSafe
<1>16. CASE UNCHANGED vars
  BY <1>16, SameTable, RestKeeps DEF vars, table, runner, hist
<1> QED
  BY <1>1, <1>2, <1>3, <1>4, <1>5, <1>6, <1>7, <1>8, <1>9, <1>10, <1>11, <1>12, <1>13, <1>14,
     <1>15, <1>16, Zenon DEF Next, RunnerStep

\* No row is ever deleted: what the view reaches now it reached before.
LEMMA SeenBefore == Typed /\ [Next]_vars => (Seen' => Seen)
<1> SUFFICES ASSUME Typed, [Next]_vars PROVE Seen' => Seen
  OBVIOUS
<1>1. ASSUME UNCHANGED <<updates, results>> PROVE Seen' => Seen
  BY <1>1 DEF Seen
<1>2. ASSUME NEW m \in Messages, Answered(m) \/ Unanswered(m) PROVE Seen' => Seen
  BY <1>2, PostEffect DEF Typed
<1>3. ASSUME NEW m \in late, LateArrives(m) PROVE Seen' => Seen
  BY <1>3, HandleEffect DEF LateArrives, Typed, TypeOK
<1>4. ASSUME NEW t \in Tasks, RecoverOne(t) PROVE Seen' => Seen
  BY <1>2, <1>4, MessageOf DEF RecoverOne, Statuses
<1>5. CASE Claimed \/ ClaimFails
  <2>1. current \in Tasks
    BY <1>5 DEF Claimed, ClaimFails, Typed, TypeOK
  <2>2. UpdateOf(current) \in Messages
    BY <2>1, MessageOf DEF Statuses
  <2> QED BY <1>2, <1>5, <2>2 DEF Claimed, ClaimFails
<1>6. CASE Reported
  <2>1. ResultOf(current, outcome) \in Messages
    BY <1>6, MessageOf DEF Reported, Typed, TypeOK
  <2> QED BY <1>2, <1>6, <2>1 DEF Reported
<1>7. CASE \/ \E priority \in Priorities, heavy, tick \in BOOLEAN : Submit(priority, heavy, tick)
           \/ HalfHour \/ Recovered \/ Poll \/ NothingPending \/ PollFails \/ Dispatch \/ LockBusy
           \/ Launch \/ Sigterm \/ Exit \/ Crash \/ UNCHANGED vars
           \/ \E read \in BOOLEAN : Boot(read)
           \/ \E t \in Tasks : QueueRead(t)
           \/ \E status \in Statuses : Ran(status)
  BY <1>1, <1>7 DEF Submit, HalfHour, Recovered, Poll, NothingPending, PollFails, Dispatch,
     LockBusy, Launch, Sigterm, Exit, Crash, Forgotten, Boot, QueueRead, Ran, vars, table
<1> QED BY <1>3, <1>4, <1>5, <1>6, <1>7, Zenon DEF Next, RunnerStep

LEMMA InitSafe == Init => Safe
<1> SUFFICES ASSUME Init PROVE Safe
  OBVIOUS
<1>1. Said = {}
  BY DEF Init, Said, Stored
<1> QED BY <1>1 DEF Init, Safe, ClaimedFirst, OneVerdict

\* The types of what the store and the runner hold, and, while the view of the
\* queue reaches every row, that claims come before work and verdicts agree.
THEOREM Invariant == Spec => []IInv
<1>1. Init => Typed /\ (Seen => Safe)
  BY InitTyped, InitSafe
<1>2. Typed /\ (Seen => Safe) /\ [Next]_vars => Typed' /\ (Seen' => Safe')
  BY TypedStep, SafeStep, SeenBefore
<1>3. Spec => [](Typed /\ (Seen => Safe))
  BY <1>1, <1>2, PTL DEF Spec
<1>4. Typed /\ (Seen => Safe) => IInv
  BY DEF IInv, Typed, Safe
<1> QED BY <1>3, <1>4, PTL

\* No task is executed twice, through any number of crashes, unanswered POSTs and
\* late ones, while the view reaches every update.
THEOREM RunsOnceAlways == Spec => [](Seen => RunsOnce)
<1>1. IInv => (Seen => RunsOnce)
  BY DEF IInv, ClaimedFirst, RunsOnce
<1> QED BY <1>1, Invariant, PTL

\* Recovery, late results and reports never contradict each other.
THEOREM VerdictAlways == Spec => [](Seen => VerdictStands)
<1>1. ASSUME IInv, Seen PROVE VerdictStands
  <2> SUFFICES ASSUME NEW i \in DOMAIN results, NEW j \in DOMAIN results,
                      results[i].task = results[j].task
               PROVE  results[i] = results[j]
    BY DEF VerdictStands
  <2>1. results[i] \in Results /\ results[j] \in Results
    BY <1>1 DEF IInv, TypeOK
  <2>2. results[i] \in Said /\ results[j] \in Said
    BY <2>1 DEF Said, Stored
  <2> QED BY <1>1, <2>2 DEF IInv, OneVerdict
<1> QED BY <1>1, Invariant, PTL

-----------------------------------------------------------------------------
(* What SIGTERM leaves behind.                                             *)

Undisturbed == crashes = 0 /\ failures = 0

HasVerdict(t) == \E j \in DOMAIN results : results[j].task = t
AllDone == \A i \in DOMAIN updates : updates[i] # current => HasVerdict(updates[i])

Finishing == Undisturbed => late = {} /\ AllDone

LEMMA UndisturbedBefore == Typed /\ [Next]_vars => (Undisturbed' => Undisturbed)
<1> SUFFICES ASSUME Typed, [Next]_vars PROVE Undisturbed' => Undisturbed
  OBVIOUS
<1>0. crashes \in Nat /\ failures \in Nat
  BY DEF Typed, TypeOK
<1>1. ASSUME NEW m, Answered(m) \/ Unanswered(m), UNCHANGED crashes
      PROVE  Undisturbed' => Undisturbed
  BY <1>0, <1>1 DEF Answered, Unanswered, Undisturbed
<1>2. ASSUME NEW t \in Tasks, RecoverOne(t) PROVE Undisturbed' => Undisturbed
  BY <1>1, <1>2 DEF RecoverOne
<1>3. CASE Claimed \/ ClaimFails \/ Reported
  BY <1>1, <1>3 DEF Claimed, ClaimFails, Reported
<1>4. ASSUME NEW read \in BOOLEAN, Boot(read) PROVE Undisturbed' => Undisturbed
  BY <1>0, <1>4 DEF Boot, Undisturbed
<1>5. CASE PollFails \/ Crash
  BY <1>0, <1>5 DEF PollFails, Crash, Undisturbed
<1>6. CASE \/ \E priority \in Priorities, heavy, tick \in BOOLEAN : Submit(priority, heavy, tick)
           \/ HalfHour \/ Recovered \/ Poll \/ NothingPending \/ Dispatch \/ LockBusy
           \/ Launch \/ Sigterm \/ Exit \/ UNCHANGED vars
           \/ \E m \in late : LateArrives(m)
           \/ \E t \in Tasks : QueueRead(t)
           \/ \E status \in Statuses : Ran(status)
  BY <1>6 DEF Undisturbed, Submit, HalfHour, Recovered, Poll, NothingPending, Dispatch,
     LockBusy, Launch, Sigterm, Exit, LateArrives, QueueRead, Ran, vars, hist
<1> QED BY <1>2, <1>3, <1>4, <1>5, <1>6, Zenon DEF Next, RunnerStep

LEMMA FinishingStep == Typed /\ Finishing /\ [Next]_vars => Finishing'
<1> SUFFICES ASSUME Typed, Undisturbed, Undisturbed', late = {}, AllDone, [Next]_vars
             PROVE  late' = {} /\ AllDone'
  BY UndisturbedBefore DEF Finishing
<1>1. ASSUME UNCHANGED <<updates, results, late>>, current' = current \/ current = None
      PROVE  late' = {} /\ AllDone'
  <2>1. \A i \in DOMAIN updates : updates[i] # None
    BY TaskNotNone DEF Typed, TypeOK
  <2> QED BY <1>1, <2>1 DEF AllDone, HasVerdict
<1>2. ASSUME NEW m, Answered(m) \/ Unanswered(m) PROVE Handle(m) /\ late' = {}
  BY <1>2 DEF Answered, Unanswered, Undisturbed, Typed, TypeOK
<1>3. ASSUME NEW t \in Tasks, NEW status \in Statuses, Handle(ResultOf(t, status)), late' = {},
             current' = current \/ (current = t /\ current' = None)
      PROVE  late' = {} /\ AllDone'
  <2> DEFINE q == [task |-> t, status |-> status]
  <2>1. results' = Append(results, q) /\ updates' = updates /\ q \in Results /\ q.task = t
    BY <1>3, VerdictOf DEF Handle, ResultOf
  <2> HIDE DEF q
  <2>2. /\ DOMAIN results' = 1..(Len(results) + 1) /\ DOMAIN results = 1..Len(results)
        /\ Len(results) \in Nat
        /\ \A i \in DOMAIN results : results'[i] = results[i]
        /\ results'[Len(results) + 1] = q
    BY <2>1, Append1 DEF Typed, TypeOK
  <2>3. /\ \A u : HasVerdict(u) => HasVerdict(u)'
        /\ HasVerdict(t)'
    BY <2>1, <2>2 DEF HasVerdict
  <2>4. AllDone'
    BY <1>3, <2>1, <2>3 DEF AllDone, HasVerdict
  <2> QED BY <1>3, <2>4
<1>4. ASSUME NEW t \in Tasks, RecoverOne(t) PROVE late' = {} /\ AllDone'
  <2>1. "failed" \in Statuses
    BY DEF Statuses
  <2> QED BY <1>2, <1>3, <1>4, <2>1 DEF RecoverOne
<1>5. CASE Reported
  <2>1. current \in Tasks /\ outcome \in Statuses
    BY <1>5 DEF Reported, Typed, TypeOK
  <2> QED BY <1>2, <1>3, <1>5, <2>1 DEF Reported
<1>6. CASE Claimed
  <2>1. current \in Tasks /\ Handle(UpdateOf(current)) /\ late' = {} /\ current' = current
    BY <1>2, <1>6 DEF Claimed, Typed, TypeOK
  <2>2. updates' = Append(updates, current) /\ results' = results
    BY <2>1 DEF Handle, UpdateOf
  <2>3. /\ DOMAIN updates' = 1..(Len(updates) + 1) /\ DOMAIN updates = 1..Len(updates)
        /\ Len(updates) \in Nat
        /\ \A i \in DOMAIN updates : updates'[i] = updates[i]
        /\ updates'[Len(updates) + 1] = current
    BY <2>1, <2>2, Append1 DEF Typed, TypeOK
  <2> QED BY <2>1, <2>2, <2>3 DEF AllDone, HasVerdict
<1>7. CASE ClaimFails
  BY <1>7 DEF ClaimFails, Unanswered, Undisturbed, Typed, TypeOK
<1>8. CASE Crash
  BY <1>8 DEF Crash, Undisturbed, Typed, TypeOK
<1>9. CASE Dispatch \/ Exit
  BY <1>1, <1>9 DEF Dispatch, Exit, Forgotten, table, Typed, TypeOK
<1>10. ASSUME NEW m \in late, LateArrives(m) PROVE FALSE
  OBVIOUS
<1>11. CASE \/ \E priority \in Priorities, heavy, tick \in BOOLEAN : Submit(priority, heavy, tick)
            \/ HalfHour \/ Recovered \/ Poll \/ NothingPending \/ PollFails \/ LockBusy
            \/ Launch \/ Sigterm \/ UNCHANGED vars
            \/ \E read \in BOOLEAN : Boot(read)
            \/ \E t \in Tasks : QueueRead(t)
            \/ \E status \in Statuses : Ran(status)
  BY <1>1, <1>11 DEF Submit, HalfHour, Recovered, Poll, NothingPending, PollFails, LockBusy,
     Launch, Sigterm, Boot, QueueRead, Ran, vars, table, runner
<1> QED
  BY <1>4, <1>5, <1>6, <1>7, <1>8, <1>9, <1>10, <1>11, Zenon DEF Next, RunnerStep

\* "Finish current": in a behaviour without crashes and failed exchanges every
\* task that was claimed has its verdict as soon as the runner is not at it.
THEOREM StopFinishesAlways == Spec => []StopFinishes
<1>1. Init => Finishing
  BY DEF Init, Finishing, AllDone
<1>2. Spec => []Typed
  BY InitTyped, TypedStep, PTL DEF Spec
<1>3. Finishing => StopFinishes
  BY DEF Finishing, Undisturbed, AllDone, HasVerdict, StopFinishes
<1> QED BY <1>1, <1>2, <1>3, FinishingStep, PTL DEF Spec
=============================================================================
