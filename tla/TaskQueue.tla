----------------------------- MODULE TaskQueue -----------------------------
(***************************************************************************)
(* The task queue: requests, status updates and results are entries of the *)
(* store of scripts/vcontext-server.js, the queue is a view derived from   *)
(* them (GET /admin/task-queue), and scripts/aios-task-runner.js is the    *)
(* only process that claims and runs tasks. It may die at any point.       *)
(*                                                                         *)
(* A task is its position in requests, the order of the entries' ids. Each *)
(* HTTP exchange of the runner is a step that sends and a step that learns *)
(* the outcome: a POST the runner gave up on may still be in flight.       *)
(***************************************************************************)
EXTENDS Naturals, Sequences, FiniteSets

CONSTANTS Limit,         \* LIMIT of each list of the view
          RequestWindow, \* request rows the view reads
          UpdateWindow,  \* task-status-update rows the view reads
          ResultWindow,  \* task-result rows the view reads
          MaxTasks,      \* bound: requests submitted
          MaxFailures,   \* bound: HTTP exchanges that fail
          MaxCrashes,    \* bound: deaths of the runner
          MaxStops       \* bound: SIGTERMs

ASSUME ConstantsAssumption ==
  /\ Limit \in Nat \ {0} /\ RequestWindow \in Nat
  /\ UpdateWindow \in Nat /\ ResultWindow \in Nat
  /\ MaxTasks \in Nat /\ MaxFailures \in Nat
  /\ MaxCrashes \in Nat /\ MaxStops \in Nat

Tasks == 1..MaxTasks
None == 0   \* currentTaskId null
Priorities == {1, 2}   \* of the code's 1, 2, 3
Requests == [priority : Priorities, heavy : BOOLEAN, at : Nat]
Statuses == {"completed", "failed"}
Results == [task : Tasks, status : Statuses]
Updates == [kind : {"update"}, task : Tasks]
Messages == Updates \cup [kind : {"result"}, task : Tasks, status : Statuses]

VARIABLES
  requests,  \* task-request entries; at is created_at, in whole seconds
  updates,   \* tasks of the task-status-update entries (status 'running')
  aged,      \* of these, the number written at least 30 minutes ago
  results,   \* task-result entries
  late,      \* POSTs the runner no longer waits for, not handled yet
  pc,        \* where the runner is
  picked,    \* pending[0] of the view it read
  current,   \* currentTaskId
  outcome,   \* status the run ended with ("failed" until it has)
  orphans,   \* running tasks recoverOrphans has yet to fail
  stopping,  \* shuttingDown
  runs,      \* history: times each task was started
  failures, crashes, stops  \* history: used up bounds

table == <<requests, updates, aged, results, late>>
runner == <<pc, picked, current, outcome, orphans, stopping>>
hist == <<runs, failures, crashes, stops>>
vars == <<table, runner, hist>>

TypeOK ==
  /\ requests \in Seq(Requests) /\ Len(requests) <= MaxTasks
  /\ updates \in Seq(Tasks) /\ aged \in 0..Len(updates)
  /\ results \in Seq(Results)
  /\ late \subseteq Messages
  /\ pc \in {"down", "boot", "recover", "idle", "poll", "picked", "claim", "run", "report"}
  /\ picked \in {None} \cup Tasks /\ current \in {None} \cup Tasks
  /\ outcome \in Statuses /\ orphans \subseteq Tasks /\ stopping \in BOOLEAN
  /\ runs \in [Tasks -> Nat]
  /\ failures \in 0..MaxFailures /\ crashes \in 0..MaxCrashes /\ stops \in 0..MaxStops
  /\ pc \in {"claim", "run", "report"} <=> current # None

Init ==
  /\ requests = <<>> /\ updates = <<>> /\ aged = 0 /\ results = <<>> /\ late = {}
  /\ pc = "boot" /\ picked = None /\ current = None /\ outcome = "failed"
  /\ orphans = {} /\ stopping = FALSE
  /\ runs = [t \in Tasks |-> 0]
  /\ failures = 0 /\ crashes = 0 /\ stops = 0

-----------------------------------------------------------------------------
(* GET /admin/task-queue.                                                  *)

\* The indexes ORDER BY id DESC LIMIT n reads.
Newest(n, rows) == {i \in DOMAIN rows : i + n > Len(rows)}

HasResult(t) == \E i \in Newest(ResultWindow, results) : results[i].task = t
HasUpdate(t) == \E i \in Newest(UpdateWindow, updates) : updates[i] = t

\* A list takes the newest Limit of its tasks.
Bounded(S) == {t \in S : Cardinality({u \in S : u > t}) < Limit}

Pending == Bounded({t \in Newest(RequestWindow, requests) : ~HasResult(t) /\ ~HasUpdate(t)})
Running == Bounded({t \in Newest(RequestWindow, requests) : ~HasResult(t) /\ HasUpdate(t)})

\* pending.sort: by priority, then created_at; the sort is stable and the list
\* newest first, so of two requests of one second the later comes first.
Before(t, u) ==
  LET r == requests[t]
      s == requests[u]
  IN \/ r.priority < s.priority
     \/ r.priority = s.priority /\ r.at < s.at
     \/ r.priority = s.priority /\ r.at = s.at /\ t > u

IsFirst(t, S) == t \in S /\ \A u \in S \ {t} : Before(t, u)

\* started_at of the newest update is at least ORPHAN_THRESHOLD_MS ago.
StartedLongAgo(t) == \A i \in DOMAIN updates : updates[i] = t => i <= aged

-----------------------------------------------------------------------------
(* Clients and time.                                                       *)

\* POST /admin/task-request; tick is whether the clock's second has changed
\* since the last one.
Submit(priority, heavy, tick) ==
  LET n == Len(requests)
      last == IF n = 0 THEN 0 ELSE requests[n].at
  IN /\ n < MaxTasks
     /\ requests' = Append(requests,
          [priority |-> priority, heavy |-> heavy, at |-> IF tick THEN last + 1 ELSE last])
     /\ UNCHANGED <<updates, aged, results, late, runner, hist>>

\* Half an hour passes: longer than any task may run (20 minutes) and than any
\* POST stays unanswered.
HalfHour ==
  /\ current = None /\ late = {}
  /\ aged < Len(updates)
  /\ aged' = Len(updates)
  /\ UNCHANGED <<requests, updates, results, late, runner, hist>>

\* The server handles a POST /store.
Handle(message) ==
  IF message.kind = "update"
  THEN updates' = Append(updates, message.task) /\ UNCHANGED results
  ELSE /\ results' = Append(results, [task |-> message.task, status |-> message.status])
       /\ UNCHANGED updates

LateArrives(message) ==
  /\ message \in late
  /\ Handle(message)
  /\ late' = late \ {message}
  /\ UNCHANGED <<requests, aged, runner, hist>>

\* The runner's POST is answered.
Answered(message) == Handle(message) /\ UNCHANGED <<requests, aged, late, failures>>

\* It gets an error, or no answer in time: the server never handles it, or will
\* handle it later.
Unanswered(message) ==
  /\ failures < MaxFailures
  /\ failures' = failures + 1
  /\ late' \in {late, late \cup {message}}
  /\ UNCHANGED <<requests, updates, aged, results>>

-----------------------------------------------------------------------------
(* The runner.                                                             *)

UpdateOf(t) == [kind |-> "update", task |-> t]
ResultOf(t, status) == [kind |-> "result", task |-> t, status |-> status]

\* Mutant: every running task is an orphan at boot.
OrphansOfAnyAge == Running

Orphans == {t \in Running : StartedLongAgo(t)}

\* abiSelfTest passed; recoverOrphans reads the queue, or cannot.
Boot(read) ==
  /\ pc = "boot"
  /\ read \/ failures < MaxFailures
  /\ failures' = IF read THEN failures ELSE failures + 1
  /\ orphans' = IF read THEN Orphans ELSE {}
  /\ pc' = "recover"
  /\ UNCHANGED <<table, picked, current, outcome, stopping, runs, crashes, stops>>

\* One storeResult(failed, orphaned_on_restart), newest task first.
RecoverOne(t) ==
  /\ pc = "recover" /\ t \in orphans /\ \A u \in orphans : u <= t
  /\ Answered(ResultOf(t, "failed")) \/ Unanswered(ResultOf(t, "failed"))
  /\ orphans' = orphans \ {t}
  /\ UNCHANGED <<pc, picked, current, outcome, stopping, runs, crashes, stops>>

Recovered ==
  /\ pc = "recover" /\ orphans = {}
  /\ pc' = "idle"
  /\ UNCHANGED <<table, picked, current, outcome, orphans, stopping, hist>>

\* pollOnce asks for the queue.
Poll ==
  /\ pc = "idle" /\ ~stopping /\ current = None
  /\ pc' = "poll"
  /\ UNCHANGED <<table, picked, current, outcome, orphans, stopping, hist>>

\* The server answers; the answer is on its way.
QueueRead(t) ==
  /\ pc = "poll"
  /\ IsFirst(t, Pending)
  /\ picked' = t
  /\ pc' = "picked"
  /\ UNCHANGED <<table, current, outcome, orphans, stopping, hist>>

NothingPending ==
  /\ pc = "poll"
  /\ Pending = {}
  /\ pc' = "idle"
  /\ UNCHANGED <<table, picked, current, outcome, orphans, stopping, hist>>

PollFails ==
  /\ pc = "poll" /\ failures < MaxFailures
  /\ failures' = failures + 1
  /\ pc' = "idle"
  /\ UNCHANGED <<table, picked, current, outcome, orphans, stopping, runs, crashes, stops>>

\* The answer is here: a light task is dispatched, a heavy one if tryMlxLock
\* with no wait got the lock (see MlxLock).
Dispatch ==
  /\ pc = "picked"
  /\ current' = picked
  /\ pc' = "claim"
  /\ picked' = None
  /\ UNCHANGED <<table, outcome, orphans, stopping, hist>>

LockBusy ==
  /\ pc = "picked" /\ requests[picked].heavy
  /\ picked' = None
  /\ pc' = "idle"
  /\ UNCHANGED <<table, current, outcome, orphans, stopping, hist>>

Claimed ==
  /\ pc = "claim"
  /\ Answered(UpdateOf(current))
  /\ runs' = [runs EXCEPT ![current] = @ + 1]
  /\ pc' = "run"
  /\ UNCHANGED <<picked, current, outcome, orphans, stopping, crashes, stops>>

\* Mutant: the task is run although the claim was not acknowledged.
ClaimFailsRunsOn ==
  /\ pc = "claim"
  /\ Unanswered(UpdateOf(current))
  /\ runs' = [runs EXCEPT ![current] = @ + 1]
  /\ pc' = "run"
  /\ UNCHANGED <<picked, current, outcome, orphans, stopping, crashes, stops>>

\* The claim was not acknowledged: the task is not run.
ClaimFails ==
  /\ pc = "claim"
  /\ Unanswered(UpdateOf(current))
  /\ current' = None
  /\ pc' = "idle"
  /\ UNCHANGED <<picked, outcome, orphans, stopping, runs, crashes, stops>>

\* The child process ends, fails or is killed by its timeout.
Ran(status) ==
  /\ pc = "run"
  /\ outcome' = status
  /\ pc' = "report"
  /\ UNCHANGED <<table, picked, current, orphans, stopping, hist>>

\* Mutant: currentTaskId is left set when the result cannot be stored.
ReportedIfAnswered ==
  /\ pc = "report"
  /\ \/ Answered(ResultOf(current, outcome)) /\ current' = None
     \/ Unanswered(ResultOf(current, outcome)) /\ UNCHANGED current
  /\ outcome' = "failed"
  /\ pc' = "idle"
  /\ UNCHANGED <<picked, orphans, stopping, runs, crashes, stops>>

\* storeResult, once, whatever comes of it.
Reported ==
  /\ pc = "report"
  /\ Answered(ResultOf(current, outcome)) \/ Unanswered(ResultOf(current, outcome))
  /\ current' = None
  /\ outcome' = "failed"
  /\ pc' = "idle"
  /\ UNCHANGED <<picked, orphans, stopping, runs, crashes, stops>>

\* Memory of the process is gone, and its children no longer report.
Forgotten ==
  /\ pc' = "down" /\ picked' = None /\ current' = None /\ orphans' = {} /\ stopping' = FALSE
  /\ outcome' = "failed"
  /\ UNCHANGED <<requests, updates, aged, results, runs>>

Sigterm ==
  /\ pc # "down" /\ ~stopping /\ stops < MaxStops
  /\ stopping' = TRUE
  /\ stops' = stops + 1
  /\ UNCHANGED <<table, pc, picked, current, outcome, orphans, runs, failures, crashes>>

\* The half-second timer of onSigterm finds no current task.
Exit ==
  /\ pc # "down" /\ stopping /\ current = None
  /\ Forgotten
  /\ UNCHANGED <<late, failures, crashes, stops>>

\* What the runner has on the wire when it dies.
OnTheWire ==
  CASE pc = "claim" -> {UpdateOf(current)}
    [] pc = "report" -> {ResultOf(current, outcome)}
    [] pc = "recover" -> {ResultOf(t, "failed") : t \in {u \in orphans : \A v \in orphans : v <= u}}
    [] OTHER -> {}

\* SIGKILL, an uncaught exception, a failed self-test, power.
Crash ==
  /\ pc # "down" /\ crashes < MaxCrashes
  /\ crashes' = crashes + 1
  /\ Forgotten
  /\ late' \in {late, late \cup OnTheWire}
  /\ UNCHANGED <<failures, stops>>

\* launchd starts it again.
Launch ==
  /\ pc = "down"
  /\ pc' = "boot"
  /\ UNCHANGED <<table, picked, current, outcome, orphans, stopping, hist>>

RunnerStep ==
  \/ \E read \in BOOLEAN : Boot(read)
  \/ \E t \in Tasks : RecoverOne(t) \/ QueueRead(t)
  \/ Recovered \/ Poll \/ NothingPending \/ PollFails
  \/ Dispatch \/ LockBusy \/ Claimed \/ ClaimFails
  \/ \E status \in Statuses : Ran(status)
  \/ Reported
  \/ Launch

Next ==
  \/ \E priority \in Priorities, heavy, tick \in BOOLEAN : Submit(priority, heavy, tick)
  \/ HalfHour
  \/ \E message \in late : LateArrives(message)
  \/ RunnerStep
  \/ Sigterm \/ Exit \/ Crash

Spec == Init /\ [][Next]_vars

\* The runner's timers and awaits come to an end, and of the polls that find a
\* task infinitely many get the lock it needs.
FairSpec == Spec /\ WF_vars(RunnerStep) /\ WF_vars(Exit) /\ SF_vars(Dispatch)

-----------------------------------------------------------------------------
(* Properties.                                                             *)

\* A task is executed at most once, through crashes, unanswered POSTs and late
\* ones: a claim is durable before the work starts, and a task that died with
\* the runner is not tried again.
RunsOnce == \A t \in Tasks : runs[t] <= 1

\* The results stored for one task never contradict each other: recovery does
\* not fail a task whose result says completed, nor does a late result land on
\* top of an orphan's.
VerdictStands ==
  \A i, j \in DOMAIN results : results[i].task = results[j].task => results[i] = results[j]

\* First in, first out within a priority, across polls: a request of an earlier
\* second is not overtaken by one of the same or a worse priority.
NoOvertaking ==
  \A t, u \in DOMAIN requests :
    (/\ requests[t].at < requests[u].at
     /\ requests[t].priority <= requests[u].priority
     /\ \E i \in DOMAIN updates : updates[i] = u) => \E i \in DOMAIN updates : updates[i] = t

\* "finish current": without crashes and failed exchanges every claimed task
\* has its result as soon as the runner is not busy with it, stopped or not.
StopFinishes ==
  (crashes = 0 /\ failures = 0) =>
    \A i \in DOMAIN updates : updates[i] # current =>
      \E j \in DOMAIN results : results[j].task = updates[i]

\* Every request is claimed in the end, whatever fails on the way.
EveryTaskClaimed ==
  \A t \in Tasks : t \in DOMAIN requests ~> \E i \in DOMAIN updates : updates[i] = t

\* "stop picking new": no task is dispatched after SIGTERM.
StopPicksNothing == [][Dispatch => ~stopping]_vars

\* "created_at asc (FIFO)": of two pending requests of one priority the one
\* submitted first is claimed first.
Fifo ==
  \A t, u \in DOMAIN requests :
    (/\ t < u
     /\ requests[t].priority = requests[u].priority
     /\ \E i \in DOMAIN updates : updates[i] = u) => \E i \in DOMAIN updates : updates[i] = t
=============================================================================
