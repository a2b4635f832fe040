------------------------------ MODULE MlxProxy ------------------------------
(***************************************************************************)
(* scripts/mlx-generate-proxy.js: the proxy that starts the generator's    *)
(* launchd service at the first request and unloads it when idle.          *)
(*                                                                         *)
(* Node runs the proxy from one await to the next without interruption;    *)
(* an action is one such run.  A command or probe that is awaited takes    *)
(* effect at the step where its answer arrives.  Everybody who awaits      *)
(* starting_promise goes on in the microtasks right after it settles,      *)
(* hence in the same step.                                                 *)
(*                                                                         *)
(* External: launchd refuses to bootstrap a service that is disabled or    *)
(* already loaded, and to load a disabled one; scripts/vcontext-watchdog.sh *)
(* unloads and reloads a service it finds unhealthy and not disabled.      *)
(***************************************************************************)
EXTENDS Naturals, FiniteSets

CONSTANTS Reqs,         \* client connections
          NoReq,
          Watchdog,     \* whether the watchdog's restart branch is taken
          MaxCrashes,   \* bound: ends of the proxy process
          MaxFailures   \* bound: launchctl commands that fail or time out

ASSUME ConstantsAssumption ==
  /\ NoReq \notin Reqs
  /\ IsFiniteSet(Reqs)
  /\ Watchdog \in BOOLEAN
  /\ MaxCrashes \in Nat /\ MaxFailures \in Nat

VARIABLES
  value,     \* state.value
  promise,   \* state.starting_promise, as the request whose startMlx made it
  active,    \* state.active_requests
  idle,      \* more than IDLE_MS since last_request_at
  pc,        \* per request: where its handler awaits
  waits,     \* per request: whose promise it awaits
  start,     \* per request: where the start it launched awaits
  stop,      \* where stopMlx awaits, for the idle timer and for the shutdown
  exiting,   \* a signal arrived
  loaded, enabled, up,   \* the launchd service; whether /health answers
  dog,       \* where the watchdog is
  crashes, failures      \* history, for the bounds

proxy == <<value, promise, active, idle, pc, waits, start, stop, exiting>>
service == <<loaded, enabled, up>>
vars == <<proxy, service, dog, crashes, failures>>

Stoppers == {"timer", "signal"}
Busy == {r \in Reqs : pc[r] # "none"}
Starting == {r \in Reqs : start[r] # "none"}
Stopping == {s \in Stoppers : stop[s] # "none"}

TypeOK ==
  /\ value \in {"STOPPED", "STARTING", "RUNNING"}
  /\ promise \in Reqs \cup {NoReq}
  /\ promise # NoReq <=> value = "STARTING"
  /\ active \in Nat /\ idle \in BOOLEAN
  /\ pc \in [Reqs -> {"none", "body", "joined", "forward", "stream", "hung"}]
  /\ waits \in [Reqs -> Reqs \cup {NoReq}]
  /\ start \in [Reqs -> {"none", "gate", "enable", "bootstrap", "poll"}]
  /\ stop \in [Stoppers -> {"none", "bootout", "disable"}]
  /\ exiting \in BOOLEAN
  /\ loaded \in BOOLEAN /\ enabled \in BOOLEAN /\ up \in BOOLEAN
  /\ dog \in {"watching", "reloading"}
  /\ crashes \in Nat /\ failures \in Nat

\* What a new process starts from.
Fresh ==
  /\ value' = "STOPPED" /\ promise' = NoReq /\ active' = 0 /\ idle' = TRUE
  /\ pc' = [r \in Reqs |-> "none"] /\ waits' = [r \in Reqs |-> NoReq]
  /\ start' = [r \in Reqs |-> "none"] /\ stop' = [s \in Stoppers |-> "none"]
  /\ exiting' = FALSE

Init ==
  /\ value = "STOPPED" /\ promise = NoReq /\ active = 0 /\ idle = TRUE
  /\ pc = [r \in Reqs |-> "none"] /\ waits = [r \in Reqs |-> NoReq]
  /\ start = [r \in Reqs |-> "none"] /\ stop = [s \in Stoppers |-> "none"]
  /\ exiting = FALSE
  /\ loaded = FALSE /\ enabled = FALSE /\ up = FALSE
  /\ dog = "watching" /\ crashes = 0 /\ failures = 0

\* A command that does nothing counts against the bound.
Fails == failures < MaxFailures /\ failures' = failures + 1

-----------------------------------------------------------------------------
(* handleRequest and startMlx.                                             *)

Arrive(r) ==
  /\ pc[r] = "none"
  /\ pc' = [pc EXCEPT ![r] = "body"]
  /\ active' = active + 1 /\ idle' = FALSE
  /\ UNCHANGED <<value, promise, waits, start, stop, exiting, service, dog, crashes, failures>>

\* Mutant: the slot is claimed after the memory gate, not before.
ClaimLater(r) == UNCHANGED <<value, promise>>

\* "Atomic claim": state.value and starting_promise before any await.
Claim(r) == value' = "STARTING" /\ promise' = r

\* The body is in: forward, join the start under way, or make one.
BodyRead(r) ==
  /\ pc[r] = "body"
  /\ IF value = "RUNNING"
     THEN /\ pc' = [pc EXCEPT ![r] = "forward"]
          /\ UNCHANGED <<value, promise, waits, start>>
     ELSE /\ pc' = [pc EXCEPT ![r] = "joined"]
          /\ IF promise # NoReq
             THEN /\ waits' = [waits EXCEPT ![r] = promise]
                  /\ UNCHANGED <<value, promise, start>>
             ELSE /\ waits' = [waits EXCEPT ![r] = r]
                  /\ start' = [start EXCEPT ![r] = "gate"]
                  /\ Claim(r)
  /\ UNCHANGED <<active, idle, stop, exiting, service, dog, crashes, failures>>

\* The request ends: the body or the connection failed, nothing came for ten
\* minutes, or the response is complete.
Reply(r) ==
  /\ pc[r] \in {"body", "forward", "stream"}
  /\ pc' = [pc EXCEPT ![r] = "none"]
  /\ active' = active - 1
  /\ UNCHANGED <<value, promise, idle, waits, start, stop, exiting, service, dog, crashes, failures>>

\* The backend's response begins; it is piped to the client.
Headers(r) ==
  /\ pc[r] = "forward" /\ up
  /\ pc' = [pc EXCEPT ![r] = "stream"]
  /\ UNCHANGED <<value, promise, active, idle, waits, start, stop, exiting, service, dog, crashes, failures>>

\* The backend is gone before its response ended: the response is aborted, of
\* which forwardToMlx hears neither an end, nor an error, nor a timeout.
BreaksOff(r) ==
  /\ pc[r] = "stream" /\ ~up
  /\ pc' = [pc EXCEPT ![r] = "hung"]
  /\ UNCHANGED <<value, promise, active, idle, waits, start, stop, exiting, service, dog, crashes, failures>>

Waiters(r) == {q \in Reqs : pc[q] = "joined" /\ waits[q] = r}

\* Mutant: only the request that made the promise hears of its failure.
RefuseFirst(r) ==
  /\ value' = "STOPPED" /\ promise' = NoReq
  /\ start' = [start EXCEPT ![r] = "none"]
  /\ pc' = [pc EXCEPT ![r] = "none"]
  /\ waits' = [waits EXCEPT ![r] = NoReq]
  /\ active' = active - 1

\* The promise is rejected: everybody who awaits it answers 503.
Refuse(r) ==
  /\ value' = "STOPPED" /\ promise' = NoReq
  /\ start' = [start EXCEPT ![r] = "none"]
  /\ pc' = [q \in Reqs |-> IF q \in Waiters(r) THEN "none" ELSE pc[q]]
  /\ waits' = [q \in Reqs |-> IF q \in Waiters(r) THEN NoReq ELSE waits[q]]
  /\ active' = active - Cardinality(Waiters(r))

Goto(r, l) ==
  /\ start' = [start EXCEPT ![r] = l]
  /\ UNCHANGED <<value, promise, active, pc, waits>>

Gate(r) ==
  /\ start[r] = "gate"
  /\ Goto(r, "enable") \/ Refuse(r)
  /\ UNCHANGED <<idle, stop, exiting, service, dog, crashes, failures>>

Enable(r) ==
  /\ start[r] = "enable"
  /\ \/ enabled' = TRUE /\ UNCHANGED failures
     \/ UNCHANGED enabled /\ Fails
  /\ Goto(r, "bootstrap")
  /\ UNCHANGED <<idle, stop, exiting, loaded, up, dog, crashes>>

Bootstrap(r) ==
  /\ start[r] = "bootstrap"
  /\ \/ /\ enabled /\ ~loaded
        /\ loaded' = TRUE
        /\ \/ Goto(r, "poll") /\ UNCHANGED failures
           \/ Refuse(r) /\ Fails
     \/ /\ ~enabled \/ loaded
        /\ Refuse(r)
        /\ UNCHANGED <<loaded, failures>>
  /\ UNCHANGED <<idle, stop, exiting, enabled, up, dog, crashes>>

\* /health answered in time: everybody who awaits the promise forwards.
Healthy(r) ==
  /\ start[r] = "poll" /\ up
  /\ value' = "RUNNING" /\ promise' = NoReq
  /\ start' = [start EXCEPT ![r] = "none"]
  /\ pc' = [q \in Reqs |-> IF q \in Waiters(r) THEN "forward" ELSE pc[q]]
  /\ waits' = [q \in Reqs |-> IF q \in Waiters(r) THEN NoReq ELSE waits[q]]
  /\ UNCHANGED <<active, idle, stop, exiting, service, dog, crashes, failures>>

\* WARMUP_MS_MAX passed: refused, and the service stays loaded.
WarmupTimeout(r) ==
  /\ start[r] = "poll"
  /\ Refuse(r)
  /\ UNCHANGED <<idle, stop, exiting, service, dog, crashes, failures>>

-----------------------------------------------------------------------------
(* stopMlx, the idle timer and the shutdown.                               *)

\* IDLE_MS since the last arrival.
IdleTime ==
  /\ ~idle
  /\ idle' = TRUE
  /\ UNCHANGED <<value, promise, active, pc, waits, start, stop, exiting, service, dog, crashes, failures>>

\* Mutant: STOPPED is set before the bootout is awaited.
IdleCheckEarly ==
  /\ value = "RUNNING" /\ active = 0 /\ idle
  /\ stop["timer"] = "none"
  /\ stop' = [stop EXCEPT !["timer"] = "bootout"]
  /\ value' = "STOPPED"
  /\ UNCHANGED <<promise, active, idle, pc, waits, start, exiting, service, dog, crashes, failures>>

\* The interval callback; its 60 seconds outlast a whole stop.
IdleCheck ==
  /\ value = "RUNNING" /\ active = 0 /\ idle
  /\ stop["timer"] = "none"
  /\ stop' = [stop EXCEPT !["timer"] = "bootout"]
  /\ UNCHANGED <<value, promise, active, idle, pc, waits, start, exiting, service, dog, crashes, failures>>

Bootout(s) ==
  /\ stop[s] = "bootout"
  /\ \/ loaded' = FALSE /\ up' = FALSE /\ UNCHANGED failures
     \/ UNCHANGED <<loaded, up>> /\ Fails
  /\ stop' = [stop EXCEPT ![s] = "disable"]
  /\ UNCHANGED <<value, promise, active, idle, pc, waits, start, exiting, enabled, dog, crashes>>

\* Mutant: the state is not set back.
StoppedForgotten(s) ==
  /\ stop' = [stop EXCEPT ![s] = "none"]
  /\ UNCHANGED <<value, promise, active, idle, pc, waits, start, exiting, crashes>>

\* The stop is over; that of a shutdown ends the process, and launchd
\* (KeepAlive) starts another.
Stopped(s) ==
  IF s = "signal"
  THEN Fresh /\ crashes' = crashes + 1
  ELSE /\ value' = "STOPPED"
       /\ stop' = [stop EXCEPT ![s] = "none"]
       /\ UNCHANGED <<promise, active, idle, pc, waits, start, exiting, crashes>>

Disable(s) ==
  /\ stop[s] = "disable"
  /\ \/ enabled' = FALSE /\ UNCHANGED failures
     \/ UNCHANGED enabled /\ Fails
  /\ Stopped(s)
  /\ UNCHANGED <<loaded, up, dog>>

\* SIGTERM or SIGINT with the backend running and nothing to answer; the other
\* cases exit at once, see Exit.
Shutdown ==
  /\ crashes < MaxCrashes
  /\ value = "RUNNING" /\ active = 0 /\ ~exiting
  /\ exiting' = TRUE
  /\ stop' = [stop EXCEPT !["signal"] = "bootout"]
  /\ UNCHANGED <<value, promise, active, idle, pc, waits, start, service, dog, crashes, failures>>

\* A crash, an exit, the forced exit of a shutdown. The launchctl command under
\* way is a process of its own and may still do its work.
Exit ==
  /\ crashes < MaxCrashes
  /\ crashes' = crashes + 1
  /\ Fresh
  /\ \/ UNCHANGED service
     \/ /\ \E r \in Reqs : start[r] = "bootstrap"
        /\ enabled /\ ~loaded
        /\ loaded' = TRUE /\ UNCHANGED <<enabled, up>>
     \/ /\ \E s \in Stoppers : stop[s] = "bootout"
        /\ loaded' = FALSE /\ up' = FALSE /\ UNCHANGED enabled
  /\ UNCHANGED <<dog, failures>>

-----------------------------------------------------------------------------
(* The backend and the watchdog (external).                                *)

BackendUp ==
  /\ loaded /\ ~up
  /\ up' = TRUE
  /\ UNCHANGED <<proxy, loaded, enabled, dog, crashes, failures>>

BackendDown ==
  /\ up /\ Fails
  /\ up' = FALSE
  /\ UNCHANGED <<proxy, loaded, enabled, dog, crashes>>

\* No process found, or one that hangs, leaks or served its share of calls.
DogUnloads ==
  /\ Watchdog /\ dog = "watching" /\ enabled
  /\ loaded' = FALSE /\ up' = FALSE
  /\ dog' = "reloading"
  /\ Fails
  /\ UNCHANGED <<proxy, enabled, crashes>>

DogLoads ==
  /\ dog = "reloading"
  /\ loaded' = (loaded \/ enabled)
  /\ dog' = "watching"
  /\ UNCHANGED <<proxy, enabled, up, crashes, failures>>

Handler(r) ==
  BodyRead(r) \/ Reply(r) \/ Headers(r) \/ BreaksOff(r) \/ Gate(r) \/ Enable(r) \/ Bootstrap(r) \/ Healthy(r) \/ WarmupTimeout(r)

Next ==
  \/ \E r \in Reqs : Arrive(r) \/ Handler(r)
  \/ IdleTime \/ IdleCheck
  \/ \E s \in Stoppers : Bootout(s) \/ Disable(s)
  \/ Shutdown \/ Exit
  \/ BackendUp \/ BackendDown \/ DogUnloads \/ DogLoads

Spec == Init /\ [][Next]_vars

\* Commands and probes answer or time out, time passes and the interval fires;
\* nothing obliges a client to come, a process to end or a backend to start.
FairSpec ==
  /\ Spec
  /\ \A r \in Reqs : WF_vars(Handler(r))
  /\ WF_vars(IdleTime) /\ WF_vars(IdleCheck)
  /\ \A s \in Stoppers : WF_vars(Bootout(s)) /\ WF_vars(Disable(s))

-----------------------------------------------------------------------------
(* Properties.                                                             *)

\* I2, "During STARTING, NO new bootstrap calls": however requests arrive, at
\* most one start is under way, and it is the one new requests join.
OneStart == \A r \in Starting : value = "STARTING" /\ promise = r

\* Until a signal arrives a start and a stop never overlap, so no disable can
\* undo the enable of a later start.
StopsAlone == ~exiting => (Starting = {} \/ Stopping = {})

\* The idle timer trusts the counter of I3, so the counter must be the number
\* of handlers not yet over, through every refusal, error and reply.
CountIsExact == active = Cardinality(Busy)

\* Every request that arrives is answered, or dies with the process; the only
\* other end is a response that broke off.
Answered == \A r \in Reqs : pc[r] # "none" ~> pc[r] \in {"none", "hung"}

\* Once no handler is at work the proxy is not RUNNING for ever.
UnloadsWhenIdle == <>[](Busy = {}) => []<>(value # "RUNNING")

\* "Unloads MLX generate after configurable idle period": once clients stay
\* away, whatever became of their requests, the proxy is not RUNNING for ever.
UnloadsAfterQuiet ==
  <>[](\A r \in Reqs : pc[r] \in {"none", "hung"}) => []<>(value # "RUNNING")

\* "Kill proxy mid-request: expect launchd restart, next request works": after
\* a restart of the proxy no start is refused while the backend answers.
NextRequestWorks ==
  [][\A r \in Reqs : crashes > 0 /\ Bootstrap(r) /\ value' = "STOPPED" => ~up]_vars
=============================================================================
