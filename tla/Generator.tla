------------------------------ MODULE Generator -----------------------------
(***************************************************************************)
(* The server's access to the local models (scripts/vcontext-server.js     *)
(* 5134-5242 and 5276-5461).                                               *)
(*                                                                         *)
(* mlxGenerate queues a call; one loop, _mlxDrain, serves the queue by     *)
(* priority.  For each call it takes the machine-wide file lock (module    *)
(* MlxLock; here only who has it), then the in-process mutex it shares     *)
(* with the embedding requests, then sends the request, up to four times   *)
(* with pauses.  The answer, an error and a timeout settle a request; a    *)
(* response that breaks off after its headers settles nothing.             *)
(***************************************************************************)
EXTENDS Integers, Sequences, FiniteSets, SequencesExt

CONSTANTS
    Calls,          \* callers of mlxGenerate; each has one call at a time
    Top,            \* those that pass priority 0
    Embeds,         \* callers of mlxEmbed
    MaxTries,       \* delays.length + 1
    MaxTroubles     \* bound: answers that are errors, responses broken off

ASSUME GeneratorAssumption ==
    /\ Top \subseteq Calls
    /\ Calls \cap Embeds = {}
    /\ MaxTries \in Nat \ {0} /\ MaxTroubles \in Nat

VARIABLES
    queue,      \* _mlxQueue
    running,    \* _mlxRunning
    call,       \* each call: "idle", "queued", "lock", "mutex", "sent", "delay",
                \* "hung", and once settled "done" or "failed"
    tries,      \* requests its item has sent
    embed,      \* each embedding: "idle", "mutex", "sent", "hung"
    chain,      \* who has the in-process mutex, and who waits for it
    file,       \* who has the file lock: "free", "server", "other"
    late,       \* the server has held it for 25 minutes
    troubles    \* how many so far (the bound)

vars == <<queue, running, call, tries, embed, chain, file, late, troubles>>

Init ==
    /\ queue = <<>> /\ running = FALSE
    /\ call = [c \in Calls |-> "idle"] /\ tries = [c \in Calls |-> 0]
    /\ embed = [e \in Embeds |-> "idle"]
    /\ chain = <<>>
    /\ file = "free" /\ late = FALSE
    /\ troubles = 0

Trouble == troubles < MaxTroubles /\ troubles' = troubles + 1
Priority(c) == IF c \in Top THEN 0 ELSE 1

-----------------------------------------------------------------------------
(* The queue and its loop *)

\* The stable sort by priority: the items at j and i of q are served in order.
Precedes(q, j, i) ==
    \/ Priority(q[j]) < Priority(q[i])
    \/ Priority(q[j]) = Priority(q[i]) /\ j < i

Place(q, i) == Cardinality({j \in DOMAIN q : Precedes(q, j, i)}) + 1

ByPriority(q) == [n \in DOMAIN q |-> q[CHOOSE i \in DOMAIN q : Place(q, i) = n]]

\* The loop goes on with queue q and calls cs: it begins the first, or ends.
GoOn(q, cs) ==
    IF q = <<>>
    THEN /\ queue' = <<>> /\ running' = FALSE /\ call' = cs
         /\ UNCHANGED tries
    ELSE LET sorted == ByPriority(q)
             c      == Head(sorted)
         IN  /\ queue' = Tail(sorted) /\ running' = TRUE
             /\ call' = [cs EXCEPT ![c] = "lock"]
             /\ tries' = [tries EXCEPT ![c] = 0]

Call(c) ==
    /\ call[c] \in {"idle", "done", "failed"}
    /\ IF running
       THEN /\ queue' = Append(queue, c)
            /\ call' = [call EXCEPT ![c] = "queued"]
            /\ UNCHANGED <<running, tries>>
       ELSE GoOn(Append(queue, c), [call EXCEPT ![c] = "queued"])
    /\ UNCHANGED <<embed, chain, file, late, troubles>>

\* The item of c is settled, its lock released if it is still the server's.
Settle(c, as) ==
    /\ file' = IF file = "server" THEN "free" ELSE file
    /\ late' = FALSE
    /\ GoOn(queue, [call EXCEPT ![c] = as])

LockTaken(c) ==
    /\ call[c] = "lock" /\ file = "free"
    /\ file' = "server"
    /\ call' = [call EXCEPT ![c] = "mutex"]
    /\ chain' = Append(chain, c)
    /\ UNCHANGED <<queue, running, tries, embed, late, troubles>>

\* Mutant: a lock that was not got does not keep the item from running.
LockBusyRunsOn(c) ==
    /\ call[c] = "lock" /\ file = "other"
    /\ call' = [call EXCEPT ![c] = "mutex"]
    /\ chain' = Append(chain, c)
    /\ UNCHANGED <<queue, running, tries, embed, file, late, troubles>>

\* Mutant: a busy lock ends the loop instead of the item's turn.
LockBusyReturns(c) ==
    /\ call[c] = "lock" /\ file = "other"
    /\ call' = [call EXCEPT ![c] = "failed"]
    /\ UNCHANGED <<queue, running, tries, embed, chain, file, late, troubles>>

\* Someone else kept the lock for five minutes.
LockBusy(c) ==
    /\ call[c] = "lock" /\ file = "other"
    /\ GoOn(queue, [call EXCEPT ![c] = "failed"])
    /\ UNCHANGED <<embed, chain, file, late, troubles>>

-----------------------------------------------------------------------------
(* A request under the mutex: mlxGenerateOnce, and mlxEmbed *)

First(x) == chain # <<>> /\ Head(chain) = x

Send(c) ==
    /\ call[c] = "mutex" /\ First(c)
    /\ call' = [call EXCEPT ![c] = "sent"]
    /\ tries' = [tries EXCEPT ![c] = @ + 1]
    /\ UNCHANGED <<queue, running, embed, chain, file, late, troubles>>

Answered(c) ==
    /\ call[c] = "sent"
    /\ chain' = Tail(chain)
    /\ Settle(c, "done")
    /\ UNCHANGED <<embed, troubles>>

\* An error that a pause and another request may cure: 503, connection
\* refused or reset.  The file lock is kept over the pause, the mutex is not.
Transient(c) ==
    /\ call[c] = "sent"
    /\ Trouble
    /\ chain' = Tail(chain)
    /\ IF tries[c] < MaxTries
       THEN /\ call' = [call EXCEPT ![c] = "delay"]
            /\ UNCHANGED <<queue, running, tries, file, late>>
       ELSE Settle(c, "failed")
    /\ UNCHANGED embed

\* Mutant: after the pause the request is sent without the mutex.
PauseEndsSends(c) ==
    /\ call[c] = "delay"
    /\ call' = [call EXCEPT ![c] = "sent"]
    /\ chain' = <<c>> \o chain
    /\ UNCHANGED <<queue, running, tries, embed, file, late, troubles>>

PauseEnds(c) ==
    /\ call[c] = "delay"
    /\ call' = [call EXCEPT ![c] = "mutex"]
    /\ chain' = Append(chain, c)
    /\ UNCHANGED <<queue, running, tries, embed, file, late, troubles>>

\* Another error, or ten minutes of silence.
Fails(c) ==
    /\ call[c] = "sent"
    /\ Trouble
    /\ chain' = Tail(chain)
    /\ Settle(c, "failed")
    /\ UNCHANGED embed

\* The response breaks off: neither 'end' nor the request's 'error' or
\* 'timeout' follows.
BreaksOff(c) ==
    /\ call[c] = "sent"
    /\ Trouble
    /\ call' = [call EXCEPT ![c] = "hung"]
    /\ UNCHANGED <<queue, running, tries, embed, chain, file, late>>

EmbedCall(e) ==
    /\ embed[e] = "idle"
    /\ embed' = [embed EXCEPT ![e] = "mutex"]
    /\ chain' = Append(chain, e)
    /\ UNCHANGED <<queue, running, call, tries, file, late, troubles>>

EmbedSend(e) ==
    /\ embed[e] = "mutex" /\ First(e)
    /\ embed' = [embed EXCEPT ![e] = "sent"]
    /\ UNCHANGED <<queue, running, call, tries, chain, file, late, troubles>>

\* An answer, an error or a timeout.
EmbedSettles(e) ==
    /\ embed[e] = "sent"
    /\ embed' = [embed EXCEPT ![e] = "idle"]
    /\ chain' = Tail(chain)
    /\ UNCHANGED <<queue, running, call, tries, file, late, troubles>>

EmbedBreaksOff(e) ==
    /\ embed[e] = "sent"
    /\ Trouble
    /\ embed' = [embed EXCEPT ![e] = "hung"]
    /\ UNCHANGED <<queue, running, call, tries, chain, file, late>>

-----------------------------------------------------------------------------
(* Other users of the file lock, and the end of the server *)

OtherTakes ==
    /\ file = "free" \/ (file = "server" /\ late)
    /\ file' = "other"
    /\ UNCHANGED <<queue, running, call, tries, embed, chain, late, troubles>>

\* It releases the lock, or died and the lock is cleared.
OtherLeaves ==
    /\ file = "other"
    /\ file' = "free"
    /\ UNCHANGED <<queue, running, call, tries, embed, chain, late, troubles>>

\* The file is 25 minutes old.  Nothing refreshes its mtime, and no step of the
\* item is bounded by it: four requests of ten minutes, the pauses, and the
\* embeddings the mutex makes it wait behind (60 seconds each) may take longer.
GetsLate ==
    /\ file = "server"
    /\ late' = TRUE
    /\ UNCHANGED <<queue, running, call, tries, embed, chain, file, troubles>>

\* Everything here is memory but the file, which names a process now dead.
Restart ==
    /\ Trouble
    /\ queue' = <<>> /\ running' = FALSE
    /\ call' = [c \in Calls |-> IF call[c] \in {"idle", "done", "failed"}
                                THEN call[c] ELSE "idle"]
    /\ tries' = [c \in Calls |-> 0]
    /\ embed' = [e \in Embeds |-> "idle"]
    /\ chain' = <<>>
    /\ file' = IF file = "server" THEN "free" ELSE file
    /\ late' = FALSE

Serve(c) == LockTaken(c) \/ LockBusy(c) \/ Send(c) \/ PauseEnds(c)
Settling(c) == Answered(c) \/ Transient(c) \/ Fails(c) \/ BreaksOff(c)

Next ==
    \/ \E c \in Calls : Call(c) \/ Serve(c) \/ Settling(c)
    \/ \E e \in Embeds : EmbedCall(e) \/ EmbedSend(e) \/ EmbedSettles(e) \/ EmbedBreaksOff(e)
    \/ OtherTakes \/ OtherLeaves \/ GetsLate \/ Restart

\* The loop and the mutex go on, requests have timeouts, a foreign holder
\* leaves or the wait for it ends.
Fairness ==
    /\ \A c \in Calls : WF_vars(Serve(c)) /\ WF_vars(Settling(c))
    /\ \A c \in Calls : WF_vars(LockTaken(c) \/ LockBusy(c))
    /\ \A e \in Embeds : WF_vars(EmbedSend(e)) /\ WF_vars(EmbedSettles(e) \/ EmbedBreaksOff(e))

Spec == Init /\ [][Next]_vars /\ Fairness

-----------------------------------------------------------------------------
(***************************************************************************)
(* Properties                                                              *)
(***************************************************************************)

Served == {c \in Calls : call[c] \in {"lock", "mutex", "sent", "delay", "hung"}}
Waiting(c) == call[c] \notin {"idle", "done", "failed"}
Hung == \/ \E c \in Calls : call[c] = "hung"
        \/ \E e \in Embeds : embed[e] = "hung"
OnTheWire == {c \in Calls : call[c] \in {"sent", "hung"}}
             \cup {e \in Embeds : embed[e] \in {"sent", "hung"}}

TypeOK ==
    /\ queue \in Seq(Calls) /\ running \in BOOLEAN
    /\ call \in [Calls -> {"idle", "queued", "lock", "mutex", "sent", "delay",
                           "hung", "done", "failed"}]
    /\ tries \in [Calls -> 0..MaxTries]
    /\ embed \in [Embeds -> {"idle", "mutex", "sent", "hung"}]
    /\ chain \in Seq(Calls \cup Embeds)
    /\ file \in {"free", "server", "other"} /\ late \in BOOLEAN
    /\ troubles \in 0..MaxTroubles

\* "only ONE mlxGenerate call can be in flight server-wide" (5360), the mutex
\* "prevents GPU contention" (5136): one request at a time, over pauses,
\* retries and embeddings that come in between, and no call is dropped: the
\* queue and the mutex know exactly the calls that wait.
OneAtATime ==
    /\ Cardinality(OnTheWire) <= 1 /\ Cardinality(Served) <= 1
    /\ running <=> Served # {}
    /\ ToSet(queue) = {c \in Calls : call[c] = "queued"}
    /\ IsInjective(queue) /\ IsInjective(chain)

UnderWay(c) == call[c] \in {"mutex", "sent", "delay", "hung"}

\* The file lock keeps the server and other processes apart: another one has
\* it while an item of the server is under way - over retries, pauses and waits
\* for the mutex - only if that item kept it for 25 minutes; and what overlaps
\* is that item alone, the next one waits for the lock again.
ApartFromOthers == file = "other" /\ ~late => \A c \in Calls : ~UnderWay(c)

\* "Serialize MLX generate access across processes" (aios-mlx-lock.js:3),
\* without that excuse.
Apart == file = "other" => \A c \in Calls : ~UnderWay(c)

\* "High-priority items jump ahead in the queue" (5365): an item of low
\* priority is begun only when no item of high priority waits.
TopFirst ==
    [][\A c \in Calls \ Top : c \in Served' /\ c \notin Served =>
          \A t \in Top : call[t] # "queued"]_vars

\* A call of high priority is settled - with an answer or an error - whatever
\* the others do, or a response it waits behind has broken off.  So is one of
\* low priority, when calls of high priority cease; there is no ageing, and
\* while they go on it may wait for ever.
Settles ==
    /\ \A c \in Top : Waiting(c) ~> ~Waiting(c) \/ Hung
    /\ (<>[] \A t \in Top : ~Waiting(t)) =>
          \A c \in Calls \ Top : Waiting(c) ~> ~Waiting(c) \/ Hung

\* Every call is settled.
EverySettles == \A c \in Calls : Waiting(c) ~> ~Waiting(c)
=============================================================================
