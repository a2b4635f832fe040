----------------------------- MODULE HookQueue ------------------------------
(***************************************************************************)
(* The offline queue of the hooks, and the gate that reads what went       *)
(* through it (scripts/vcontext-hooks.js 58-143, hooks-gate.mts,           *)
(* vcontext-drain-deadletter.sh).                                          *)
(*                                                                         *)
(* Every hook is a process of its own.  It posts its entry to the server;  *)
(* an entry the server did not answer is appended to a queue file.         *)
(* Drainers - started by the wrapper when the server is up, and by every   *)
(* maintenance cycle, and nothing keeps them apart - take the file's lines *)
(* into memory, remove the file, and post the lines through the same       *)
(* post(), which queues what fails once more.                              *)
(*                                                                         *)
(* The entries of Usage record that a session consulted the skill routing. *)
(* Before a tool writes, the gate asks the server for that record.         *)
(***************************************************************************)
EXTENDS Integers, Sequences, FiniteSets

CONSTANTS
    Entries,        \* what the hooks record
    Usage,          \* the entries that are a session's skill-usage record
    Drainers,       \* processes running drain-queue
    MaxAttempts,    \* MAX_DRAIN_ATTEMPTS
    MaxFails,       \* bound: posts that get no answer
    MaxFaults       \* bound: refusals by the server and drainers killed

ASSUME HookQueueAssumption ==
    /\ Usage \subseteq Entries
    /\ MaxAttempts \in Nat \ {0}
    /\ MaxFails \in Nat /\ MaxFaults \in Nat

VARIABLES
    sent,       \* entries whose hook has run
    store,      \* entries the server has
    queue,      \* the queue file: its lines, each an entry and its attempts
    staging,    \* the entries in the .draining file
    dead,       \* the dead-letter file
    replayed,   \* lines of it the replay script is past (its progress file)
    drain,      \* each drainer: where it is, its lines, what it will write back
    spent,      \* failed posts and faults so far (the bounds)
    cached,     \* sessions whose flag file says the routing was consulted
    young,      \* sessions within the grace of their first gated write
    verdict     \* what the gate last said to each session

files == <<queue, staging, dead, replayed>>
gate  == <<cached, young, verdict>>
vars  == <<sent, store, files, drain, spent, gate>>

Line(e, n) == [entry |-> e, attempts |-> n]
EntriesOf(lines) == {lines[i].entry : i \in DOMAIN lines}
Idle == [at |-> "idle", lines |-> <<>>, back |-> <<>>]

Init ==
    /\ sent = {} /\ store = {}
    /\ queue = <<>> /\ staging = {} /\ dead = <<>> /\ replayed = 0
    /\ drain = [d \in Drainers |-> Idle]
    /\ spent = [fails |-> 0, faults |-> 0]
    /\ cached = {} /\ young = {}
    /\ verdict = [s \in Usage |-> "none"]

Spend(what, max) ==
    /\ spent[what] < max
    /\ spent' = [spent EXCEPT ![what] = @ + 1]

-----------------------------------------------------------------------------
(* post().  Its outcomes are ok - whatever HTTP status the answer has - and *)
(* queued.  A request that timed out is destroyed, which also reports an    *)
(* error: its entry is queued twice, and the server may have stored it.     *)

Outcomes(e) ==
    {[ok |-> TRUE, stored |-> TRUE, copies |-> 0],
     [ok |-> TRUE, stored |-> FALSE, copies |-> 0]}       \* an error status
    \cup {[ok |-> FALSE, stored |-> FALSE, copies |-> 1]} \* no connection
    \cup {[ok |-> FALSE, stored |-> b, copies |-> 2] : b \in BOOLEAN}

\* What a post of e with outcome o does to the store, and its price.
Posted(e, o) ==
    /\ store' = IF o.stored THEN store \cup {e} ELSE store
    /\ CASE ~o.ok             -> Spend("fails", MaxFails)
         [] o.ok /\ ~o.stored -> Spend("faults", MaxFaults)
         [] OTHER             -> UNCHANGED spent

Fresh(e, o) == [i \in 1..o.copies |-> Line(e, 0)]

Record(e) ==
    /\ e \notin sent
    /\ sent' = sent \cup {e}
    /\ \E o \in Outcomes(e) : Posted(e, o) /\ queue' = queue \o Fresh(e, o)
    /\ UNCHANGED <<staging, dead, replayed, drain, gate>>

-----------------------------------------------------------------------------
(* cmdDrainQueue *)

\* Mutant: a drainer leaves the queue alone while there is a staging file.
ReadUnlessStaged(d) ==
    /\ drain[d].at = "idle" /\ queue # <<>> /\ staging = {}
    /\ drain' = [drain EXCEPT ![d] = [at |-> "unlink", lines |-> queue, back |-> <<>>]]
    /\ UNCHANGED <<sent, store, files, spent, gate>>

Read(d) ==
    /\ drain[d].at = "idle" /\ queue # <<>>
    /\ drain' = [drain EXCEPT ![d] = [at |-> "unlink", lines |-> queue, back |-> <<>>]]
    /\ UNCHANGED <<sent, store, files, spent, gate>>

\* The staging file gets what was read, and the queue file goes, with
\* whatever was appended to it since.
Unlink(d) ==
    /\ drain[d].at = "unlink"
    /\ staging' = EntriesOf(drain[d].lines)
    /\ queue' = <<>>
    /\ drain' = [drain EXCEPT ![d].at = "post"]
    /\ UNCHANGED <<sent, store, dead, replayed, spent, gate>>

\* Mutant: a line that failed is dropped when it was tried before.
PostLineOnce(d) ==
    /\ drain[d].at = "post" /\ drain[d].lines # <<>>
    /\ LET line == Head(drain[d].lines)
       IN  \E o \in Outcomes(line.entry) :
           /\ Posted(line.entry, o)
           /\ queue' = queue
           /\ drain' = [drain EXCEPT ![d].lines = Tail(@)]
    /\ UNCHANGED <<sent, staging, dead, replayed, gate>>

PostLine(d) ==
    /\ drain[d].at = "post" /\ drain[d].lines # <<>>
    /\ LET line  == Head(drain[d].lines)
           tries == line.attempts + 1
       IN  \E o \in Outcomes(line.entry) :
           /\ Posted(line.entry, o)
           /\ queue' = queue \o Fresh(line.entry, o)
           /\ dead' = IF ~o.ok /\ tries >= MaxAttempts
                      THEN Append(dead, line.entry) ELSE dead
           /\ drain' = [drain EXCEPT ![d].lines = Tail(@),
                                     ![d].back  = IF ~o.ok /\ tries < MaxAttempts
                                                  THEN Append(@, Line(line.entry, tries))
                                                  ELSE @]
    /\ UNCHANGED <<sent, staging, replayed, gate>>

WriteBack(d) ==
    /\ drain[d].at = "post" /\ drain[d].lines = <<>>
    /\ queue' = queue \o drain[d].back
    /\ staging' = {}
    /\ drain' = [drain EXCEPT ![d] = Idle]
    /\ UNCHANGED <<sent, store, dead, replayed, spent, gate>>

\* The process is killed; nothing ever reads the staging file it leaves.
Killed(d) ==
    /\ drain[d] # Idle
    /\ Spend("faults", MaxFaults)
    /\ drain' = [drain EXCEPT ![d] = Idle]
    /\ UNCHANGED <<sent, store, files, gate>>

\* vcontext-drain-deadletter.sh, started by hand: a line that fails is
\* passed like one that succeeds.
ReplayLine ==
    /\ replayed < Len(dead)
    /\ replayed' = replayed + 1
    /\ \/ store' = store \cup {dead[replayed + 1]} /\ UNCHANGED spent
       \/ Spend("fails", MaxFails) /\ UNCHANGED store
    /\ UNCHANGED <<sent, queue, staging, dead, drain, gate>>

-----------------------------------------------------------------------------
(* hooks-gate.mts: session s is about to write a file of the system. *)

\* Mutant: "not routed" is remembered like "routed" is.
ToolRemembers(s) ==
    /\ verdict' = [verdict EXCEPT ![s] =
          IF @ = "none" \/ s \in young \/ s \in cached \/ (@ # "blocked" /\ s \in store)
          THEN "allowed" ELSE "blocked"]
    /\ young' = IF verdict[s] = "none" THEN young \cup {s} ELSE young
    /\ UNCHANGED <<sent, store, files, drain, spent, cached>>

Tool(s) ==
    /\ \/ /\ verdict[s] = "none"                    \* first seen: 30 s of grace
          /\ young' = young \cup {s}
          /\ verdict' = [verdict EXCEPT ![s] = "allowed"]
          /\ UNCHANGED <<cached, spent>>
       \/ /\ verdict[s] # "none" /\ (s \in young \/ s \in cached)
          /\ verdict' = [verdict EXCEPT ![s] = "allowed"]
          /\ UNCHANGED <<cached, young, spent>>
       \/ /\ verdict[s] # "none" /\ s \notin young \cup cached
          /\ \/ /\ verdict' = [verdict EXCEPT ![s] =
                                  IF s \in store THEN "allowed" ELSE "blocked"]
                /\ cached' = IF s \in store THEN cached \cup {s} ELSE cached
                /\ UNCHANGED spent
             \/ /\ Spend("fails", MaxFails)         \* no answer: fail open
                /\ verdict' = [verdict EXCEPT ![s] = "allowed"]
                /\ UNCHANGED cached
          /\ UNCHANGED young
    /\ UNCHANGED <<sent, store, files, drain>>

GraceEnds(s) ==
    /\ s \in young
    /\ young' = young \ {s}
    /\ UNCHANGED <<sent, store, files, drain, spent, cached, verdict>>

FlagExpires(s) ==
    /\ s \in cached
    /\ cached' = cached \ {s}
    /\ UNCHANGED <<sent, store, files, drain, spent, young, verdict>>

Next ==
    \/ \E e \in Entries : Record(e)
    \/ \E d \in Drainers : Read(d) \/ Unlink(d) \/ PostLine(d) \/ WriteBack(d) \/ Killed(d)
    \/ ReplayLine
    \/ \E s \in Usage : Tool(s) \/ GraceEnds(s) \/ FlagExpires(s)

\* Drains recur, and a drainer that runs goes on; a session tries again.
Fairness ==
    /\ \A d \in Drainers : /\ WF_vars(Read(d)) /\ WF_vars(Unlink(d))
                           /\ WF_vars(PostLine(d)) /\ WF_vars(WriteBack(d))
    /\ \A s \in Usage : WF_vars(Tool(s))

Spec == Init /\ [][Next]_vars /\ Fairness

-----------------------------------------------------------------------------
(***************************************************************************)
(* Properties                                                              *)
(***************************************************************************)

InDrain(d) == EntriesOf(drain[d].lines) \cup EntriesOf(drain[d].back)
Waiting == EntriesOf(queue) \cup UNION {InDrain(d) : d \in Drainers}
Aside   == {dead[i] : i \in replayed + 1..Len(dead)}
Kept    == store \cup Waiting \cup Aside

TypeOK ==
    /\ sent \subseteq Entries /\ store \subseteq sent /\ staging \subseteq sent
    /\ queue \in Seq([entry : sent, attempts : 0..MaxAttempts - 1])
    /\ dead \in Seq(sent) /\ replayed \in 0..Len(dead)
    /\ \A d \in Drainers :
          /\ drain[d].at \in {"idle", "unlink", "post"}
          /\ drain[d].lines \in Seq([entry : sent, attempts : 0..MaxAttempts - 1])
          /\ drain[d].back \in Seq([entry : sent, attempts : 1..MaxAttempts - 1])
    /\ cached \subseteq store \cap Usage /\ young \subseteq Usage
    /\ verdict \in [Usage -> {"none", "allowed", "blocked"}]

\* "no AI context is lost during zero-downtime updates" (27): while the server
\* refuses nothing and no drainer is killed, an entry goes missing only if it
\* was appended to the queue file between a drainer's read and its unlink,
\* or, put aside, fails once more when it is replayed.
Appended(d) == EntriesOf(queue) \ EntriesOf(drain[d].lines)

LostOnlyBetweenReadAndUnlink ==
    [][\A e \in sent : e \in Kept /\ e \notin Kept' =>
          \/ spent'.faults > spent.faults
          \/ \E d \in Drainers : Unlink(d) /\ e \in Appended(d)
          \/ ReplayLine]_vars

StatusOf(e) ==
    CASE e \notin sent -> "unsent"
      [] e \in store -> "stored"
      [] e \in sent /\ e \notin store /\ e \in Waiting -> "waiting"
      [] e \in Aside /\ e \notin store \cup Waiting -> "aside"
      [] OTHER -> "lost"

Promise == INSTANCE Delivery WITH status <- [e \in Entries |-> StatusOf(e)]

\* The promise of Delivery: stored for good, lost for good, nothing waits
\* for ever - not even with drains that overlap, timeouts that queue an entry
\* twice and failing posts that queue it again.
Delivers == Promise!Spec

\* "The gate must never make the session worse than no-gate" (1182): a session
\* whose routing was recorded is let through in the end, unless the record was
\* lost or put aside.
RoutedGetsThrough ==
    \A s \in Usage : s \in sent /\ verdict[s] = "blocked" ~>
        verdict[s] = "allowed" \/ StatusOf(s) \in {"aside", "lost"}

\* A session that consulted the routing is never blocked.  It is, while the
\* record of it waits in the queue file.
RoutedNeverBlocked ==
    [][\A s \in Usage : s \in sent /\ verdict'[s] # verdict[s] =>
          verdict'[s] # "blocked"]_vars

\* "Dead-letter - give up retrying this one" (119): what was put aside is not
\* also in the queue file.
GivesUp == \A d \in Drainers : drain[d] = Idle =>
              Aside \cap EntriesOf(queue) = {}
=============================================================================
