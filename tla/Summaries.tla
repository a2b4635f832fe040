------------------------------ MODULE Summaries -----------------------------
(***************************************************************************)
(* The summary loops of the server (scripts/vcontext-server.js 3967-4327), *)
(* the admin triggers (7528-7565), and what starts them (5245-5274,        *)
(* 3656-3669, 3725-3727, 8482-8493).                                       *)
(*                                                                         *)
(* Every five minutes the L1 loop summarises ten minutes of entries, every *)
(* half hour the L2 loop yesterday's L1 summaries, every hour the L3 loop  *)
(* last week's L2 summaries.  A run looks whether its summary is there,    *)
(* reads its sources, awaits the generator, and inserts a row.  The        *)
(* triggers run the same code beside the loops.                            *)
(*                                                                         *)
(* A unit of time is the five minutes between two looks of the L1 loop.    *)
(***************************************************************************)
EXTENDS Integers, Sequences, FiniteSets

CONSTANTS
    Triggers,       \* runs started by /admin/trigger-l2-summary and -l3-
    Window,         \* CHUNK_SUMMARY_WINDOW_MS
    Day,            \* units in a day
    Week,           \* units in a week
    RowLimit,       \* rows the query for a day or a week returns: 200 and 14
    Room,           \* summaries that fit in a prompt, however long they are: its
                    \* text is cut at 12,000 and 14,000 characters
    Every,          \* units between two looks of each loop
    MaxTime,        \* bound of the clock
    MaxWait,        \* bound: units a run awaits the model
    MaxEntries,     \* bound: entries stored
    MaxTroubles     \* bound: failed generations, restarts, probes failed

Loops == {"l1", "l2", "l3"}

SummariesAssumption ==
    /\ Triggers \cap Loops = {}
    /\ Window \in Nat \ {0} /\ Day \in Nat \ {0} /\ Week \in Nat \ {0}
    /\ RowLimit \in [{"l2", "l3"} -> Nat] /\ Room \in [{"l2", "l3"} -> Nat \ {0}]
    /\ \A level \in {"l2", "l3"} : Room[level] <= RowLimit[level]
    /\ Every \in [Loops -> Nat \ {0}]
    /\ MaxTime \in Nat /\ MaxWait \in Nat /\ MaxEntries \in Nat /\ MaxTroubles \in Nat

VARIABLES
    now,        \* the clock
    raw,        \* when entries were stored
    chunks,     \* the chunk-summary rows, as they were inserted
    job,        \* each run: idle, or what it will insert
    next,       \* when each loop looks again
    started,    \* loops that run ("discovery" among them)
    up,         \* the generator answers probes
    available,  \* mlxGenerateAvailable
    streak,     \* _mlxGenFailStreak
    troubles    \* how many so far (the bound)

rows  == <<raw, chunks>>
probe == <<started, up, available, streak>>
vars  == <<now, rows, job, next, probe, troubles>>

Jobs == Loops \cup Triggers
Idle == [level |-> "none"]
Trouble == troubles < MaxTroubles /\ troubles' = troubles + 1

Init ==
    /\ now = 0 /\ raw = {} /\ chunks = <<>>
    /\ job = [j \in Jobs |-> Idle]
    /\ next = [l \in Loops |-> 0]
    /\ started = {} /\ up \in BOOLEAN /\ available = FALSE /\ streak = 0
    /\ troubles = 0

-----------------------------------------------------------------------------
(* The clock, and entries *)

\* A loop that is due looks before time goes on.
Due(l) == l \in started /\ job[l] = Idle /\ next[l] <= now

Tick ==
    /\ now < MaxTime
    /\ \A l \in Loops : ~Due(l)
    /\ \A j \in Jobs : job[j] # Idle => now < job[j].began + MaxWait
    /\ now' = now + 1
    /\ UNCHANGED <<rows, job, next, probe, troubles>>

Store ==
    /\ now \notin raw /\ Cardinality(raw) < MaxEntries
    /\ raw' = raw \cup {now}
    /\ UNCHANGED <<now, chunks, job, next, probe, troubles>>

-----------------------------------------------------------------------------
(* One run: runOneChunkSummary, runOneChunkSummaryL2, runOneChunkSummaryL3 *)

Length(level) == IF level = "l2" THEN Day ELSE Week
Lower(level)  == IF level = "l2" THEN "l1" ELSE "l2"

\* The summaries inserted in period id.
MadeIn(level, id) ==
    {k \in DOMAIN chunks : /\ chunks[k].level = Lower(level)
                           /\ chunks[k].made \div Length(level) = id}

\* How many of them the query returns, and which of those the model gets to
\* see: the oldest, as many as the text has room for.
Count(level, id) ==
    LET all == Cardinality(MadeIn(level, id))
    IN  IF all < RowLimit[level] THEN all ELSE RowLimit[level]

Sources(level, id) ==
    {src \in SUBSET MadeIn(level, id) :
        /\ \A k \in src, m \in MadeIn(level, id) : m < k => m \in src
        /\ Cardinality(src) <= Count(level, id)
        /\ Cardinality(src) >= Room[level] \/ Cardinality(src) = Count(level, id)}

\* chunkIdFor: the window now - Window lies in.
ChunkId == ((now - Window) \div Window) * Window

\* The entries of the Window units before that moment.
InWindow == {t \in raw : now - 2 * Window <= t /\ t < now - Window}

\* What each run is for, and from what it is made.
L1Run == [level |-> "l1", id |-> ChunkId, src |-> InWindow, count |-> Cardinality(InWindow)]
Runs(level, id) ==
    {[level |-> level, id |-> id, src |-> src, count |-> Count(level, id)] :
        src \in Sources(level, id)}

There(level, id) == \E k \in DOMAIN chunks : chunks[k].level = level /\ chunks[k].id = id

\* A run of j under way, and the row it makes.
Running(j, r, began) ==
    [level |-> r.level, id |-> r.id, src |-> r.src, count |-> r.count, began |-> began, by |-> j]
RowOf(r, made) ==
    [level |-> r.level, id |-> r.id, src |-> r.src, count |-> r.count, began |-> r.began,
     by |-> r.by, made |-> made]

\* Run r by j: it ends at once, or awaits the model.
Begin(j, r) ==
    job' = IF There(r.level, r.id) \/ r.src = {} THEN job
           ELSE [job EXCEPT ![j] = Running(j, r, now)]

\* Loop l looks, and begins run r: not while the model is unavailable.
Look(l, r) ==
    /\ Due(l)
    /\ IF available THEN Begin(l, r) ELSE UNCHANGED job
    /\ next' = [next EXCEPT ![l] = IF job'[l] = Idle THEN now + Every[l] ELSE @]
    /\ UNCHANGED <<now, rows, probe, troubles>>

LookL1 == Look("l1", L1Run)
LookL2 == \E r \in Runs("l2", now \div Day - 1) : Look("l2", r)      \* yesterday
LookL3 == \E r \in Runs("l3", now \div Week - 1) : Look("l3", r)     \* last week

\* An admin asks for any day or week there has been, the current one included.
Trigger(j, r) ==
    /\ available /\ job[j] = Idle
    /\ Begin(j, r) /\ job' # job
    /\ UNCHANGED <<now, rows, next, probe, troubles>>

TriggerL2(j) == \E day \in 0..now \div Day : \E r \in Runs("l2", day) : Trigger(j, r)
TriggerL3(j) == \E week \in 0..now \div Week : \E r \in Runs("l3", week) : Trigger(j, r)

\* Mutant: the row is dated when its run began.
EndsBackdated(j) ==
    /\ job[j] # Idle
    /\ chunks' = Append(chunks, RowOf(job[j], job[j].began))
    /\ job' = [job EXCEPT ![j] = Idle]
    /\ next' = IF j \in Loops THEN [next EXCEPT ![j] = now + Every[j]] ELSE next
    /\ UNCHANGED <<now, raw, probe, troubles>>

\* The generator's answer: a row, or nothing (an error, an empty answer).
Ends(j) ==
    /\ job[j] # Idle
    /\ \/ /\ chunks' = Append(chunks, RowOf(job[j], now))
          /\ UNCHANGED troubles
       \/ Trouble /\ UNCHANGED chunks
    /\ job' = [job EXCEPT ![j] = Idle]
    /\ next' = IF j \in Loops THEN [next EXCEPT ![j] = now + Every[j]] ELSE next
    /\ UNCHANGED <<now, raw, probe>>

-----------------------------------------------------------------------------
(* Probes, and who starts the loops *)

Goes == /\ up' = FALSE /\ up /\ Trouble
        /\ UNCHANGED <<now, rows, job, next, started, available, streak>>
Comes == /\ up' = TRUE /\ ~up
         /\ UNCHANGED <<now, rows, job, next, started, available, streak, troubles>>

\* checkMlxGenerate: three failures in a row say it is unavailable, one
\* success says it is available.
Probed ==
    /\ streak' = IF up THEN 0 ELSE IF streak < 3 THEN streak + 1 ELSE 3
    /\ available' = IF up THEN TRUE ELSE IF streak' = 3 THEN FALSE ELSE available

\* The first probe at startup is the only one that starts the summary loops.
FirstProbe ==
    /\ started = {} /\ streak = 0 /\ ~available
    /\ Probed
    /\ started' = IF available' THEN Loops \cup {"discovery"} ELSE {}
    /\ UNCHANGED <<now, rows, job, next, up, troubles>>

\* Mutant: the maintenance cycle only starts the loop after a first success.
ProbeHealsStarted ==
    /\ streak > 0 \/ available
    /\ Probed
    /\ started' = started
    /\ UNCHANGED <<now, rows, job, next, up, troubles>>

\* Each maintenance cycle probes, and starts the discovery loop if it is not
\* running.
ProbeHeals ==
    /\ streak > 0 \/ available
    /\ Probed
    /\ started' = IF available' THEN started \cup {"discovery"} ELSE started
    /\ UNCHANGED <<now, rows, job, next, up, troubles>>

Restart ==
    /\ Trouble
    /\ job' = [j \in Jobs |-> Idle]
    /\ next' = [l \in Loops |-> now]
    /\ started' = {} /\ available' = FALSE /\ streak' = 0
    /\ UNCHANGED <<now, rows, up>>

Next ==
    \/ Tick \/ Store
    \/ LookL1 \/ LookL2 \/ LookL3
    \/ \E j \in Triggers : TriggerL2(j) \/ TriggerL3(j)
    \/ \E j \in Jobs : Ends(j)
    \/ Goes \/ Comes \/ FirstProbe \/ ProbeHeals \/ Restart

\* Probes recur, and calls of the generator are settled (module Generator).
Fairness ==
    /\ WF_vars(FirstProbe) /\ WF_vars(ProbeHeals) /\ WF_vars(Comes)
    /\ \A j \in Jobs : WF_vars(Ends(j))
    /\ WF_vars(LookL1) /\ WF_vars(LookL2) /\ WF_vars(LookL3)

Spec == Init /\ [][Next]_vars /\ Fairness

-----------------------------------------------------------------------------
(***************************************************************************)
(* Properties                                                              *)
(***************************************************************************)

TypeOK ==
    /\ now \in 0..MaxTime /\ raw \subseteq 0..now
    /\ \A k \in DOMAIN chunks : /\ chunks[k].level \in Loops /\ chunks[k].by \in Jobs
                                /\ chunks[k].began <= chunks[k].made /\ chunks[k].made <= now
    /\ \A j \in Jobs : job[j] # Idle => job[j].by = j /\ job[j].began <= now
    /\ next \in [Loops -> Nat]
    /\ started \subseteq Loops \cup {"discovery"}
    /\ up \in BOOLEAN /\ available \in BOOLEAN /\ streak \in 0..3

\* "Already summarized?" (4036): the look comes before the wait for the model
\* and the insert after it, so a period has a second row only from runs that
\* overlapped, a loop's and a trigger's or two triggers'.
OneEach ==
    \A k, m \in DOMAIN chunks :
        LET c == chunks[k]
            d == chunks[m]
        IN  k # m /\ c.level = d.level /\ c.id = d.id =>
               /\ c.by # d.by /\ c.level # "l1"
               /\ c.began <= d.made /\ d.began <= c.made

\* An entry is in at most two L1 summaries: the name of a summary is rounded
\* to ten minutes and its window is not, and so windows overlap.
InAtMostTwo ==
    \A t \in raw :
        Cardinality({k \in DOMAIN chunks : chunks[k].level = "l1" /\ t \in chunks[k].src}) <= 2

AfterItsPeriod(c) == c.level # "l1" /\ c.began >= (c.id + 1) * Length(c.level)

\* "Today's day is still accumulating L1s" (4109): a summary begun when its day
\* or week is over misses nothing that comes later.  Its source_l1_count or
\* source_l2_count is of all the summaries its period will ever have (up to the
\* limit of the query), those inserted while it waited for the model and after
\* restarts included, and it is made of the oldest of them, as many as the text
\* has room for.
PeriodIsWhole ==
    \A k \in DOMAIN chunks :
        LET c == chunks[k]
        IN  AfterItsPeriod(c) => /\ c.count = Count(c.level, c.id)
                                 /\ c.src \in Sources(c.level, c.id)

\* "bundles L1 chunks for one UTC day", "bundles L2 days for one ISO week"
\* (4098, 4215): it has all of them.
Bundles ==
    \A k \in DOMAIN chunks :
        AfterItsPeriod(chunks[k]) => chunks[k].src = MadeIn(chunks[k].level, chunks[k].id)

\* "Ensure discovery loop is running (self-healing)" (3724): once the
\* generator answers for good, the discovery loop runs for good, whatever the
\* first probe found.
DiscoveryHeals == <>[]up => <>[]("discovery" \in started)

\* The same of the summary loops: they are started by the first probe only.
SummariesHeal == <>[]up => <>[](Loops \subseteq started)
=============================================================================
