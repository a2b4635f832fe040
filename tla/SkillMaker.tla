----------------------------- MODULE SkillMaker -----------------------------
(***************************************************************************)
(* How the server makes skills of its own (scripts/vcontext-server.js):    *)
(* the discovery loop (3927-3963) and POST /admin/run-all (7566-7583) run  *)
(* runOneDiscovery, runOnePrediction and autoCreateSkill one after the     *)
(* other.  A run-all does not look whether the loop, or another run-all,   *)
(* is in the middle of the same work, and each step awaits the search      *)
(* engine or the generator between what it reads and what it writes.       *)
(***************************************************************************)
EXTENDS Integers, Sequences, FiniteSetsExt

CONSTANTS
    RunAlls,            \* the run-alls that may be posted
    Names,              \* names the model gives to skills
    Topics,             \* topics of a search, and keywords of a trigger
    Limit,              \* LIMIT 10 of the unprocessed suggestions
    MaxSuggestions,     \* bound: suggestions stored
    MaxTroubles         \* bound: failed answers, inserts, outages

Loop == "loop"

\* What the constants are; the module that gives them values assumes it.
SkillMakerAssumption ==
    /\ Loop \notin RunAlls
    /\ Limit \in Nat \ {0} /\ MaxSuggestions \in Nat /\ MaxTroubles \in Nat

VARIABLES
    found,          \* the skill-discovery rows of the last 24 hours: topic, and
                    \* (history) the job that wrote one, and how many it had seen
    triggers,       \* the skill-trigger rows
    suggestions,    \* the skill-suggestion rows: a text? and the tag skill-created
    registry,       \* the skill-registry rows: name and suggestion, and (history)
                    \* the job, the rows it had seen, and whether it marked
    job,            \* what the loop and each run-all are in the middle of
    available,      \* mlxGenerateAvailable
    troubles

rows == <<found, triggers, suggestions, registry>>
vars == <<rows, job, available, troubles>>

Jobs == {Loop} \cup RunAlls
At(step) == [at |-> step, topic |-> "none", batch |-> {}, names |-> {}, seen |-> 0]
Idle == At("idle")
Trouble == troubles < MaxTroubles /\ troubles' = troubles + 1
Goes(j, to) == job' = [job EXCEPT ![j] = to]

Init ==
    /\ found = <<>> /\ triggers = {}
    /\ suggestions = <<>> /\ registry = <<>>
    /\ job = [j \in Jobs |-> Idle]
    /\ available \in BOOLEAN /\ troubles = 0

-----------------------------------------------------------------------------
(* startDiscoveryLoop and run-all: what a job begins with *)

\* The loop goes on only when the generator is there; a run-all never asks.
Begin(j) ==
    /\ job[j] = Idle
    /\ j = Loop => available
    /\ Goes(j, At("discover"))
    /\ UNCHANGED <<rows, available, troubles>>

\* A run-all is posted once; the loop waits five minutes and goes round.
Done(j) == IF j = Loop THEN Idle ELSE At("over")

-----------------------------------------------------------------------------
(* runOneDiscovery *)

\* A topic of the rotation, or one the model makes of the latest activity,
\* is searched unless a row of the last day has it.
Discover(j) ==
    /\ job[j].at = "discover"
    /\ \E t \in Topics :
         Goes(j, IF \E i \in DOMAIN found : found[i].topic = t
                 THEN At("predict")
                 ELSE [At("search") EXCEPT !.topic = t, !.seen = Len(found)])
    /\ UNCHANGED <<rows, available, troubles>>

\* The search engine answers with results, with none, or not at all; the topic
\* is not looked for again.
Searched(j) ==
    /\ job[j].at = "search"
    /\ \/ found' = Append(found, [topic |-> job[j].topic, by |-> j, seen |-> job[j].seen])
       \/ UNCHANGED found
    /\ Goes(j, At("predict"))
    /\ UNCHANGED <<triggers, suggestions, registry, available, troubles>>

-----------------------------------------------------------------------------
(* runOnePrediction *)

\* The loop predicts every half hour only, and without predicting it makes no
\* skills either.  A prediction without the generator returns at once.
Predict(j) ==
    /\ job[j].at = "predict"
    /\ \/ j = Loop /\ Goes(j, Idle)
       \/ Goes(j, At(IF available THEN "gaps" ELSE "select"))
    /\ UNCHANGED <<rows, available, troubles>>

\* Keywords for the prompts no skill matched; their hash keeps a row single.
Gaps(j) ==
    /\ job[j].at = "gaps"
    /\ \E k \in SUBSET Topics : triggers' = triggers \cup k
    /\ Goes(j, At("suggest"))
    /\ UNCHANGED <<found, suggestions, registry, available, troubles>>

\* A suggestion is stored when the answer is long enough.
Suggest(j) ==
    /\ job[j].at = "suggest"
    /\ \/ /\ Len(suggestions) < MaxSuggestions
          /\ suggestions' = Append(suggestions, [text |-> TRUE, made |-> FALSE])
       \/ UNCHANGED suggestions
    /\ Goes(j, At("select"))
    /\ UNCHANGED <<found, triggers, registry, available, troubles>>

\* The watcher and the miner store suggestions that carry no `suggestion`.
Foreign ==
    /\ Len(suggestions) < MaxSuggestions
    /\ suggestions' = Append(suggestions, [text |-> FALSE, made |-> FALSE])
    /\ UNCHANGED <<found, triggers, registry, job, available, troubles>>

-----------------------------------------------------------------------------
(* autoCreateSkill *)

Unmade == {i \in DOMAIN suggestions : ~suggestions[i].made}

\* ORDER BY id ASC LIMIT 10
Batch == {i \in Unmade : Cardinality({k \in Unmade : k < i}) < Limit}

\* existingSkills.  The directory of skills is not among them: readdirSync is
\* not imported (line 37), and the exception of line 4556 is swallowed.
Known == {registry[i].name : i \in DOMAIN registry}

Select(j) ==
    /\ job[j].at = "select"
    /\ Goes(j, IF available /\ Batch # {}
               THEN [At("create") EXCEPT !.batch = Batch, !.names = Known, !.seen = Len(registry)]
               ELSE Done(j))
    /\ UNCHANGED <<rows, available, troubles>>

\* The suggestion a job is at, in the order of their ids.
Current(j) == Min(job[j].batch)
Rest(j) == job[j].batch \ {Current(j)}

\* Mutant: the new name is not pushed to existingSkills.
NextOfForgets(j, name) ==
    IF Rest(j) # {} THEN [job[j] EXCEPT !.batch = Rest(j)] ELSE Done(j)

\* The next suggestion of the batch; `name` joins the names known.
NextOf(j, name) ==
    IF Rest(j) # {}
    THEN [job[j] EXCEPT !.batch = Rest(j), !.names = @ \cup name]
    ELSE Done(j)

\* A text shorter than 20 characters is passed over, and stays unprocessed.
Skip(j) ==
    /\ job[j].at = "create" /\ ~suggestions[Current(j)].text
    /\ Goes(j, NextOf(j, {}))
    /\ UNCHANGED <<rows, available, troubles>>

\* No answer, a short one, or one without a SKILL_NAME or a body: the
\* suggestion stays unprocessed.
Unusable(j) ==
    /\ job[j].at = "create" /\ suggestions[Current(j)].text
    /\ Trouble
    /\ Goes(j, NextOf(j, {}))
    /\ UNCHANGED <<rows, available>>

\* The answer names a skill.  Whether the name is taken is judged by the names
\* read before the first answer of this batch was awaited.
Row(j, name, marked) ==
    [name |-> name, of |-> Current(j), by |-> j, seen |-> job[j].seen, marked |-> marked]

\* Registering the name and putting the tag skill-created on the suggestion are
\* two statements, each with a try of its own that swallows its failure; a name
\* that is known is not registered, and the tag is put all the same.
Create(j) ==
    /\ job[j].at = "create" /\ suggestions[Current(j)].text
    /\ \E name \in Names, inserts, marks \in BOOLEAN :
         LET known == name \in job[j].names
         IN  /\ inserts => ~known
             /\ IF marks /\ (inserts \/ known) THEN UNCHANGED troubles ELSE Trouble
             /\ registry' = IF inserts THEN Append(registry, Row(j, name, marks)) ELSE registry
             /\ suggestions' =
                  IF marks THEN [suggestions EXCEPT ![Current(j)].made = TRUE] ELSE suggestions
             /\ Goes(j, NextOf(j, {name}))
    /\ UNCHANGED <<found, triggers, available>>

-----------------------------------------------------------------------------
(* The generator, and a restart *)

Outage   == available /\ Trouble /\ available' = FALSE /\ UNCHANGED <<rows, job>>
Answers  == ~available /\ available' = TRUE /\ UNCHANGED <<rows, job, troubles>>

\* The process ends: with it what its jobs were in the middle of.
Ends ==
    /\ Trouble
    /\ job' = [j \in Jobs |-> IF j # Loop /\ job[j] # Idle THEN At("over") ELSE Idle]
    /\ UNCHANGED <<found, triggers, suggestions, available>>

Restart == Ends /\ UNCHANGED registry

\* The same, after the INSERT of a skill and before the tag on its suggestion.
CutShort(j) ==
    /\ job[j].at = "create" /\ suggestions[Current(j)].text
    /\ \E name \in Names \ job[j].names : registry' = Append(registry, Row(j, name, FALSE))
    /\ Ends

Step(j) == Begin(j) \/ Discover(j) \/ Searched(j) \/ Predict(j) \/ Gaps(j) \/ Suggest(j)
           \/ Select(j) \/ Skip(j) \/ Unusable(j) \/ Create(j)

SkillNext == (\E j \in Jobs : Step(j)) \/ Foreign \/ Outage \/ Answers \/ Restart
             \/ \E j \in Jobs : CutShort(j)

\* The loop goes round and its awaits end; the half hour comes; the generator
\* comes back.
SkillFairness ==
    /\ WF_vars(Step(Loop)) /\ WF_vars(Answers)
    /\ SF_vars(Predict(Loop) /\ job'[Loop] # Idle)
    /\ SF_vars(Select(Loop) /\ available)

SkillSpec == Init /\ [][SkillNext]_vars /\ SkillFairness

-----------------------------------------------------------------------------
(* Properties *)

\* The job that wrote a later row of a table had read the table before another
\* job wrote the earlier row, and has awaited the model or the search since.
Overtaken(table, i, k) == table[k].seen < i /\ table[k].by # table[i].by

\* "Get existing skill names to avoid duplicates" (4553), in the registry as it
\* is after any failures, overlaps and restarts: a name comes twice only by a
\* job that another overtook; a suggestion becomes two skills only so, or when
\* the tag was not put after the first; and of a day's searches a topic comes
\* twice only by a job that was overtaken.
OneSkillEach ==
    /\ \A i, k \in DOMAIN registry :
         i < k => /\ registry[i].name = registry[k].name => Overtaken(registry, i, k)
                  /\ registry[i].of = registry[k].of =>
                       ~registry[i].marked \/ Overtaken(registry, i, k)
    /\ \A i, k \in DOMAIN found :
         i < k /\ found[i].topic = found[k].topic => Overtaken(found, i, k)

Open(i) == i \in DOMAIN suggestions /\ suggestions[i].text
Made(i) == i \in DOMAIN suggestions /\ suggestions[i].made
Stuck(i) == Cardinality({k \in 1..(i - 1) : ~suggestions[k].text}) >= Limit

\* "Get ALL unprocessed suggestions" (4549): a suggestion is made into a skill,
\* or found to name one that exists, unless ten without a text precede it.
Handled ==
    \A i \in 1..MaxSuggestions : (Open(i) /\ ~Stuck(i)) ~> Made(i)

\* The comments of 4549 and 4553 taken literally; neither holds.
EveryoneHandled ==
    \A i \in 1..MaxSuggestions : Open(i) ~> Made(i)
NoDuplicates ==
    \A i, k \in DOMAIN registry :
        i # k => registry[i].name # registry[k].name /\ registry[i].of # registry[k].of
=============================================================================
