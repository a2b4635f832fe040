----------------------------- MODULE SelfEvolve -----------------------------
(***************************************************************************)
(* The weekly evolution cycle (skills/self-evolve/scripts/self-evolve.js): *)
(* gather what the scanners, the miners and earlier cycles proposed, merge *)
(* what several streams found, score it, have the generator rewrite the    *)
(* best few under the machine-wide lock, and store what passes validation  *)
(* as pending patches, which the next cycle gathers again.                 *)
(*                                                                         *)
(* A row of the store is abstracted to what merging and scoring look at.   *)
(* Rates and scores are in hundredths.                                     *)
(***************************************************************************)
EXTENDS Integers, FiniteSetsExt, SequencesExt

CONSTANTS
    Rows,           \* rows that may be stored: stream, url, path, text, score, age
    Skills,         \* skills a patch may name
    Protected,      \* gates.safety_skills_protected
    Evidence,       \* what a cycle may find in the store about the skills
    Weights,        \* config.weights
    Bias,           \* config.bias_source
    TopK,           \* cycle.top_k_mutations_per_cycle
    Observe,        \* observation mode: --observation, or the config
    MaxRows,        \* bound: rows stored
    MaxCycles       \* bound: cycles run

Streams == {"idea", "patch", "suggestion"}
None == "none"

\* What the constants are; the module that gives them values assumes it.
SelfEvolveAssumption ==
    /\ \A r \in Rows : r.stream \in Streams /\ r.score \in 1..100
    /\ None \notin Skills /\ Protected \subseteq Skills
    /\ \A e \in Evidence : /\ e.used \in [Skills -> Nat] /\ e.sessions \in Nat
                           /\ e.older \in [Skills -> Nat] /\ e.recent \in [Skills -> Nat]
                           /\ e.chunks \in Nat /\ e.triggered \in Nat
    /\ Weights \in [{"adoption", "triggered", "errors", "approval", "fresh"} -> 0..100]
    /\ Bias \in [Streams -> 0..100]
    /\ TopK \in Nat \ {0} /\ Observe \in BOOLEAN
    /\ MaxRows \in Nat /\ MaxCycles \in Nat

VARIABLES
    rows,           \* the rows in the order of their ids
    cycle,          \* where the cycle stands, and its working data
    cycles,         \* how many ended (the bound)
    emitted         \* keys and targets of the patches of the cycle under way

vars == <<rows, cycle, cycles, emitted>>

NoCycle == [at |-> "none", raw |-> <<>>, merged |-> 0, kept |-> <<>>, evidence |-> None,
            best |-> <<>>, top |-> <<>>]

Init == rows = <<>> /\ cycle = NoCycle /\ cycles = 0 /\ emitted = <<>>

\* Scanners, miners and the self-improvement script store between two steps.
Store ==
    /\ Len(rows) < MaxRows
    /\ \E r \in Rows : rows' = Append(rows, r)
    /\ UNCHANGED <<cycle, cycles, emitted>>

-----------------------------------------------------------------------------
(* Phase a: gather *)

\* Newer than the first date header of docs/evolution-log.md.  A cycle appends
\* its header at the end of that file, so the date never moves.
Since(r) == ~r.old

Of(stream) == {n \in DOMAIN rows : rows[n].stream = stream}
PendingIdeas     == {n \in Of("idea") : Since(rows[n])}
\* Patches of every status and age, this script's own among them.
PendingPatches   == Of("patch")
SkillSuggestions == {n \in Of("suggestion") : Since(rows[n])}

\* The orders in which rows may be listed.
Listings(ids) == {s \in [1..Cardinality(ids) -> ids] :
                    \A m, n \in DOMAIN s : s[m] = s[n] => m = n}

\* /recall answers in the order of relevance, /admin/pending-patches newest
\* first.  Each stream is read for itself, and is empty when it cannot be read.
ByRelevance(ids) == {<<>>} \cup Listings(ids)
NewestFirst(ids) == {<<>>} \cup {s \in Listings(ids) : \A m, n \in DOMAIN s : m < n => s[m] > s[n]}

Gather ==
    /\ cycle.at = "none" /\ cycles < MaxCycles
    /\ \E i \in ByRelevance(PendingIdeas), p \in NewestFirst(PendingPatches),
          s \in ByRelevance(SkillSuggestions) :
         LET ids == i \o p \o s
         IN  cycle' = [NoCycle EXCEPT !.at = "merge", !.raw = [n \in DOMAIN ids |-> rows[ids[n]]]]
    /\ emitted' = <<>>
    /\ UNCHANGED <<rows, cycles>>

-----------------------------------------------------------------------------
(* Between a and b: what several streams found is one candidate *)

\* The source URL if there is one, else the target as it is written in the
\* row, else the text.
Key(r) == IF r.url # None THEN <<"url", r.url>>
          ELSE IF r.path # None THEN <<"skill", r.path>> ELSE <<"content", r.text>>

\* A candidate: a row, and the streams that found it.
Candidate(r) == [row |-> r, sources |-> {r.stream}]

\* The more confident of two candidates of a key, the earlier of equals.
Base(c, d) == IF d.row.score > c.row.score THEN d.row ELSE c.row

\* Mutant: the streams of the candidate that gives way are forgotten.
UnionLoses(c, d) == {Base(c, d).stream}

Union(c, d) == c.sources \cup d.sources

\* One step of the loop of dedupeCandidates, over the candidates kept so far.
MergeIn(kept, r) ==
    LET at == {i \in DOMAIN kept : Key(kept[i].row) = Key(r)}
        i == CHOOSE x \in at : TRUE
        c == Candidate(r)
    IN  IF at = {} THEN Append(kept, c)
        ELSE [kept EXCEPT ![i] = [row |-> Base(kept[i], c), sources |-> Union(kept[i], c)]]

\* The loop is one run of the script; nothing else sees what it has made so far.
Merge ==
    /\ cycle.at = "merge" /\ cycle.merged < Len(cycle.raw)
    /\ cycle' = [cycle EXCEPT !.merged = @ + 1, !.kept = MergeIn(@, cycle.raw[cycle.merged + 1])]
    /\ UNCHANGED <<rows, cycles, emitted>>

MergeEnds ==
    /\ cycle.at = "merge" /\ cycle.merged = Len(cycle.raw)
    /\ cycle' = [cycle EXCEPT !.at = "score"]
    /\ UNCHANGED <<rows, cycles, emitted>>

-----------------------------------------------------------------------------
(* Phase b: score *)

Clamp(x, top) == IF x < 0 THEN 0 ELSE IF x > top THEN top ELSE x
AtLeast1(n) == IF n < 1 THEN 1 ELSE n
Rate(part, whole) == Clamp((100 * part) \div AtLeast1(whole), 100)

\* The skill a candidate is about: only patches say.
Target(c) == c.row.path

\* Aggregates over all skills, for candidates that name none.
Total(f) == FoldSet(LAMBDA s, n : f[s] + n, 0, Skills)
GlobalErrors(e) == IF Total(e.older) = 0 THEN 0
                   ELSE Rate(Total(e.older) - Total(e.recent), Total(e.older))
GlobalTriggered(e) == IF e.chunks = 0 THEN 0 ELSE Rate(e.triggered, e.chunks)

Adoption(c, e) == IF Target(c) = None THEN 0 ELSE Rate(e.used[Target(c)], e.sessions)
Errors(c, e) == IF Target(c) # None /\ e.older[Target(c)] > 0
                THEN Rate(e.older[Target(c)] - e.recent[Target(c)], e.older[Target(c)])
                ELSE GlobalErrors(e)
\* Nothing stores approve-patch or reject-patch rows: the prior.
Approval == 50
\* All rows of a run are of one age.
Fresh == 100
Consensus(c) == IF Cardinality(c.sources) >= 2 THEN 10 ELSE 0

Fitness(c, e) ==
    LET weighted == (Weights.adoption * Adoption(c, e) + Weights.triggered * GlobalTriggered(e)
                     + Weights.errors * Errors(c, e) + Weights.approval * Approval
                     + Weights.fresh * Fresh) \div 100
        bias == FoldSet(LAMBDA s, n : Bias[s] + n, 0, c.sources)
    IN  Clamp(weighted + bias + Consensus(c), 200)

Ranked(kept, e) == SortSeq(kept, LAMBDA a, b : Fitness(a, e) > Fitness(b, e))

\* In observation mode, and when the lock is not got in twenty minutes, nothing
\* is rewritten.
Score ==
    /\ cycle.at = "score"
    /\ \E e \in Evidence, locked \in BOOLEAN :
         LET ranked == Ranked(cycle.kept, e)
             best == SubSeq(ranked, 1, IF Len(ranked) < TopK THEN Len(ranked) ELSE TopK)
         IN  cycle' = [cycle EXCEPT !.evidence = e, !.best = best, !.top = best,
                         !.at = IF locked /\ ~Observe THEN "mutate" ELSE "log"]
    /\ UNCHANGED <<rows, cycles, emitted>>

-----------------------------------------------------------------------------
(* Phases c to e: mutate, validate, emit *)

\* What matters of a rewritten SKILL.md: front matter with a name and a
\* description, rules, critical words, lines that are not YAML.
Texts == [front : BOOLEAN, rules : 0..1, words : 0..1, yaml : BOOLEAN]
Current == [front |-> TRUE, rules |-> 1, words |-> 0, yaml |-> TRUE]

Valid(text, target) ==
    /\ text.front
    /\ target \in Protected => text.rules >= Current.rules
    /\ text.words <= Current.words
    /\ target # None => text.yaml

Rest == IF Len(cycle.top) > 1 THEN [cycle EXCEPT !.top = Tail(@)]
        ELSE [cycle EXCEPT !.top = <<>>, !.at = "log"]

Nothing == cycle.at = "mutate" /\ cycle.top = <<>>
           /\ cycle' = Rest /\ UNCHANGED <<rows, cycles, emitted>>

\* The generator failed, or gave a short text.
Drop ==
    /\ cycle.at = "mutate" /\ cycle.top # <<>>
    /\ cycle' = Rest
    /\ UNCHANGED <<rows, cycles, emitted>>

\* A valid text is stored.  The row names the target by its path and carries no
\* URL; when the store does not take it, it is not counted nor tried again.
Rewritten ==
    /\ cycle.at = "mutate" /\ cycle.top # <<>>
    /\ LET c == Head(cycle.top)
           patch == [stream |-> "patch", url |-> None, path |-> Target(c), text |-> c.row.text,
                     score |-> 66, old |-> FALSE]
       IN  \E text \in Texts :
             IF Valid(text, Target(c))
             THEN \/ emitted' = Append(emitted, Key(c.row)) /\ rows' = Append(rows, patch)
                  \/ UNCHANGED <<emitted, rows>>
             ELSE UNCHANGED <<emitted, rows>>
    /\ cycle' = Rest
    /\ UNCHANGED cycles

\* Phase f: the block of the log and the digest.
Log ==
    /\ cycle.at = "log"
    /\ cycle' = NoCycle /\ cycles' = cycles + 1
    /\ UNCHANGED <<rows, emitted>>

\* The process ends: nothing of the cycle is kept, and the patches stay.
Die ==
    /\ cycle.at # "none"
    /\ cycle' = NoCycle /\ cycles' = cycles + 1
    /\ UNCHANGED <<rows, emitted>>

Next == Store \/ Gather \/ Merge \/ MergeEnds \/ Score \/ Nothing \/ Drop \/ Rewritten \/ Log \/ Die

Spec == Init /\ [][Next]_vars

-----------------------------------------------------------------------------
(* Properties *)

Group(k) == {i \in DOMAIN cycle.raw : Key(cycle.raw[i]) = k}
Keys == {Key(cycle.raw[i]) : i \in DOMAIN cycle.raw}

\* "Merges: keep the highest-confidence candidate, record all source streams"
\* (213): whatever the order in which streams are read, a key has one
\* candidate, the first of the most confident rows, with every stream that
\* found it.
MergesRight ==
    cycle.at \in {"score", "mutate"} =>
      /\ Len(cycle.kept) = Cardinality(Keys)
      /\ \A k \in Keys : \E x \in DOMAIN cycle.kept : LET c == cycle.kept[x] IN
           /\ Key(c.row) = k
           /\ c.sources = {cycle.raw[i].stream : i \in Group(k)}
           /\ \E i \in Group(k) :
                /\ cycle.raw[i] = c.row
                /\ \A n \in Group(k) : /\ cycle.raw[n].score <= c.row.score
                                       /\ n < i => cycle.raw[n].score < c.row.score

\* Of a cycle's patches no two are about one key, they are TopK at most, and no
\* candidate left out is fitter than one of the best.
BestOnce ==
    /\ IsInjective(emitted) /\ Len(emitted) <= TopK
    /\ cycle.at = "mutate" =>
         \A c \in ToSet(cycle.best), d \in ToSet(cycle.kept) \ ToSet(cycle.best) :
           Fitness(c, cycle.evidence) >= Fitness(d, cycle.evidence)

\* Without merging "can emit duplicate pending-patches for the same target
\* skill" (208): with it a cycle still can, when the keys of two candidates are
\* of different sorts.
OnePatchPerTarget ==
    \A c, d \in ToSet(cycle.kept) : Target(c) = Target(d) /\ Target(c) # None => c = d
=============================================================================
