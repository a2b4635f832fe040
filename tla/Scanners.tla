------------------------------ MODULE Scanners ------------------------------
(***************************************************************************)
(* The scripts that bring ideas in from outside: the article scanner       *)
(* (scripts/article-scanner.js), the new-feature watcher                   *)
(* (new-feature-watcher.cjs), the conversation miner                       *)
(* (conversation-skill-miner.cjs), the query generator                     *)
(* (skill-query-generator.cjs) and the keyword expander                    *)
(* (keyword-expander.js).  Each is a process launchd starts, or a user; it *)
(* keeps nothing, and what it did before it learns from the rows it        *)
(* stored.                                                                 *)
(***************************************************************************)
EXTENDS Integers, FiniteSets, SequencesExt

CONSTANTS
    Scans,          \* runs of the article scanner
    Urls,           \* articles the search finds
    Watchers,       \* runs of the watcher
    Miners,         \* runs of the miner
    Tools,          \* names of skills those may find
    Shown,          \* those among the first skills on disk, which the prompt names
    Terms,          \* terms of the keyword expander
    Keywords,       \* those in KEYWORDS of article-scanner.js
    MaxRows,        \* bound: rows of a kind for one article or tool
    MaxTroubles     \* bound: requests that fail, processes that end

\* What the constants are; the module that gives them values assumes it.
ScannersAssumption ==
    /\ Shown \subseteq Tools /\ Watchers \cap Miners = {} /\ Keywords \subseteq Terms
    /\ MaxRows \in Nat /\ MaxTroubles \in Nat

VARIABLES
    articles,       \* external-article rows of each URL
    ideas,          \* pending-idea rows of each URL
    scan,           \* each scan: what it is at, and the article
    blind,          \* articles whose row or whose look-up failed (history)
    overlapped,     \* two scans were under way at once (history)
    proposed,       \* pending-patch and skill-suggestion rows of each tool
    finder,         \* each finder: what it is at, and the tools ahead
    words,          \* the keyword expander's two lists and its result
    troubles

scanVars   == <<articles, ideas, scan, blind, overlapped>>
finderVars == <<proposed, finder>>
vars == <<scanVars, finderVars, words, troubles>>

Finders == Watchers \cup Miners
Trouble == troubles < MaxTroubles /\ troubles' = troubles + 1
Calm == UNCHANGED troubles
NoArticle == "none"
Over == [at |-> "over", url |-> NoArticle]

Init ==
    /\ articles = [u \in Urls |-> 0] /\ ideas = [u \in Urls |-> 0]
    /\ scan = [s \in Scans |-> [at |-> "ready", url |-> NoArticle]]
    /\ blind = {} /\ overlapped = FALSE
    /\ proposed = [t \in Tools |-> [patches |-> 0, suggestions |-> 0]]
    /\ finder = [f \in Finders |-> [at |-> "ready", ahead |-> <<>>]]
    /\ words = [at |-> "ready", trending |-> <<>>, asked |-> <<>>, result |-> <<>>]
    /\ troubles = 0

-----------------------------------------------------------------------------
(* The article scanner *)

Goes(s, place, u) == scan' = [scan EXCEPT ![s] = [at |-> place, url |-> u]]
ScanRest == UNCHANGED <<finderVars, words>>

\* The scanner goes on only when the generator answers.
Begin(s) ==
    /\ scan[s].at = "ready" /\ Goes(s, "search", NoArticle)
    /\ overlapped' = (overlapped \/ \E o \in Scans : scan[o].at \notin {"ready", "over"})
    /\ UNCHANGED <<articles, ideas, blind>> /\ Calm /\ ScanRest

\* The next result of a source and a keyword, or the end of the last one.
NextResult(s) ==
    /\ scan[s].at = "search"
    /\ \/ \E u \in Urls : articles[u] < MaxRows /\ Goes(s, "look", u)
       \/ Goes(s, "over", NoArticle)
    /\ UNCHANGED <<articles, ideas, blind, overlapped>> /\ Calm /\ ScanRest

\* alreadyScanned: an article row with the hash of the URL, of whatever age.
Known(u) == articles[u] > 0

Look(s) ==
    /\ scan[s].at = "look"
    /\ IF Known(scan[s].url) THEN Goes(s, "search", NoArticle)
       ELSE Goes(s, "fetch", scan[s].url)
    /\ UNCHANGED <<articles, ideas, blind, overlapped>> /\ Calm /\ ScanRest

\* The look-up fails and is taken for a no.
LookFails(s) ==
    /\ scan[s].at = "look" /\ Trouble
    /\ blind' = blind \cup {scan[s].url}
    /\ Goes(s, "fetch", scan[s].url)
    /\ UNCHANGED <<articles, ideas, overlapped>> /\ ScanRest

\* The page and what it links to are fetched, and the model is asked; a page
\* that cannot be fetched, or is too short, is left.
Fetch(s) ==
    /\ scan[s].at = "fetch"
    /\ \/ Goes(s, "search", NoArticle)
       \/ \E place \in {"high", "low"} : Goes(s, place, scan[s].url)
    /\ UNCHANGED <<articles, ideas, blind, overlapped>> /\ Calm /\ ScanRest

\* Mutant: an article that makes an idea is not stored as an article as well.
StoresRest(place) == place = "low"

\* The article row is stored whatever the verdict, a failed one included.
Stores(place) == place \in {"high", "low"}

StoreArticle(s) ==
    /\ Stores(scan[s].at) \/ scan[s].at \in {"high", "low"}
    /\ LET u == scan[s].url IN
         /\ IF Stores(scan[s].at)
            THEN \/ articles' = [articles EXCEPT ![u] = @ + 1] /\ UNCHANGED blind /\ Calm
                 \/ blind' = blind \cup {u} /\ UNCHANGED articles /\ Trouble
            ELSE UNCHANGED <<articles, blind>> /\ Calm
         /\ IF scan[s].at = "high" THEN Goes(s, "idea", u) ELSE Goes(s, "search", NoArticle)
    /\ UNCHANGED <<ideas, overlapped>> /\ ScanRest

\* The evaluation and, from the threshold on, the idea; a row that is not
\* stored is logged and forgotten.
StoreIdea(s) ==
    /\ scan[s].at = "idea"
    /\ LET u == scan[s].url IN
         \/ ideas' = [ideas EXCEPT ![u] = @ + 1] /\ Calm
         \/ UNCHANGED ideas /\ Trouble
    /\ Goes(s, "search", NoArticle)
    /\ UNCHANGED <<articles, blind, overlapped>> /\ ScanRest

ScanDies(s) ==
    /\ scan[s].at \notin {"ready", "over"} /\ Trouble
    /\ scan' = [scan EXCEPT ![s] = Over]
    /\ UNCHANGED <<articles, ideas, blind, overlapped>> /\ ScanRest

-----------------------------------------------------------------------------
(* The watcher and the miner *)

FinderRest == UNCHANGED <<scanVars, words>>
Steps(f, place, ahead) == finder' = [finder EXCEPT ![f] = [at |-> place, ahead |-> ahead]]

\* What the model makes of the search results of the day.  It is told the first
\* fifty skills on disk, and nothing of what was proposed before.
WatcherFinds == SUBSET (Tools \ Shown)

\* Fewer than five conversations, or what the model makes of them; it is told
\* the first eighty skills.
MinerFinds == {{}} \cup SUBSET (Tools \ Shown)

\* The checkpoint of the last run is asked for without q, which /recall answers
\* with 400: every run starts from the date in the script.  A run ends at once
\* when the server is not healthy.
Find(f) ==
    /\ finder[f].at = "ready"
    /\ \/ \E found \in IF f \in Watchers THEN WatcherFinds ELSE MinerFinds :
            LET list == SetToSeq(found) IN
            Steps(f, IF list = <<>> THEN "save" ELSE "write", list)
       \/ Steps(f, "over", <<>>)
    /\ UNCHANGED proposed /\ Calm /\ FinderRest

\* After a tool: the next one, or the checkpoint.
After(f) == IF Len(finder[f].ahead) > 1 THEN Steps(f, "write", Tail(finder[f].ahead))
            ELSE Steps(f, "save", <<>>)

\* The SKILL.md is generated and goes into a pending patch.  vcPost answers for
\* every reply, errors included: the status is not looked at.
Patch(f) ==
    /\ finder[f].at = "write"
    /\ LET t == Head(finder[f].ahead) IN
         \/ proposed' = [proposed EXCEPT ![t].patches = @ + 1] /\ Calm
         \/ UNCHANGED proposed /\ Trouble
    /\ Steps(f, "suggest", finder[f].ahead)
    /\ FinderRest

\* No text, a name outside the allowed ones, no connection: the next tool.
WriteFails(f) ==
    /\ finder[f].at \in {"write", "suggest"} /\ Trouble
    /\ After(f) /\ UNCHANGED proposed /\ FinderRest

Suggest(f) ==
    /\ finder[f].at = "suggest"
    /\ LET t == Head(finder[f].ahead) IN
         proposed' = [proposed EXCEPT ![t].suggestions = @ + 1]
    /\ After(f) /\ Calm /\ FinderRest

\* The checkpoint is stored, however the tools fared.
Save(f) ==
    /\ finder[f].at = "save" /\ Steps(f, "over", <<>>)
    /\ UNCHANGED proposed /\ Calm /\ FinderRest

-----------------------------------------------------------------------------
(* The keyword expander; the query generator stores and keeps nothing *)

Term(t, n) == [term |-> t, count |-> n]

\* Mode A counts words in titles, and keeps those counted twice or more; mode C
\* asks the model, which may name a term twice.
Lists == {<<>>} \cup {<<Term(t, 2)>> : t \in Terms}
         \cup UNION {{<<Term(t, 3), Term(u, 2)>> : u \in Terms \ {t}} : t \in Terms}
Asked == {<<>>} \cup {<<Term(t, 1), Term(u, 1)>> : t, u \in Terms}

Gather ==
    /\ words.at = "ready"
    /\ \E a \in Lists, c \in Asked :
         words' = [words EXCEPT !.at = "merge", !.trending = a, !.asked = c]
    /\ UNCHANGED <<scanVars, finderVars>> /\ Calm

Entry(t, source) == [term |-> t.term, count |-> t.count, sources |-> <<source>>]
Places(merged, t) == {i \in DOMAIN merged : merged[i].term = t.term}

\* A term of mode C joins the entry of mode A if there is one.
Add(merged, t) ==
    IF Places(merged, t) = {} THEN Append(merged, Entry(t, "llm_suggest"))
    ELSE LET i == CHOOSE x \in Places(merged, t) : TRUE IN
         [merged EXCEPT ![i].count = @ + 1, ![i].sources = Append(@, "llm_suggest")]

New(list) == SelectSeq(list, LAMBDA t : t.term \notin Keywords)

MergeNew(a, c) ==
    LET first == [i \in DOMAIN New(a) |-> Entry(New(a)[i], "trending")]
        both  == FoldLeft(Add, first, New(c))
    IN  SortSeq(both, LAMBDA x, y : x.count > y.count)

Merge ==
    /\ words.at = "merge"
    /\ words' = [words EXCEPT !.at = "done", !.result = MergeNew(words.trending, words.asked)]
    /\ UNCHANGED <<scanVars, finderVars>> /\ Calm

ScanNext ==
    \E s \in Scans : \/ Begin(s) \/ NextResult(s) \/ Look(s) \/ LookFails(s) \/ Fetch(s)
                     \/ StoreArticle(s) \/ StoreIdea(s) \/ ScanDies(s)
FindNext == \E f \in Finders : Find(f) \/ Patch(f) \/ WriteFails(f) \/ Suggest(f) \/ Save(f)
WordNext == Gather \/ Merge

Next == ScanNext \/ FindNext \/ WordNext

Spec == Init /\ [][Next]_vars

-----------------------------------------------------------------------------
(* Properties *)

\* "Check if this URL was already stored as external-article" (364): whatever
\* fails or ends half-way, an article becomes a second idea only when its row,
\* or the look for it, had failed, or two scans ran at once.
IdeaOnce == \A u \in Urls : ideas[u] <= 1 \/ u \in blind \/ overlapped

Named(list) == {x.term : x \in ToSet(list)}
Both(t) == t \in Named(words.trending) \cap Named(words.asked)

\* "Merge": what is proposed is what either mode found and no one scans yet,
\* once each, and what both found says so, the most frequent first.
WordsRight ==
    words.at = "done" =>
      LET result == words.result IN
      /\ Named(result) = (Named(words.trending) \cup Named(words.asked)) \ Keywords
      /\ Cardinality(Named(result)) = Len(result)
      /\ \A r \in ToSet(result) :
           Both(r.term) <=> {"trending", "llm_suggest"} \subseteq ToSet(r.sources)
      /\ \A i, k \in DOMAIN result : i < k => result[i].count >= result[k].count

\* A tool is proposed once, which the checkpoint is there for.
ProposedOnce == \A t \in Tools : proposed[t].patches <= 1
\* An article that was found is evaluated sooner or later.
Evaluated == \A u \in Urls, s \in Scans : articles[u] > 0 /\ scan[s] = Over => ideas[u] > 0
=============================================================================
