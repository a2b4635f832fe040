------------------------------- MODULE Recall -------------------------------
(***************************************************************************)
(* Reading across the tiers (scripts/vcontext-server.js): /recall (1696),  *)
(* /recent (1889), /session (1999), /resolve (2918) and /search/semantic   *)
(* (5570).  All but the last read the primary and then, if that is not     *)
(* enough, the archive; /recall and /recent copy into the primary what     *)
(* they found only there, and /recall then waits for an embedding of the   *)
(* query and adds what the vector index has near it.                       *)
(*                                                                         *)
(* A text stands for what the cross-tier key is made of, the time, the     *)
(* type and the content; later texts have larger numbers.  Which texts     *)
(* match a query is a choice, the same in both tiers, and so is what is    *)
(* near it.  There is one reader; others would only promote more.  Access  *)
(* counters, budgets, paging and the filters are left out, and the cloud   *)
(* tier, whose store is a stub.  An answer is the set of its rows: nothing *)
(* here depends on the order in which they are listed.                     *)
(***************************************************************************)
EXTENDS Integers, FiniteSets

CONSTANTS
    Limit,          \* how many rows the reader asks for
    MaxId,          \* bound: ids 1..MaxId are given out
    MaxTroubles     \* bound: failed writes to the archive, rows gone, restarts

RecallAssumption == Limit \in Nat \ {0} /\ MaxId \in Nat /\ MaxTroubles \in Nat

VARIABLES
    last,           \* the last id given out in the primary
    next,           \* the next text
    ram, ssd,       \* the text of each row, by id
    vec,            \* ids in the vector index
    reader,         \* [at, kind, from, got]: what it is doing, and what it got
    troubles

tables == <<last, next, ram, ssd, vec>>
vars == <<tables, reader, troubles>>

Texts == 1..MaxId
Trouble == troubles < MaxTroubles /\ troubles' = troubles + 1
TextsOf(tier) == {tier[i] : i \in DOMAIN tier}

\* A table with the rows of another that it has no row for.
Joined(table, new) ==
    [i \in DOMAIN table \cup DOMAIN new |-> IF i \in DOMAIN table THEN table[i] ELSE new[i]]
Above(table, other) == {i \in DOMAIN table : \A j \in DOMAIN other : j < i}

\* from: the last id when the request came in.
Reader(at, kind, got) == [at |-> at, kind |-> kind, from |-> last, got |-> got]
Rows(tier, table, ids) == {[tier |-> tier, id |-> i, text |-> table[i]] : i \in ids}

Init ==
    /\ last = 0 /\ next = 1 /\ ram = [i \in {} |-> 0] /\ ssd = ram /\ vec = {}
    /\ reader = Reader("free", "none", {}) /\ troubles = 0

-----------------------------------------------------------------------------
(* What happens to the rows meanwhile *)

\* A new text; the write-through may fail.
Store ==
    /\ last < MaxId
    /\ last' = last + 1 /\ next' = next + 1
    /\ ram' = Joined(ram, [i \in {last'} |-> next])
    /\ \/ ssd' = Joined(ssd, [i \in {last'} |-> next]) /\ UNCHANGED troubles
       \/ UNCHANGED ssd /\ Trouble
    /\ UNCHANGED <<vec, reader>>

\* By the store handler, the embed loop, or vecSync.
VecUpsert(i) ==
    /\ i \in DOMAIN ram \ vec
    /\ vec' = vec \cup {i}
    /\ UNCHANGED <<last, next, ram, ssd, reader, troubles>>

\* Pruned, compacted or migrated; the vector index is not told.
Leaves(i) ==
    /\ i \in DOMAIN ram /\ Trouble
    /\ ram' = [j \in DOMAIN ram \ {i} |-> ram[j]]
    /\ UNCHANGED <<last, next, ssd, vec, reader>>

CatchUp ==
    /\ ssd' = Joined(ssd, [i \in Above(ram, ssd) |-> ram[i]])
    /\ UNCHANGED <<last, next, ram, vec, reader, troubles>>

\* The server starts again; what the archive has above the primary returns.
Restore ==
    /\ Trouble
    /\ IF Cardinality(DOMAIN ram) < Cardinality(DOMAIN ssd)
       THEN ram' = Joined(ram, [i \in Above(ssd, ram) |-> ssd[i]])
       ELSE UNCHANGED ram
    /\ reader' = Reader("free", "none", {})
    /\ UNCHANGED <<last, next, ssd, vec>>

-----------------------------------------------------------------------------
(* The requests *)

\* Rows of one text are in the order of their ids (SQL says nothing of them).
Older(table, i, j) == table[i] < table[j] \/ (table[i] = table[j] /\ i < j)
Newer(table, i, j) == table[i] > table[j] \/ (table[i] = table[j] /\ i < j)

\* searchTier: old rows first, as rank and days are added up.
Search(table, hits, n) ==
    LET found == {i \in DOMAIN table : table[i] \in hits}
    IN  {i \in found : Cardinality({j \in found : Older(table, j, i)}) < n}

\* recentFromTier
Latest(table, n) ==
    {i \in DOMAIN table : Cardinality({j \in DOMAIN table : Newer(table, j, i)}) < n}

\* Mutant: seenIds holds ids.
UnseenIds(rows, found) == {r \in rows : ~\E f \in found : f.id = r.id}

\* What of the rows is neither among those found nor a second of its text.
Unseen(rows, found) ==
    {r \in rows : /\ ~\E f \in found : f.text = r.text
                 /\ ~\E s \in rows : s.text = r.text /\ s.id < r.id}

\* Copies of the rows the primary does not have, under new ids, which are given
\* in the order of the answer.
PromoteToRam(rows, oldestFirst) ==
    LET new == {r.text : r \in rows} \ TextsOf(ram) IN
    /\ last + Cardinality(new) <= MaxId
    /\ last' = last + Cardinality(new)
    /\ \E given \in [(last + 1)..last' -> new] :
         /\ \A i, j \in DOMAIN given :
              i < j => IF oldestFirst THEN given[i] < given[j] ELSE given[j] < given[i]
         /\ ram' = Joined(ram, given)
    /\ UNCHANGED <<next, ssd, vec>>

Free == reader.at \in {"free", "told"}

\* The archive is asked for as many rows as are missing.
Recall(hits) ==
    /\ Free
    /\ LET upper == Rows("ram", ram, Search(ram, hits, Limit))
           lower == Rows("ssd", ssd, Search(ssd, hits, Limit - Cardinality(upper)))
           new == Unseen(lower, upper)
       IN /\ PromoteToRam(new, TRUE)
          /\ \/ reader' = Reader("told", "recall", upper \cup new)
             \/ /\ Cardinality(upper \cup new) < Limit
                /\ reader' = Reader("asks", "recall", upper \cup new)
    /\ UNCHANGED troubles

\* vecSearch: the index knows nothing of which rows are still there.
VecSearch(n) ==
    {found \in SUBSET vec :
        Cardinality(found) = (IF n < Cardinality(vec) THEN n ELSE Cardinality(vec))}

\* After the await: what is near enough and not in the results, as many as fit.
SemanticBoost ==
    /\ reader.at = "asks"
    /\ \E found \in VecSearch(2 * Limit) :
       \E near \in SUBSET (found \ {r.id : r \in reader.got}) :
         /\ Cardinality(near) <= Limit - Cardinality(reader.got)
         /\ reader' = [reader EXCEPT !.at = "told",
                          !.got = @ \cup Rows("semantic", ram, near \cap DOMAIN ram)]
    /\ UNCHANGED <<tables, troubles>>

Recent ==
    /\ Free
    /\ LET upper == Rows("ram", ram, Latest(ram, Limit))
           lower == Rows("ssd", ssd, Latest(ssd, Limit - Cardinality(upper)))
           new == Unseen(lower, upper)
       IN /\ PromoteToRam(new, FALSE)
          /\ reader' = Reader("told", "recent", upper \cup new)
    /\ UNCHANGED troubles

\* Newest id first; all texts are of the session.
Page(table, n) ==
    {i \in DOMAIN table : Cardinality({j \in DOMAIN table : j > i}) < n}

Session ==
    /\ Free
    /\ LET upper == Rows("ram", ram, Page(ram, Limit))
           lower == Rows("ssd", ssd, Page(ssd, Limit - Cardinality(upper)))
       IN reader' = Reader("told", "session", upper \cup lower)
    /\ UNCHANGED <<tables, troubles>>

\* The candidates by query; more than one are a conflict.
Resolve(hits) ==
    /\ Free
    /\ LET upper == Rows("ram", ram, Search(ram, hits, Limit))
           lower == Rows("ssd", ssd, Search(ssd, hits, Limit - Cardinality(upper)))
       IN reader' = Reader("told", "resolve", upper \cup lower)
    /\ UNCHANGED <<tables, troubles>>

SemanticSearch ==
    /\ Free
    /\ \E found \in VecSearch(2 * Limit) : \E near \in SUBSET (found \cap DOMAIN ram) :
         /\ Cardinality(near) <= Limit
         /\ near = found \cap DOMAIN ram \/ Cardinality(near) = Limit
         /\ reader' = Reader("told", "near", Rows("ram", ram, near))
    /\ UNCHANGED <<tables, troubles>>

RecallNext ==
    \/ Store \/ CatchUp \/ Restore
    \/ \E i \in 1..MaxId : VecUpsert(i) \/ Leaves(i)
    \/ \E hits \in SUBSET Texts : Recall(hits) \/ Resolve(hits)
    \/ SemanticBoost \/ Recent \/ Session \/ SemanticSearch

-----------------------------------------------------------------------------
(* Properties *)

Told(kinds) == reader.at = "told" /\ reader.kind \in kinds

\* "true (for cross-tier dedup)" (1718): no answer to /recall or /recent has a
\* row of the archive whose text it has from elsewhere too.  The one exception is
\* a copy put into the primary after the request came in and embedded while it
\* waited, which the vector index then finds under its new id.
RepeatsOnlyCopies ==
    Told({"recall", "recent"}) =>
        \A r \in reader.got : r.tier = "ssd" =>
            \A s \in reader.got \ {r} :
                s.text = r.text => s.tier = "semantic" /\ s.id > reader.from

\* "Searches all tiers" (1694): an answer with room left has every match of
\* either tier.  It does not hold: the archive is asked for as many as are
\* missing and may answer with those the primary gave already.
AllFound ==
    [][\A hits \in SUBSET Texts :
         Recall(hits) => (Cardinality(reader'.got) < Limit =>
            (TextsOf(ram) \cup TextsOf(ssd)) \cap hits
                \subseteq {r.text : r \in reader'.got})]_vars

\* "SSD only if RAM didn't fill the page" (2020): a session's page lists a row
\* once.  It does not hold: what is in the archive is in the primary as well.
SessionOnce ==
    Told({"session"}) => \A r, s \in reader.got : r.id = s.id => r = s

\* "Single decision, no conflict" (2977): a conflict is between two decisions.
\* It does not hold: a decision and its own copy in the archive are two.
ConflictIsReal ==
    Told({"resolve"}) => (Cardinality(reader.got) > 1 => Cardinality({r.text : r \in reader.got}) > 1)

\* A semantic search finds as many rows as are embedded, up to the limit.  It
\* does not hold: vectors of rows that are gone take the places.
NearAll ==
    [][SemanticSearch =>
         (Cardinality(vec \cap DOMAIN ram) >= Limit => Cardinality(reader'.got) = Limit)]_vars
=============================================================================
