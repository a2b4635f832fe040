----------------------------- MODULE Embedding ------------------------------
(***************************************************************************)
(* How rows get their embeddings (scripts/vcontext-server.js): the store   *)
(* handler asks for one behind a mutex (5136-5171), the embed loop         *)
(* (3418-3552) takes the newest rows that have none, a batch at a time,    *)
(* and the maintenance cycle copies what it finds into the vector index    *)
(* (vecSync, 4979) and the archive (syncEmbeddingsToSsd, 4683).            *)
(*                                                                         *)
(* A vector is abstracted to the row whose content it was made from and    *)
(* the dimension of the model that made it.  How long the loop sleeps      *)
(* (backoffMs, the empty backlog, the pause file) is not modelled: it may  *)
(* go on at any time.                                                      *)
(***************************************************************************)
EXTENDS Integers, SequencesExt, FiniteSetsExt

CONSTANTS
    MaxId,          \* bound: ids 1..MaxId are given out
    Batch,          \* BATCH of the embed loop
    SyncBatch,      \* BATCH of vecSync
    SsdBatch,       \* rows syncEmbeddingsToSsd looks at
    Skipped,        \* ids of rows of the types the loop leaves out
    Blank,          \* ids of rows the model has an empty embedding for
    MaxTroubles     \* bound: failures, outages, prunes, restarts, a new model

Ids == 1..MaxId
Dims == {"old", "new"}

EmbeddingAssumption ==
    /\ MaxId \in Nat /\ Batch \in Nat \ {0} /\ SyncBatch \in Nat \ {0}
    /\ SsdBatch \in Nat \ {0} /\ MaxTroubles \in Nat
    /\ Skipped \subseteq Ids /\ Blank \subseteq Ids

None == [of |-> 0, dim |-> "none"]

VARIABLES
    last,           \* the last id given out
    twin,           \* the copy recall promoted of a row in the archive, or 0
    emb,            \* the embedding column of each row of the primary
    ssd,            \* the same in the archive
    vec,            \* vec_entries: a vector of each id, or None
    dim,            \* EMBED_DIM
    inline,         \* store handlers in the chain of withMlxLock, as row ids
    loop,           \* the embed loop: off, top, the batch it awaits, or hung
    mlxAvailable,
    streak,         \* _mlxEmbedFailStreak
    serving,        \* the embed server answers
    model,          \* the dimension of its model
    troubles

\* A column is a function on the rows there are.
tables == <<last, twin, emb, ssd, vec>>
probe  == <<mlxAvailable, streak>>
world  == <<serving, model>>
vars == <<tables, dim, inline, loop, probe, world, troubles>>

Rows == DOMAIN emb
Trouble == troubles < MaxTroubles /\ troubles' = troubles + 1
Calm == UNCHANGED troubles
TableDim == "old"       \* the dimension vec_entries was first created with
Asking(ids) == [at |-> "asks", ids |-> ids]
Off == [at |-> "off", ids |-> <<>>]
Looking == [at |-> "top", ids |-> <<>>]
Hung == [at |-> "hung", ids |-> <<>>]
Nobody == 0             \* in the chain: a handler whose answer never ends

Init ==
    /\ last = 0 /\ twin = [i \in Ids |-> 0] /\ emb = <<>> /\ ssd = <<>>
    /\ vec = [i \in Ids |-> None] /\ dim = TableDim
    /\ inline = <<>> /\ loop = Off
    /\ mlxAvailable = FALSE /\ streak = 0
    /\ serving \in BOOLEAN /\ model = "old" /\ troubles = 0

With(table, i, v) == [j \in DOMAIN table \cup {i} |-> IF j = i THEN v ELSE table[j]]
First(ids, n) == {i \in ids : Cardinality({j \in ids : j < i}) < n}

\* The newest of ids, latest first.
Newest(ids, n) == [k \in 1..n |-> CHOOSE i \in ids : Cardinality({j \in ids : j > i}) = k - 1]

-----------------------------------------------------------------------------
(* Rows come, go and come back *)

\* handleStore: the embedding is asked for at once, if the server is thought
\* to be there.  The write-through may fail (module TierStore).
Store ==
    /\ last < MaxId /\ last' = last + 1
    /\ emb' = With(emb, last', None)
    /\ \/ ssd' = With(ssd, last', None) /\ Calm
       \/ UNCHANGED ssd /\ Trouble
    /\ inline' = IF mlxAvailable THEN Append(inline, last') ELSE inline
    /\ UNCHANGED <<twin, vec, dim, loop, probe, world>>

\* A prune or a removal of duplicates.  vec_entries keeps its vector.
Delete(i) ==
    /\ i \in Rows /\ Trouble
    /\ emb' = [j \in Rows \ {i} |-> emb[j]]
    /\ UNCHANGED <<last, twin, ssd, vec, dim, inline, loop, probe, world>>

\* Recall found row i in the archive only: promoteToRam gives the copy an id of
\* its own and not the embedding, and does not ask for one.
Promote(i) ==
    /\ i \in DOMAIN ssd \ Rows /\ twin[i] \notin Rows
    /\ last < MaxId /\ last' = last + 1
    /\ emb' = With(emb, last', None)
    /\ twin' = [twin EXCEPT ![i] = last']
    /\ UNCHANGED <<ssd, vec, dim, inline, loop, probe, world, troubles>>

\* syncRamToSsd: rows above the archive's largest id, embeddings included.
CatchUp ==
    LET top == Max(DOMAIN ssd \cup {0})
        gap == {i \in Rows : i > top}
    IN  /\ gap # {}
        /\ ssd' = [i \in DOMAIN ssd \cup gap |-> IF i \in gap THEN emb[i] ELSE ssd[i]]
        /\ UNCHANGED <<last, twin, emb, vec, dim, inline, loop, probe, world, troubles>>

-----------------------------------------------------------------------------
(* An embedding arrives *)

\* vecUpsert refuses what is not of the dimension in use, and the table what is
\* not of its own; whether there is still a row it does not ask.
Indexed(got) ==
    vec' = [i \in Ids |-> IF got[i] # None /\ got[i].dim = dim /\ dim = TableDim
                          THEN got[i] ELSE vec[i]]

\* got[i] is the vector for row i, None where there is none.  That the archive
\* or the index cannot be written is caught, and the rest goes on.
Write(got) ==
    LET archived == ssd' = [i \in DOMAIN ssd |-> IF got[i] # None THEN got[i] ELSE ssd[i]]
    IN  /\ emb' = [i \in Rows |-> IF got[i] # None THEN got[i] ELSE emb[i]]
        /\ \/ archived /\ Indexed(got) /\ Calm
           \/ UNCHANGED ssd /\ Indexed(got) /\ Trouble
           \/ archived /\ UNCHANGED vec /\ Trouble

\* What the server makes of row i's content.
Made(i) == IF i \in Blank THEN None ELSE [of |-> i, dim |-> model]
Nothing == [i \in Ids |-> None]

\* The mutex lets the first handler in the chain ask; its answer is written.
InlineAnswers ==
    /\ inline # <<>> /\ Head(inline) # Nobody /\ serving
    /\ Write([Nothing EXCEPT ![Head(inline)] = Made(Head(inline))])
    /\ inline' = Tail(inline)
    /\ UNCHANGED <<last, twin, dim, loop, probe, world>>

\* Refused, or no answer in 60 s: logged, and not tried again.
InlineFails ==
    /\ inline # <<>> /\ Head(inline) # Nobody /\ (IF serving THEN Trouble ELSE Calm)
    /\ inline' = Tail(inline)
    /\ UNCHANGED <<tables, dim, loop, probe, world>>

\* A response that ends after its headers settles nothing, and the chain waits.
InlineBreaksOff ==
    /\ inline # <<>> /\ Head(inline) # Nobody /\ Trouble
    /\ inline' = [inline EXCEPT ![1] = Nobody]
    /\ UNCHANGED <<tables, dim, loop, probe, world>>

-----------------------------------------------------------------------------
(* The embed loop *)

\* After the first probe, or by self-healing: never while it runs.
LoopStart ==
    /\ loop = Off
    /\ loop' = Looking
    /\ UNCHANGED <<tables, dim, inline, probe, world, troubles>>

\* Mutant: a success does not reset the streak.
ProbedNoReset ==
    /\ streak' = IF ~serving /\ streak < 3 THEN streak + 1 ELSE streak
    /\ mlxAvailable' = ((serving \/ mlxAvailable) /\ streak' < 3)

\* checkMlx: available at one success, not available after three failures.
Probed ==
    IF serving THEN mlxAvailable' = TRUE /\ streak' = 0
    ELSE /\ streak' = IF streak < 3 THEN streak + 1 ELSE streak
         /\ mlxAvailable' = (mlxAvailable /\ streak' < 3)

\* The loop asks when it believes the server away; so does every maintenance.
LoopProbes ==
    /\ loop = Looking /\ ~mlxAvailable
    /\ Probed
    /\ UNCHANGED <<tables, dim, inline, loop, world, troubles>>

CycleProbes ==
    /\ Probed
    /\ UNCHANGED <<tables, dim, inline, loop, world, troubles>>

\* embedding IS NULL, without the types that are left out.
Backlog == {i \in Rows \ Skipped : emb[i] = None}

\* ORDER BY id DESC LIMIT BATCH
LoopAsks ==
    /\ loop = Looking /\ mlxAvailable /\ Backlog # {}
    /\ LET waiting == Cardinality(Backlog)
       IN  loop' = Asking(Newest(Backlog, IF Batch < waiting THEN Batch ELSE waiting))
    /\ UNCHANGED <<tables, dim, inline, probe, world, troubles>>

\* Mutant: an answer is used whatever its length.
AcceptsAny(answer, ids) == TRUE

\* embeddings.length === rows.length
Accepts(answer, ids) == Len(answer) = Len(ids)

\* Row by row in the order asked: the k-th answer is for the k-th row.
Matched(answer, ids) ==
    [i \in Ids |-> IF \E k \in 1..Len(ids) : ids[k] = i /\ k <= Len(answer)
                   THEN answer[CHOOSE k \in 1..Len(ids) : ids[k] = i] ELSE None]

\* The answer has a vector for every row, or the server left one out.
LoopAnswered ==
    /\ loop.at = "asks" /\ serving
    /\ LET all == [k \in 1..Len(loop.ids) |-> Made(loop.ids[k])]
       IN  \E answer \in {all} \cup {RemoveAt(all, k) : k \in 1..Len(all)} :
              /\ answer # all => troubles < MaxTroubles
              /\ IF Accepts(answer, loop.ids) THEN Write(Matched(answer, loop.ids))
                 ELSE Trouble /\ UNCHANGED <<emb, ssd, vec>>
    /\ loop' = Looking
    /\ UNCHANGED <<last, twin, dim, inline, probe, world>>

\* Refused, or no answer in ten minutes.
LoopFails ==
    /\ loop.at = "asks" /\ (IF serving THEN Trouble ELSE Calm)
    /\ loop' = Looking
    /\ UNCHANGED <<tables, dim, inline, probe, world>>

\* The same of a batch: the loop counts as running.
LoopBreaksOff ==
    /\ loop.at = "asks" /\ Trouble
    /\ loop' = Hung
    /\ UNCHANGED <<tables, dim, inline, probe, world>>

-----------------------------------------------------------------------------
(* The maintenance cycle *)

\* Mutant: those that have a vector are not left out.
SyncedFirst(d) ==
    LET ids == First({i \in Rows : emb[i] # None}, SyncBatch)
    IN  [i \in Ids |-> IF i \in ids /\ emb[i].dim = d /\ d = TableDim THEN emb[i] ELSE vec[i]]

\* The first SyncBatch rows with an embedding and no vector; of these, the
\* ones of the dimension in use.
Synced(d) ==
    LET ids == First({i \in Rows : emb[i] # None /\ vec[i] = None}, SyncBatch)
    IN  [i \in Ids |-> IF i \in ids /\ emb[i].dim = d /\ d = TableDim THEN emb[i] ELSE vec[i]]

VecSync ==
    /\ vec' = Synced(dim) /\ vec' # vec
    /\ UNCHANGED <<last, twin, emb, ssd, dim, inline, loop, probe, world, troubles>>

\* The archive's empty ones among the first SsdBatch rows with an embedding.
SsdSync ==
    LET ids == First({i \in Rows : emb[i] # None}, SsdBatch)
    IN  /\ ssd' = [i \in DOMAIN ssd |-> IF ssd[i] = None /\ i \in ids THEN emb[i] ELSE ssd[i]]
        /\ ssd' # ssd
        /\ UNCHANGED <<last, twin, emb, vec, dim, inline, loop, probe, world, troubles>>

\* initVecDb takes the dimension of the newest embedding, and the index is
\* synced at once.  The primary is as it was.
Restart ==
    /\ Trouble
    /\ LET embedded == {i \in Rows : emb[i] # None}
       IN  dim' = IF embedded = {} THEN "old" ELSE emb[Max(embedded)].dim
    /\ vec' = Synced(dim')
    /\ inline' = <<>> /\ loop' = Off /\ mlxAvailable' = FALSE /\ streak' = 0
    /\ UNCHANGED <<last, twin, emb, ssd, world>>

\* The embed server, a process of its own.
Goes     == serving /\ Trouble /\ serving' = FALSE /\ UNCHANGED <<tables, dim, inline, loop, probe, model>>
Comes    == ~serving /\ serving' = TRUE /\ UNCHANGED <<tables, dim, inline, loop, probe, model, troubles>>
NewModel == ~serving /\ model = "old" /\ Trouble /\ model' = "new"
            /\ UNCHANGED <<tables, dim, inline, loop, probe, serving>>

Next ==
    \/ Store \/ CatchUp
    \/ \E i \in Ids : Delete(i) \/ Promote(i)
    \/ InlineAnswers \/ InlineFails \/ InlineBreaksOff
    \/ LoopStart \/ LoopProbes \/ CycleProbes
    \/ LoopAsks \/ LoopAnswered \/ LoopFails \/ LoopBreaksOff
    \/ VecSync \/ SsdSync \/ Restart
    \/ Goes \/ Comes \/ NewModel

\* Requests time out, timers fire, and launchd starts the embed server again.
EmbedFairness ==
    /\ WF_vars(Comes) /\ WF_vars(LoopStart)
    /\ WF_vars(LoopProbes) /\ WF_vars(LoopAsks) /\ WF_vars(LoopAnswered \/ LoopFails)
    /\ WF_vars(InlineAnswers \/ InlineFails)
    /\ WF_vars(VecSync) /\ WF_vars(SsdSync)

Spec == Init /\ [][Next]_vars /\ EmbedFairness

-----------------------------------------------------------------------------
(***************************************************************************)
(* Properties                                                              *)
(***************************************************************************)

\* Every embedding is of the row that has it, in the primary, the archive and
\* the index: an answer shorter than its batch, which would shift the vectors
\* after the one left out, is refused (3516, 3535), and two writers that race
\* write the same.
OwnVector ==
    /\ \A i \in Rows : emb[i] # None => emb[i].of = i
    /\ \A i \in DOMAIN ssd : ssd[i] # None => ssd[i].of = i
    /\ \A i \in Ids : vec[i] # None => vec[i].of = i

Embedded(i) == i \in {j \in Rows : emb[j] # None}

\* "Always start the embed loop regardless of initial probe result" (8469):
\* a row the loop does not leave out gets its embedding in the end or is
\* deleted, whatever failed before, and fewer blank rows than a batch do not
\* hold up the older ones; unless an answer breaks off.
BacklogDrains ==
    \A i \in Ids \ (Skipped \cup Blank) :
        (i \in Rows) ~> (Embedded(i) \/ i \notin Rows \/ loop = Hung)

\* "Also handle: loop flag stuck true" (3665): the same whatever breaks off.
LoopHeals ==
    \A i \in Ids \ (Skipped \cup Blank) :
        (i \in Rows) ~> (Embedded(i) \/ i \notin Rows)

\* "Sync new embeddings to vec index" (3609): under one model, a row with an
\* embedding gets its vector, by whatever way it came.
IndexCatchesUp ==
    [](model = TableDim) =>
        \A i \in Ids : Embedded(i) ~> (vec[i] # None \/ i \notin Rows)

\* "Embedding backfill RAM -> SSD" (4678): the archive gets every embedding
\* its row has in the primary.
SsdCatchesUp ==
    \A i \in Ids :
        (Embedded(i) /\ i \in DOMAIN ssd)
            ~> (i \in Rows \cap DOMAIN ssd => ssd[i] # None)
=============================================================================
