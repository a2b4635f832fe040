----------------------------- MODULE TierStore -----------------------------
(***************************************************************************)
(* The entry store of scripts/vcontext-server.js: one logical table kept   *)
(* in a primary SQLite database ("RAM DB", ramDb), an archive database     *)
(* ("SSD DB", ssdDb) and an append-only JSONL log (entries-wal.jsonl).     *)
(*                                                                         *)
(* An entry is its content (a member of Keys, standing for one             *)
(* session/type/content triple with a session) under an integer id; the    *)
(* only other column that steers the code is whether content_hash is set,  *)
(* because the UNIQUE index and the duplicate checks look at nothing else. *)
(* The databases are taken after the one-shot /admin/dedup-migration, so   *)
(* the column exists on both sides and the index on the primary.           *)
(*                                                                         *)
(* Node runs each handler to its next await without interruption, so one   *)
(* action is one such run: a whole HTTP handler, one setImmediate          *)
(* callback, one timer tick.                                               *)
(***************************************************************************)
EXTENDS Naturals, Sequences, FiniteSets

CONSTANTS Keys,         \* contents clients store
          TextOf,       \* [Keys -> ...]: type and text, which several sessions can share
          NoRow,        \* an id no row of a database has
          UseRamDisk,   \* VCONTEXT_USE_RAMDISK=1: primary on a RAM disk, over 85 per cent full
          WalQueueMax,  \* _WAL_QUEUE_MAX
          MaxId,        \* bound: AUTOINCREMENT ids handed out
          MaxRestarts,  \* bound: process restarts
          MaxLosses     \* bound: losses of the primary file

ASSUME ConstantsAssumption ==
  /\ UseRamDisk \in BOOLEAN
  /\ WalQueueMax \in Nat
  /\ MaxId \in Nat
  /\ MaxRestarts \in Nat
  /\ MaxLosses \in Nat

Ids == 1..MaxId
Rows == [key : Keys, hashed : BOOLEAN]
Tables == [Ids -> Rows \cup {NoRow}]
Lines == [id : Ids, key : Keys]

ASSUME NoRowAssumption == NoRow \notin Rows

VARIABLES
  primary,   \* entries of the primary database
  nextP,     \* its sqlite_sequence: the largest id ever given
  archive,   \* entries of the archive database
  lastA,     \* its sqlite_sequence
  todo,      \* setImmediate write-through callbacks, in order
  walq,      \* _walQueue
  flushes,   \* flusher callbacks scheduled and not yet started
  inflight,  \* batches handed to fs.appendFile and not yet answered
  wal,       \* lines of entries-wal.jsonl
  snap,      \* newest snapshot of the primary: rows and sequence
  acked,     \* history: contents a client was told are stored
  pruned,    \* history: contents an operator deleted since
  restarts,  \* history: restarts of the process
  losses     \* history: losses of the primary file

pdb == <<primary, nextP>>
adb == <<archive, lastA>>
log == <<todo, walq, flushes, inflight, wal>>
hist == <<acked, pruned>>
env == <<snap, restarts, losses>>
vars == <<pdb, adb, log, hist, env>>

Used(db) == {i \in Ids : db[i] # NoRow}
KeysOf(db) == {db[i].key : i \in Used(db)}
Above(i, db) == \A j \in Used(db) : j < i
IsTop(n, S) == n \in S /\ \A m \in S : m <= n
Larger(m, n) == IF m > n THEN m ELSE n
HasHash(db, k) == \E i \in Used(db) : db[i] = [key |-> k, hashed |-> TRUE]
Plain(row) == [row EXCEPT !.hashed = FALSE]  \* copied without content_hash

TypeOK ==
  /\ primary \in Tables /\ archive \in Tables
  /\ nextP \in 0..MaxId /\ lastA \in 0..MaxId
  /\ todo \in Seq(Lines) /\ walq \in Seq(Lines) /\ wal \in Seq(Lines)
  /\ flushes \in Nat /\ inflight \subseteq Seq(Lines)
  /\ snap \in [rows : Tables, next : 0..MaxId]
  /\ acked \subseteq Keys /\ pruned \subseteq Keys
  /\ restarts \in 0..MaxRestarts /\ losses \in 0..MaxLosses

Empty == [i \in Ids |-> NoRow]

Init ==
  /\ primary = Empty /\ nextP = 0
  /\ archive = Empty /\ lastA = 0
  /\ todo = <<>> /\ walq = <<>> /\ flushes = 0 /\ inflight = {} /\ wal = <<>>
  /\ snap = [rows |-> Empty, next |-> 0]
  /\ acked = {} /\ pruned = {}
  /\ restarts = 0 /\ losses = 0

-----------------------------------------------------------------------------
(* Storing.                                                                *)

Ack(k) == acked' = acked \cup {k} /\ pruned' = pruned \ {k}

\* An INSERT into the primary takes the next id of its sequence.
Insert(k, hashed) ==
  /\ nextP < MaxId
  /\ nextP' = nextP + 1
  /\ primary' = [primary EXCEPT ![nextP + 1] = [key |-> k, hashed |-> hashed]]

\* Mutant: the duplicate check also consults the archive.
DuplicateAnywhere(k) == HasHash(primary, k) \/ HasHash(archive, k)

Duplicate(k) == HasHash(primary, k)

\* POST /store.
Store(k) ==
  /\ IF Duplicate(k)
     THEN UNCHANGED <<pdb, todo>>
     ELSE /\ Insert(k, TRUE)
          /\ todo' = Append(todo, [id |-> nextP + 1, key |-> k])
  /\ Ack(k)
  /\ UNCHANGED <<adb, walq, flushes, inflight, wal, env>>

\* The inserts that bypass handleStore (task requests, alerts, discovery):
\* no content_hash, no write-through, no JSONL line.
InsertDirect(k) ==
  /\ Insert(k, FALSE)
  /\ Ack(k)
  /\ UNCHANGED <<adb, log, env>>

\* Mutant: no _walFlushing flag, every append starts a flusher.
NeverFlushing == FALSE

Flushing == flushes > 0 \/ inflight # {}

AppendToWalQueue(line) ==
  IF Len(walq) >= WalQueueMax
  THEN UNCHANGED <<walq, flushes>>
  ELSE /\ walq' = Append(walq, line)
       /\ flushes' = IF Flushing THEN flushes ELSE flushes + 1

\* The setImmediate callback of a store; ok is whether the archive took the
\* statement (SQLITE_BUSY, disk full ... are logged and forgotten).
WriteThrough(ok) ==
  /\ todo # <<>>
  /\ LET line == Head(todo) IN
     /\ IF ok /\ archive[line.id] = NoRow
        THEN /\ archive' = [archive EXCEPT ![line.id] = [key |-> line.key, hashed |-> TRUE]]
             /\ lastA' = Larger(lastA, line.id)
        ELSE UNCHANGED adb
     /\ AppendToWalQueue(line)
  /\ todo' = Tail(todo)
  /\ UNCHANGED <<pdb, inflight, wal, hist, env>>

\* The flusher starts: it takes the whole queue and awaits fs.appendFile.
FlushStart ==
  /\ flushes > 0
  /\ flushes' = flushes - 1
  /\ inflight' = IF walq = <<>> THEN inflight ELSE inflight \cup {walq}
  /\ walq' = <<>>
  /\ UNCHANGED <<pdb, adb, todo, wal, hist, env>>

\* appendFile answers; a batch it could not write is forgotten.
FlushDone(batch, ok) ==
  /\ batch \in inflight
  /\ wal' = IF ok THEN wal \o batch ELSE wal
  /\ inflight' = (inflight \ {batch}) \cup (IF walq = <<>> THEN {} ELSE {walq})
  /\ walq' = <<>>
  /\ UNCHANGED <<pdb, adb, todo, flushes, hist, env>>

-----------------------------------------------------------------------------
(* The maintenance timers and the admin endpoints.                         *)

\* syncRamToSsd: rows above the archive's largest id, without their hash.
CatchUp(db) == [i \in Ids |-> IF i \in Used(primary) /\ Above(i, db)
                              THEN Plain(primary[i]) ELSE db[i]]

Sync ==
  /\ \E i \in Used(primary) : Above(i, archive)
  /\ archive' = CatchUp(archive)
  /\ \E n \in Used(primary) : IsTop(n, Used(primary)) /\ lastA' = Larger(lastA, n)
  /\ UNCHANGED <<pdb, log, hist, env>>

\* Mutant: the UNIQUE error is swallowed and the duplicate stays.
BackfillKeeps(i) ==
  /\ i \in Used(primary) /\ ~primary[i].hashed
  /\ ~HasHash(primary, primary[i].key)
  /\ primary' = [primary EXCEPT ![i].hashed = TRUE]
  /\ UNCHANGED <<nextP, adb, log, hist, env>>

\* One row of the content-hash backfill: the UNIQUE index turns the row away
\* when another row already has the hash, and the row is deleted.
Backfill(i) ==
  /\ i \in Used(primary) /\ ~primary[i].hashed
  /\ primary' = [primary EXCEPT ![i] =
       IF HasHash(primary, @.key) THEN NoRow ELSE [@ EXCEPT !.hashed = TRUE]]
  /\ UNCHANGED <<nextP, adb, log, hist, env>>

\* Recall found the row only in the archive: promoteToRam gives the copy an id
\* of its own. (The code also skips a copy with the same created_at; here an
\* unhashed twin never stops it.)
Promote(i) ==
  /\ i \in Used(archive)
  /\ ~HasHash(primary, archive[i].key)
  /\ Insert(archive[i].key, TRUE)
  /\ UNCHANGED <<adb, log, hist, env>>

Without(db, k) == [i \in Ids |-> IF i \in Used(db) /\ db[i].key = k THEN NoRow ELSE db[i]]

\* DELETE /prune of the rows old enough, here those of one content; the
\* archive's delete may fail after the primary's was committed.
Prune(k, ok) ==
  /\ k \in KeysOf(primary)
  /\ primary' = Without(primary, k)
  /\ archive' = IF ok THEN Without(archive, k) ELSE archive
  /\ pruned' = pruned \cup {k}
  /\ UNCHANGED <<nextP, lastA, log, acked, env>>

\* POST /admin/dedup-ssd keeps the smallest id of each type and hash, whatever
\* the session.
DedupSsd ==
  LET hashed == {i \in Used(archive) : archive[i].hashed}
      extra == {i \in hashed : \E j \in hashed :
                  j < i /\ TextOf[archive[j].key] = TextOf[archive[i].key]}
  IN /\ extra # {}
     /\ archive' = [i \in Ids |-> IF i \in extra THEN NoRow ELSE archive[i]]
     /\ UNCHANGED <<pdb, lastA, log, hist, env>>

\* Mutant: the archive's next id is taken one too low.
SlotOffByOne(p, copied) == (lastA + Cardinality({q \in copied : q <= p})) - 1

\* AUTOINCREMENT id the archive gives to the row at position p.
Slot(p, copied) == lastA + Cardinality({q \in copied : q <= p})

\* migrateRamToSsd over the rows its query returned, oldest access first:
\* rows[n] is the n-th, failed the positions whose INSERT threw. The archive
\* gives every copied row a fresh id; the delete loop takes the first
\* migratedCount rows of the list.
Migrate(rows, failed) ==
  LET n == Len(rows)
      copied == (1..n) \ failed
      gone == {rows[p] : p \in 1..(n - Cardinality(failed))}
  IN /\ UseRamDisk
     /\ lastA + Cardinality(copied) <= MaxId
     /\ archive' = [i \in Ids |->
          IF \E p \in copied : Slot(p, copied) = i
          THEN primary[rows[CHOOSE p \in copied : Slot(p, copied) = i]] ELSE archive[i]]
     /\ lastA' = lastA + Cardinality(copied)
     /\ primary' = [i \in Ids |-> IF i \in gone THEN NoRow ELSE primary[i]]
     /\ UNCHANGED <<nextP, log, hist, env>>

StaleLists == {rows \in UNION {[1..n -> Used(primary)] : n \in 1..MaxId} :
                 \A p, q \in DOMAIN rows : rows[p] = rows[q] => p = q}

\* POST /admin/replay-wal: INSERT OR IGNORE of every line, in file order. A
\* line lands unless its id is taken or its hash is, by a row or an earlier line.
ReplayWal ==
  \E landed \in SUBSET DOMAIN wal :
    LET Blocks(m, p) == m < p /\ (wal[m].id = wal[p].id \/ wal[m].key = wal[p].key)
        At(i) == {p \in landed : wal[p].id = i}
    IN /\ \A p \in DOMAIN wal : p \in landed <=>
            /\ wal[p].id \notin Used(primary)
            /\ ~HasHash(primary, wal[p].key)
            /\ ~\E m \in landed : Blocks(m, p)
       /\ landed # {}
       /\ primary' = [i \in Ids |-> IF At(i) = {} THEN primary[i]
                        ELSE [key |-> wal[CHOOSE p \in At(i) : TRUE].key, hashed |-> TRUE]]
       /\ \E n \in 0..MaxId : IsTop(n, {nextP} \cup {wal[p].id : p \in landed}) /\ nextP' = n
       /\ UNCHANGED <<adb, log, hist, env>>

-----------------------------------------------------------------------------
(* Snapshots, restarts and the loss of the primary file.                   *)

\* The maintenance script copies the primary aside, once a day (only a later loss
\* reads the copy, so none is taken once the bound on losses is used up).
Snapshot ==
  /\ losses < MaxLosses
  /\ snap' = [rows |-> primary, next |-> nextP]
  /\ UNCHANGED <<pdb, adb, log, hist, restarts, losses>>

\* restoreRamFromSsd: only when the primary has fewer rows than the archive,
\* and then only the rows above its largest id.
Restored(db) ==
  IF Cardinality(Used(db)) >= Cardinality(Used(archive)) THEN db
  ELSE [i \in Ids |-> IF i \in Used(archive) /\ Above(i, db)
                      THEN Plain(archive[i]) ELSE db[i]]

\* Memory is gone; the batch being appended may or may not have landed.
MemoryLost ==
  /\ todo' = <<>> /\ walq' = <<>> /\ flushes' = 0 /\ inflight' = {}
  /\ \/ wal' = wal
     \/ \E batch \in inflight : wal' = wal \o batch

\* Mutant: ids without AUTOINCREMENT, the sequence is the largest id in use.
BootWithoutSequence(db, seq) ==
  /\ primary' = Restored(db)
  /\ \E n \in 0..MaxId : IsTop(n, {0} \cup Used(Restored(db))) /\ nextP' = n

Boot(db, seq) ==
  /\ primary' = Restored(db)
  /\ \E n \in 0..MaxId : IsTop(n, {seq} \cup Used(Restored(db))) /\ nextP' = n

\* The process dies and starts again over an intact primary.
Restart ==
  /\ restarts < MaxRestarts
  /\ restarts' = restarts + 1
  /\ MemoryLost
  /\ Boot(primary, nextP)
  /\ UNCHANGED <<adb, hist, snap, losses>>

\* Mutant: a salvage replaces the snapshot instead of being merged into it.
SalvageOnly(base, salvaged) ==
  IF salvaged = {} THEN base
  ELSE [i \in Ids |-> IF i \in salvaged THEN primary[i] ELSE NoRow]

\* checkAndRecoverDb found the primary corrupt: the newest snapshot takes its
\* place and the salvaged rows are merged in, INSERT OR IGNORE.
Merged(base, salvaged) ==
  [i \in Ids |-> IF i \in salvaged /\ base[i] = NoRow
                    /\ ~(primary[i].hashed /\ HasHash(base, primary[i].key))
                 THEN primary[i] ELSE base[i]]

\* salvaged is what was salvaged and merged: nothing when either failed (391,
\* 414).  Without a snapshot the server opens the corrupt file (369-374), which
\* is left out.
Recover(salvaged) ==
  /\ losses < MaxLosses
  /\ losses' = losses + 1
  /\ MemoryLost
  /\ LET db == Merged(snap.rows, salvaged) IN
     \E n \in 0..MaxId : IsTop(n, {snap.next} \cup Used(db)) /\ Boot(db, n)
  /\ UNCHANGED <<adb, hist, snap, restarts>>

Next ==
  \/ \E k \in Keys : Store(k) \/ InsertDirect(k)
  \/ \E ok \in BOOLEAN : WriteThrough(ok)
  \/ FlushStart
  \/ \E batch \in inflight, ok \in BOOLEAN : FlushDone(batch, ok)
  \/ Sync
  \/ \E i \in Ids : Backfill(i) \/ Promote(i)
  \/ \E k \in Keys, ok \in BOOLEAN : Prune(k, ok)
  \/ DedupSsd
  \/ \E rows \in StaleLists : \E failed \in SUBSET DOMAIN rows : Migrate(rows, failed)
  \/ ReplayWal
  \/ Snapshot
  \/ Restart
  \/ \E salvaged \in SUBSET Used(primary) : Recover(salvaged)

Spec == Init /\ [][Next]_vars

\* The five-minute cycle keeps coming round, so the backfill does.
FairSpec == Spec /\ \A i \in Ids : WF_vars(Backfill(i))

-----------------------------------------------------------------------------
(* Properties.                                                             *)

\* "keeps RAM/SSD ids aligned": while the primary file was never lost, an id
\* that both databases use names the same content in both.
AlignedIds ==
  losses = 0 => \A i \in Used(primary) \cap Used(archive) :
                  primary[i].key = archive[i].key

\* What a client was told is stored and nobody pruned can still be recalled:
\* from the primary, or with a RAM disk from either database.
Recallable == IF UseRamDisk THEN KeysOf(primary) \cup KeysOf(archive) ELSE KeysOf(primary)
AckedKept == losses = 0 => (acked \ pruned) \subseteq Recallable

\* "preserves issue order": the JSONL log lists the stores in the order their
\* ids were given, whatever the interleaving of callbacks and appends, as long
\* as ids are not given out again after a loss.
WalInOrder ==
  losses = 0 => \A m, n \in DOMAIN wal : m < n => wal[m].id < wal[n].id

\* Every write-through whose statement ran leaves its content in the archive
\* under its id: INSERT OR IGNORE never meets another content there.
WriteThroughLands ==
  [][(losses = 0 /\ WriteThrough(TRUE)) =>
       archive'[Head(todo).id] # NoRow /\ archive'[Head(todo).id].key = Head(todo).key]_vars

\* The hash backfill catches up with the inserts that bypass the duplicate
\* check: in the end every content has one row in the primary.
DuplicatesCollapse ==
  <>[](\A i, j \in Used(primary) : primary[i].key = primary[j].key => i = j)

Contents == KeysOf(primary) \cup KeysOf(archive)

\* A migration loses no content but that of a row whose own INSERT failed,
\* whatever the list and however many fail: a row that was copied is under an
\* id nobody had, and one that was not is still there unless it failed.
OnlyFailedLost ==
  [][\A rows \in StaleLists : \A failed \in SUBSET DOMAIN rows : Migrate(rows, failed) =>
       Contents \subseteq Contents' \cup {primary[rows[p]].key : p \in failed}]_vars

\* "Delete migrated rows from RAM" (1166): that a migration loses none at all
\* does not hold.  The first rows of the list are deleted, as many as were
\* copied (1173), and the first may be the one whose INSERT failed.
NothingLost ==
  [][\A rows \in StaleLists : \A failed \in SUBSET DOMAIN rows :
       Migrate(rows, failed) => Contents \subseteq Contents']_vars

\* "MERGE salvaged entries back" (311), "preserve at all cost" (309): after the
\* first loss the new primary holds every content of the snapshot and every
\* content that was salvaged, as long as no restart put archived rows into a
\* primary on a RAM disk.  (After a second loss it may not: replayed lines can
\* put another content under an id the snapshot uses.)
RecoveryIsSuperset ==
  [][\A salvaged \in SUBSET Used(primary) :
       (losses = 0 /\ (UseRamDisk => restarts = 0) /\ Recover(salvaged)) =>
         KeysOf(snap.rows) \cup {primary[i].key : i \in salvaged} \subseteq KeysOf(primary')]_vars

\* The same through restarts.  With a RAM disk it does not hold: a restored row
\* has an id of the archive's own sequence, and is ignored when the snapshot has
\* another row under it.
SalvageKept ==
  [][\A salvaged \in SUBSET Used(primary) : (losses = 0 /\ Recover(salvaged)) =>
       KeysOf(snap.rows) \cup {primary[i].key : i \in salvaged} \subseteq KeysOf(primary')]_vars

\* "fills gaps from failed write-through": after a catch-up every row of the
\* primary is in the archive.
SyncFillsGaps == [][Sync => Used(primary) \subseteq Used(archive')]_vars
=============================================================================
