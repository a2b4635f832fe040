# Formal models of super-skills

TLA+ models of the stateful parts of this repository: the vcontext entry store
and what reads and repairs it, the models behind it and the locks in front of
them, the queues between its processes, and the loops by which the system
summarises, extends and changes itself. TLC checks them on small instances,
TLAPS proves the most important properties for every value of the constants.
Line numbers and file names are relative to the repository (`scripts/...` is
`src/scripts/...` in `PROJECT.json`, which maps every definition to the lines it
stands for).

To check: `tlc -workers 2 -config MCTierStore.cfg MCTierStore` (and so on for
the runs below), `tlapm MlxLock_proofs.tla` for a proof module.

## 1. The system

The repository is a set of agent skills with a memory service under them. Apart
from the skills themselves (markdown) and one-shot scripts it is a handful of
processes on one machine that share two SQLite files, a few files in `/tmp`
and in the home directory, HTTP on localhost, and one expensive resource, an
MLX language model that must not be used by two of them at a time.

| component | state it keeps | operations | modelled by |
|---|---|---|---|
| Tiered entry store, `vcontext-server.js` | `entries` in a primary ("RAM") and an archive ("SSD") database, their AUTOINCREMENT sequences, the JSONL log and the queue before it, snapshots | `POST /store`, the inserts that bypass it, write-through, flusher, catch-up, backfill, promote, prune, dedup, migrate, replay, restart, recovery; recall, recent, session, resolve, semantic search | `TierStore`, `Recall` |
| MLX file lock, `aios-mlx-lock.{js,sh,py}` | `/tmp/aios-mlx-lock`: existence, text, mtime | acquire, release, status, re-entry of children, clearing of stale locks | `MlxLock` |
| MLX generate proxy, `mlx-generate-proxy.js` | `state` (value, promise, counter, last request), the launchd service | request, start, forward, idle unload, shutdown | `MlxProxy` |
| Task queue, `vcontext-server.js` 7377-7527, and `aios-task-runner.js` | three kinds of entries; `currentTaskId`, `shuttingDown` | submit, the derived view, poll, claim, run, result, orphan recovery, SIGTERM | `TaskQueue` |
| Server generator queue, `_mlxDrain` | priority queue, busy flag, the in-process mutex | `mlxGenerate`, `mlxEmbed`, drain with tries under the file lock | `Generator` |
| Embeddings of the rows | the `embedding` columns, the vector index, probes and failure streak | the store handler's own request, the embed loop, `vecSync`, the archive's copies | `Embedding` |
| Summary and discovery loops | `chunk-summary` rows; suggestions, triggers and the skill registry | L1/L2/L3 loops and triggers, probes and self-healing; discovery, prediction, `autoCreateSkill`, run-all | `Summaries`, `SkillMaker` |
| Anomaly detection | time of the last response of each kind | checks at the end of a cycle, alerts, restart of the embed server | `Anomalies` |
| Backups, log rotation | backup, `.bak`, `.tmp`; the generations of the log | admin, prune and shutdown copies, sweep at boot | `Backup` |
| Consultations | one row per question, rewritten as a whole | ask, poll, claim, answer, auto-respond, close | `Consultation` |
| Hooks: offline queue and gate, `vcontext-hooks.js`, `hooks-gate.mts` | `vcontext-queue.jsonl`, its `.draining` copy, dead letters, replay progress; the gate's flag files | `post`, `enqueueForLater`, `cmdDrainQueue`, dead-letter replay, the gate of a tool call | `HookQueue`, `Delivery` |
| Hooks: what a session records | position, counter and throttle files | `recordEvent` for tool calls and the end | `HookEvents` |
| Hooks: resuming a session | working-state and handoff rows, attach and detach files | `handleSessionRecall`, attach, detach | `Resume` |
| Change approval | the patch and idea rows, the git repository | approve, reject, adopt | `PatchFlow` |
| Self-evolve cycle, `self-evolve.js` | rows only | gather, merge, score, mutate, store | `SelfEvolve` |
| Scanners and miners | rows only | article scanner, feature watcher, conversation miner, query generator, keyword expander | `Scanners` |
| Installer, `install-apply.mjs` | the project's files, hooks file, `.install-state.json` | build, copy, merge, record | `Install` (the resolution of manifests is a choice of plans) |
| Watchdog, wrapper, launch agents | counters of failures, launchd | health checks, restarts | only the unload/load of the generator, in `MlxProxy` |
| API keys; embedding servers; session state; skill builders, validators and commit gates | a file rewritten by one process, or none | | not modelled |

How they interact. Hooks and clients call the server over HTTP; what they
cannot deliver goes to the offline queue. The task queue has no table of its
own, nor have summaries, suggestions, patches, alerts or handoffs: they are
entries of the store, and whoever works on them derives what is to be done from
rows. The runner takes the file lock before a heavy task and passes its holder
id to the child it spawns in `AIOS_MLX_LOCK_HOLDER`; server, runner and scripts
meet only through the lock file. All generator calls of the server go through
one queue and then the proxy, which drives launchd; the watchdog drives the same
service without asking the proxy.

What is hard here. Node runs each handler without interruption to its next
`await` or callback, so all interleavings are between awaits: a reply is sent
before the archive is written, a row is read before the body of the request that
changes it has arrived, a list is made before the model is asked about its
members. Hooks are processes that share files without a lock. Processes are
killed (out of memory, launchd, watchdog, and `approve-patch` by itself) and
restarted over whatever the files hold. HTTP calls time out on one side and are
handled on the other, and a response that breaks off after its headers ends
nothing. Statements and commands fail and the failure is logged and forgotten.
`PROJECT.json` lists its hazards, 40 places of this kind, each with the properties that watch
it or the reason why none does.

What makes each component correct:

* store: an id means the same content in both databases; what was acknowledged
  can be recalled until pruned; the log replays to the same ids; duplicates
  collapse; recovery and migration lose nothing they have in hand; an answer
  from both tiers repeats nothing.
* lock: two holders never work at a time; a child never waits for its parent; a
  dead holder's lock goes away.
* proxy and generator queue: one start at a time, never against a stop; one
  request to the model at a time, apart from other processes; every request
  ends; the model is unloaded when idle.
* task queue: at most one execution per request, one verdict, every request is
  claimed.
* embeddings: a row's vector is its own, every row gets one and the index follows.
* loops: a summary misses nothing of its period, whatever it waited for, but what
  a limit cuts off; a name is made into one skill; a loop that needs the generator comes
  back with it.
* backups: some whole copy is there at all times.
* consultations: an answer once given stays; a consensus was one; what the polls
  list settles.
* hooks: what was recorded arrives or is put aside; a message is not skipped; the
  latest work is resumed; the gate lets through who consulted the routing.
* self-change: what is merged was tested and parses; an idea, a key or a topic comes once.
* installer: the user's hooks stay in every file that can be merged.

## 2. Modules

| module | what it is |
|---|---|
| `TierStore`, `Recall` | the store; reading across its tiers |
| `MlxLock`, `MlxProxy`, `Generator` | the ways to the model: file lock, proxy, the server's queue |
| `TaskQueue` | server view and runner, one step per HTTP exchange |
| `Embedding`, `Summaries`, `SkillMaker`, `Anomalies` | the server's background work on rows |
| `Backup`, `Consultation` | files of backups; rows of consultations |
| `HookQueue`, `Delivery` | the offline queue and the gate; what they promise, which `HookQueue` implements |
| `HookEvents`, `Resume` | what hooks record and how a session resumes |
| `PatchFlow`, `SelfEvolve`, `Scanners` | how the system changes itself |
| `Install` | the installer |
| `Models` | `Generator` and `Embedding`, with fairness |
| `Parts` | `HookEvents`, `Resume`, `Recall`, `Install`, `Backup`, `Anomalies`, `PatchFlow`, `SkillMaker`, `Scanners`, `SelfEvolve` and `Summaries`, for safety |
| other `MC*` | constants of an instance of one module |
| `TierStore_proofs`, `MlxLock_proofs`, `MlxProxy_proofs`, `TaskQueue_proofs`, `Consultation_proofs`, `HookQueue_proofs`, `Models_proofs`, `Parts_proofs` | the proofs, each of the module it is named after |

The two sum modules (`Models`, `Parts`) put modules that share no
state into one specification: a variable `part`, chosen initially, says which of
them is at work, and the state space is the sum of theirs and not the product.
What is proved of a sum is proved of each of its parts at any value of the
constants, since a behaviour of a part is one of the sum.

### TierStore

`primary` and `archive` map ids to rows; `nextP` and `lastA` are the two
`sqlite_sequence` entries, which never go back while the file lives, even when
rows are deleted. A row is a content and whether `content_hash` is set:
duplicate checks and the UNIQUE index see nothing else. `todo` holds the
`setImmediate` callbacks of stores that have replied, `walq`, `flushes` and
`inflight` the flusher of `appendToWalQueue`, `wal` the lines of
`entries-wal.jsonl`. `Store` is a whole `handleStore`, reply included;
`WriteThrough(ok)` is its callback, with the archive's statement failing or
not; `FlushStart` and `FlushDone` are the two runs of the flusher. `Sync`,
`Backfill`, `Promote`, `Prune`, `DedupSsd`, `Migrate`, `ReplayWal` and
`Snapshot` are the maintenance handlers; `Restart` is a new process over the
same files, with `restoreRamFromSsd`; `Recover(salvaged)` is
`checkAndRecoverDb` finding the primary corrupt, taking the snapshot and
merging what could be salvaged.

Abstractions: keys stand for session/type/content triples with a session, of
types that are deduplicated; `TextOf` is their type and content, by which alone
`dedup-ssd` compares; the databases are those after
`/admin/dedup-migration` (both have `content_hash`, the primary its index);
full-text and vector indexes, metadata columns and the cloud tier (a stub) are
left out. `UseRamDisk` is `VCONTEXT_USE_RAMDISK=1`; off, the mode since April
2026, nothing migrates and recall reads the primary. `Recover` is the path with
a snapshot: without one (369-374) the code keeps what is there or starts empty,
and a salvage or merge that fails is the one that finds nothing. `POST /summarize`
replaces old rows of the primary by a summary (2091-2096): for the properties an
`InsertDirect` and a `Prune` of each in one step, and not an action of its own.

### Recall

`ram` and `ssd` are the tables, `vec` the ids of the vector index, `reader` the
one request and its answer. `Recall(hits)` is `handleRecall` to its semantic
boost: search of the primary, of the archive for as many as are missing,
`Unseen` (the cross-tier `seenIds`), `PromoteToRam`; `SemanticBoost` is what
comes after the await for the query's embedding, when the copies just made may
have been embedded and be found as neighbours. `Recent`, `Session`, `Resolve`
and `SemanticSearch` are the other reads. Which texts match is a choice, the
same in both tiers. `searchTier`'s order, oldest first, is the code's: it says
which rows an answer has when there are more than asked for (`Older`, `Newer`). The
answer itself is a set of rows, since nothing in the properties depends on the
order in which it lists them; the copies' ids, which do, are given in that order.

### MlxLock

`creator`, `written`, `old` describe the file: who created it, whether its text
is there, whether its mtime is over 25 minutes ago. `pc[p]` walks
`tryMlxLock` (`Enter`, `Look`, `Judge`, `Clear`, `Create`, `Write`, `Retry`,
`GiveUp`), `mlxLockStatus` (`Peek...`) and `releaseMlxLock` (`Leave`, `Check`,
`Remove`), one step per system call that another process can get in between.
`Unlink` removes whatever file the path names then, and records in `broken`
whether somebody was running under it. `Die` ends a process anywhere; `Age`
passes 25 minutes. `WithPid` are the callers whose holder id carries a PID (the
task runner's does not, so its orphaned lock goes only by age).

### MlxProxy

`value`, `promise`, `active`, `idle` are the fields of `state`; `pc` is where
each handler awaits (`body`, `joined` to a start, `forward`, `stream`, `hung`),
`start` where the start a request launched awaits, `stop` the same for
`stopMlx` from the timer or the signal handler. `Claim` is the assignment the
source calls an atomic claim. `Refuse` and `Healthy` settle the promise, and
all who await it go on in the same step, as microtasks do. `Exit` ends the
process at any point, the command under way going on or not; launchd's
`KeepAlive` starts it again, so a fresh process follows in the same step. The
service (`loaded`, `enabled`, `up`) and the watchdog are external.
`BreaksOff`: `forwardToMlx` listens to the response's `end` and to the
request's `error` and `timeout`; a connection that closes after the headers
gives the response only `aborted` and `close`, and the handler awaits for ever.

### TaskQueue

`requests`, `updates`, `results` are the entries in id order; `Pending` and
`Running` are the derived lists with the code's windows (200/400/200) and cut
(20); `Before` is the sort. The runner's `pc` separates sending from learning
the outcome: `Answered` and `Unanswered` are the two ends of a POST, and an
unanswered one may be in `late` and be handled at any later time. `aged` counts
the updates more than 30 minutes old, which is what `recoverOrphans` asks of
them; half an hour passes only while no task runs and no POST is under way,
because tasks are killed after at most 20 minutes and POSTs after seconds.
Whether a heavy task gets the lock is a choice (`Dispatch` or `LockBusy`); the
protocol behind it is `MlxLock`. The task bodies are one step. Not modelled:
the hard exit after 25 minutes of shutdown and a child that ignores its
timeout's signal.

### Generator

`queue`, `running` are `_mlxQueue` and `_mlxRunning`; `call[c]` where a call of
`mlxGenerate` is, `chain` the promise chain of `withMlxLock` that calls and
single embeddings share, `file` who has the file lock (the protocol is
`MlxLock`). `GoOn` is the loop of `_mlxDrain` to its next await: sort by
priority, take the first, or end. `LockBusy` is the wait of five minutes that
runs out; the lock is kept over the pauses between tries, the mutex is not.
`BreaksOff` is the response that ends after its headers (5330-5350): nobody
settles it, and the loop and the mutex stay where they are until `Restart`.
`GetsLate` is the file reaching 25 minutes, which needs nothing to hang: its mtime
is never refreshed, and tries of ten minutes, pauses and the embeddings that go
first at the mutex add up; `OtherTakes` then clears it and takes the lock.

### Embedding

`emb`, `ssd`, `vec` hold the vector of each row in the primary, the archive and
the index, a vector being the row it was made from and its dimension. `inline`
is the chain of store handlers that wait for an embedding, `loop` the embed
loop (`off`, `top`, the batch it awaits, or hung). `LoopAsks` takes the newest
rows without an embedding, `LoopAnswered` writes the batch unless it is short,
`LoopFails` counts towards the streak that turns `mlxAvailable` off,
`LoopProbes` and `CycleProbes` turn it on again. `VecSync` and `SsdSync` are
the two copies of the maintenance cycle, `Promote` the copy that recall makes of
an archived row and its vector. The server, its outages (`Goes`, `Comes`) and a
new model are the environment.

### Summaries

A unit of time is five minutes. `raw` are the entries, `chunks` the summaries
with the sources they were made of, `job[j]` what a run will insert after its
await. `LookL1`, `LookL2`, `LookL3` are one look of each loop and the triggers
the same without the loop; `Ends` is the model's answer or failure, and the
insert. `Count` is the query's limit (`RowLimit`: 200 and 14 rows) and `Sources`
what is left of the rows when their joined text is cut: `Room` says how many fit
however long they are, and any number above it may. `FirstProbe` starts the loops once,
`ProbeHeals` and `Goes` are the
later probes, of which only the discovery loop profits.

### SkillMaker, PatchFlow, SelfEvolve, Scanners

`SkillMaker`: `job` is what the discovery loop and each run-all are at, with
the lists they made before their await (`Select` lists names and suggestions,
`Create` awaits the model for each). A run-all does not look whether another is
at work. The INSERT of a skill and the mark of its suggestion succeed or fail each
by itself (`inserts`, `marks` in `Create`), and `CutShort` ends the process between
the two. `PatchFlow`: `log` are the commits, `tip` the branches, `head` the one
checked out, `work` the files, a text being the set of patches in it (with `Broken`
for the markers of a conflict and for half a file); `tangled` is a conflict in the
index, `step` the approval under way. Each command and each write may fail and the
process may die between two of them, a merge may move main on, combine two texts
nobody tests, or conflict (`Merge`, `Combined`), and the next approval begins on
what is there. Which texts parse is a constant (`Sound`): two sound patches need
not be sound together.
`SelfEvolve`: `rows` are what may be gathered, `cycle` the working data through
`Gather`, `Merge`, scoring, choice and generation; a stream may list its rows in
any order its reader leaves open (`Listings`), `Merge` is one round of the loop of
`dedupeCandidates` and `MergeEnds` its return; rates and weights are
integers in hundredths, as the sort only compares them. `Scanners`: each
script is a process that looks for what it already stored, fetches, asks the
generator, stores an idea and then the row that says it did.

### Backup

`main`, `bak`, `tmp` are the files, each absent, whole, torn, empty or being
written by a job; an online backup keeps its descriptor and goes on writing
wherever the file is renamed to. `pc`, `turn` and `inFlight` are the jobs: two
`/admin/backup` requests and the `doBackup` of a prune. `Signal` to `Stop` are the
shutdown handler, which copies over `main` in place; `Boot` to `Booted` the next
process, with the rotation of the log one rename at a time. A process can end
between any two renames.

### Consultation

`rows` is the table, `req[m]` the request of a session whose row was read and
whose body has not arrived, `todo` what its poll found. `Respond` and `Claim` write
the row as it was read with one answer added; `Arrive` and `ClaimArrive` are the
reads. A poll looks through the newest rows of any status (`Newest`; `Listed` is the
code's 50), by a date in whole seconds. `Conflict` is the consultation `/store` asks for
by itself, in a form the
other handlers do not know. A consultation of the same millisecond replaces one.

### HookQueue and Delivery

`queue`, `staging`, `dead`, `replayed` are the files, `drain[d]` a drainer with
the lines it took. `Record` is a hook's `post`, answered, unanswered but
handled, unanswered and not handled; what was unanswered is appended. `Read`,
`Unlink`, `PostLine`, `WriteBack` are the steps of `cmdDrainQueue` other
processes can get between; `PostLine` posts through the same `post`, so a line
that fails is queued by it and written back as well. `Tool` is the gate of a
tool call: flag file, question to the server, grace, verdict. `Delivery` is the
promise of an entry (unsent, waiting, stored, aside, lost) and `StatusOf` the
refinement mapping: stored is for good, lost is for good, and nothing waits for
ever.

### HookEvents, Resume

`HookEvents`: the transcript grows in half lines, `hook[h]` is what each process
has read of the three files and will write back; reading the position, the
text, and saving the position are separate steps. `Resume`: `trail` are the
handoffs and working states in time order, `recall` the two searches with their
limits, the wait between, and what it chose; attach and detach change two files
in two steps.

### Install, Anomalies

`Install`: `tree` is the version of each component in the project, `hooks` the
hooks file of a target that merges, `record` the state file; a run copies,
merges and records and may end anywhere, leaving the file it wrote cut short.
The user edits, writes hooks files (`UserWrites`), and the repository moves on. A
hooks file may be one `JSON.parse` or the merge throws on (`odd`): the catch copies
the installer's over it (`CopyOver`), and over a good one when reading or writing
fails. `Anomalies`: rows are
counted by age in cycles; `Detect` and `Alert` are the end of a cycle, and the
alert and the audit row are rows themselves, of which the audit row is one the
embed loop takes first. Its INSERT may fail (`recorded` in `Audit`).

## 3. Runs

| run | instance | shows |
|---|---|---|
| `tier_store` | 2 contents, 3 ids, log queue of 1, 1 restart, default mode | `AlignedIds`, `AckedKept`, `WalInOrder`, `DuplicatesCollapse` |
| `tier_store_ram` | 2 contents of one text, 2 ids, RAM disk, 1 restart, 1 loss | `OnlyFailedLost`, `RecoveryIsSuperset` |
| `mlx_lock` | runner with child, server, script; deaths and ageing anywhere | `ExclusiveUntilBroken`, `OnlyClearingBreaks`, `OrphanCleared` |
| `mlx_lock_exit` | three peers, one exits normally after its release | **violated**: `MutualExclusion` |
| `mlx_proxy` | 3 requests, 1 process end, 1 failure, watchdog | `OneStart`, `StopsAlone`, `Answered`, `UnloadsWhenIdle` |
| `task_queue` | 2 tasks, 1 failure, 1 crash, 1 SIGTERM | `RunsOnce`, `VerdictStands`, `EveryTaskClaimed` |
| `models` | 3 calls of two priorities, 1 embedding, 2 tries, 3 troubles; 3 rows (one of a type left out, one blank), batch of 2, 2 troubles | `OneAtATime`, `ApartFromOthers`, `Settles`; `OwnVector`, `BacklogDrains`, `IndexCatchesUp` |
| `consultation` | 2 sessions, one not in lower case, 2 questions, 1 claim or loss | `ConsensusWasReached`, `OnlyOutdatedWritesForget` |
| `consultation_settles` | 2 sessions, 2 questions in one second or two, polls that list 1 row, 1 claim or loss | `Settles` |
| `hook_queue` | 2 entries, 2 drainers, 2 attempts, 3 unanswered posts, 1 refusal or kill | `LostOnlyBetweenReadAndUnlink`, `Delivers` (the refinement), `RoutedGetsThrough` |
| `summaries` | days of 2 units, a week of 2 days, 1 trigger, 1 entry, 1 trouble | `DiscoveryHeals` |
| `parts` | 1 tool hook and 1 end hook over 2 messages; 1 component, 2 targets, 2 versions; 2 backups and a prune over 4 logs; cycles with a window of 2; 3 patches of 2 files, 4 commits; 2 names, 2 suggestions, a run-all; 2 scans of an article; 3 rows of two sessions and 2 commands, lists of 1 handoff and 2 working states; 4 ids, answers of 2; 7 kinds of candidates, 2 taken; days of 2 units, a week of 5, 2 entries, queries of 2 rows and of 1, room for 1, a trigger; 1 or 2 troubles each, none for the summaries | `MessageKept`, `HooksKept`, `GoodCopySurvives`, `RestartsSpaced`, `OnlySoundMerged`, `OneSkillEach`, `IdeaOnce`, `PeriodIsWhole`, `LatestUnlessCrowded`, `RepeatsOnlyCopies`, `MergesRight` |

What a property says, and which sentence of the code or its documents it is
about, is in the comment above it. Each property of a passing run has a mutant in
`PROJECT.json`, a plausible bug in the code under which TLC finds it violated.

**Properties stated and not in a run.** The modules state more than the runs
check at every pass. Of these, the following hold as well in the same
instances (add the property to the configuration, or for a module that is only
instantiated an alias like the ones at the end of the sum modules): `TypeOK`
where a module has one, `WriteThroughLands`, `NoOvertaking`, `OneEach`, `InAtMostTwo`,
`BestOnce`,
`WordsRight`, `RefusedWhenFull`, `LastWordHolds`, `RecordHolds`,
`ThreeLogsKept`; with the fairness
their modules state, `Backup.BusyEnds` and `SkillMaker.Handled`; and, proved
(section 4), `UnbrokenWhileNoneEnds`, `ChildNeverWaits`, `CountIsExact`,
`NobodyLeftBehind`, `TopFirst`, `CachedVerdictHolds`, `OnlyTwoWaysToDamage` and
`StopFinishes`. Others state what a sentence of
the code says literally, and are violated: next paragraph.

**The disagreements.** `PROJECT.json` lists them under `findings`, each with the
sentence it contradicts. Those with a property in a module are reproduced by
putting that property in the place of the others in the configuration:

* store: catch-up skips gaps (`SyncFillsGaps`); on a RAM disk a recovery can drop
  a salvaged row (`SalvageKept`) and a migration deletes a row whose INSERT failed
  (`NothingLost`); a recall misses matches that
  are only in the archive (`AllFound`); a session's page lists rows twice
  (`SessionOnce`); a decision conflicts with its own copy (`ConflictIsReal`); with a
  limit of 1 and two rows gone, a semantic search finds nothing (`NearAll`).
* models: a released lock can be removed twice (`MutualExclusion`, run
  `mlx_lock_exit`); an item that is served for 25 minutes loses its lock to another
  process and goes on (`Generator.Apart`); a response that breaks off leaks the proxy's counter
  (`UnloadsAfterQuiet`, 1 request) and stops the generator queue
  (`EverySettles`) or the embed loop (`LoopHeals`); a killed proxy refuses all
  requests while the backend is loaded (`NextRequestWorks`, 1 client);
  embeddings do not all reach the archive (`SsdCatchesUp`).
* task queue: not FIFO within a second (`Fifo`, an invariant); a stop can pick a
  new task (`StopPicksNothing`).
* loops: the summary loops never start when the generator comes late
  (`SummariesHeal`); suggestions without a text block the others
  (`EveryoneHandled`); run-alls that overlap, or a mark that is not put, make a
  skill twice (`SkillMaker.NoDuplicates`); a busy day's summary leaves the later
  ones out (`Summaries.Bundles`); a healthy embed server is restarted
  (`RestartsOnlyStalled`).
* backups: an empty file passes verification and replaces a good `.bak`
  (`BakStaysGood`). Consultations of `/store` cannot be answered (`AutoSettles`),
  and what 50 newer ones push out of the list is not (`EverySettles`, run
  `consultation_settles`).
* hooks: a line put aside may still be queued (`GivesUp`), a session is blocked
  while its record waits in the queue (`RoutedNeverBlocked`), half a line read is
  a line skipped (`NoneTorn`), the limit per minute is exceeded by hooks at
  once (`LimitHolds`, with a clock), a crowded directory resumes old work
  (`LatestAlways`), attach and detach at once leave neither file
  (`RaceIsDecided`).
* self-change: a rejected patch enters main with the next (`RejectedStaysOut`), a
  merged one is not recorded (`VerdictRecorded`), one recorded as applied need not
  be in main (`AppliedIsIn`), a conflict or an untested merge brings a text into main
  that does not parse (`FailureRollsBack`), a cycle makes two patches for
  one skill (`OnePatchPerTarget`), a tool is proposed twice (`ProposedOnce`), an
  article whose evaluation failed is never evaluated (`Evaluated`).
* installer: local edits are overwritten (`EditsKept`), skipped components are
  recorded as installed (`RecordIsWhole`), a hooks file that cannot be merged is
  copied over (`HooksAlwaysKept`).

The properties that hold are stated around these: `ExclusiveUntilBroken` says
exclusion can be lost in no other way than by the removal of a live lock, and
`OnlyClearingBreaks` that releases never do that; `OnlyOutdatedWritesForget`,
`LostOnlyBetweenReadAndUnlink`, `OneSkillEach`, `IdeaOnce` and `MessageKept` name
the interleaving or the failed step in which something goes missing or comes twice
and exclude all others; `RepeatsOnlyCopies` the one repetition an answer can have,
`OnlyFailedLost` the one row a migration loses, `HooksKept` and `OnlySoundMerged` the
two ways each in which the user's hooks or a sound main are lost, `Settles` and
`PeriodIsWhole` what a limit cuts off, and `ApartFromOthers` the 25 minutes.

**Bounds and why they are enough.** Two contents suffice for anything about
ids and duplicates, since all store properties relate two rows at a time; three
ids let an id be given, lost and (wrongly) given again; one restart or loss is
what separates before from after; a log queue of one makes both a full queue
and a batch behind a batch under way happen. The lock instance has every kind of
caller; exclusion and its loss involve a reader, a holder and a next holder.
Three proxy requests are one that starts, one that joins and one that comes
after. Two tasks are all that recovery and verdicts relate; the windows are the
code's own, so the instances never exceed them. Three generator calls are one
served, one of high and one of low priority waiting; two tries are a first and a
last. Three rows with a batch of two let a batch be full, short or blocked by a
row the model gives nothing for. Two sessions make an outdated write; two
drainers with two entries make an append fall between a read and an unlink and
two drains overlap. A list of one row of two questions stands for the poll's 50:
what matters is who is in it. With room for one summary, and of the rows of a week one
that the query returns, a day of two L1 summaries is cut and a week with two L2
summaries (the trigger makes the second) goes over its limit; a restart or a failed
answer, of which this part has none, only drops what a run under way would have
inserted, and the theorem `PeriodAlways` has any number of them. Two patches of one file
make a conflict and
a merge that is clean and wrong, the third a patch that comes after. Two days make a
week with a first and a last day. An answer over two tiers with limit 2 has a row from
each and a
copy; two backups and a prune
are the two ways into one `.tmp`. Bounds on failures, crashes, losses, edits and
restarts are the `Max...` constants and guards of the actions that use them up.

**Fairness.** `TierStore`: the five-minute cycle comes round, so `Backfill` is
weakly fair. `MlxLock`: processes that live go on and the clock does too; nobody
is owed the lock, so no starvation freedom is claimed. `OrphanCleared` relies on
somebody asking for the lock, which the server's loops and the runner's polls
do. `MlxProxy`: commands, probes and requests have timeouts, the interval fires;
nothing obliges the backend to start, a client to come or the process to end.
`TaskQueue`: the runner's timers and awaits come to an end (all have timeouts),
the shutdown timer fires, and of the polls that find a task infinitely many get
the lock if they need it (strong fairness of `Dispatch`): an assumption about
the rest of the machine that the lock itself does not guarantee. `Generator`: the
loop and the mutex go on, requests have timeouts, and the wait for a foreign lock
holder ends after five minutes one way or the other; `Settles` promises calls of
low priority something only when those of high priority cease, since there is
no ageing. `Embedding`: the loop's and handlers' awaits end (except the one that
breaks off), the maintenance cycle comes round, and launchd starts the embed
server again. `Summaries`: probes recur, the loops look again, calls are settled.
`Consultation`: sessions go on polling and answering what they found; nobody has
to ask, claim or close. `HookQueue`: drains recur (wrapper and maintenance
cycle) and one that runs goes on, and a blocked session tries its tool again.
`SkillMaker.SkillSpec` assumes strong fairness of the loop's steps that need the
generator. `Parts` is about safety only and states none.

**Deadlock** is checked in `mlx_lock`, `mlx_lock_exit` and `task_queue`. The other
instances stop when ids, time, entries or questions run out, which is their
bound and not the program's, or, in `mlx_proxy` and `models`, when every
connection of the instance hangs after a response that broke off.

## 4. Proofs

All hold for every value of the constants under the modules' named
assumptions (types of the constants; for the lock, that a parent has no parent
of its own, which is how the runner spawns).

* `MlxLock_proofs`. `TypeCorrect` needs no more than the actions. The other four
  rest on `IInv`, the conjunction of `TypeOK` with: `Places` (who is past the
  entry is alive, and only children re-enter), `ParentWaits` (while a child is
  not idle its parent is at work, because it awaits it or has died),
  `FileIsOwners` (while nothing was broken, a process inside runs under the file
  that is there) and `ChildReenters` (a child whose parent works under the
  lock goes in without waiting). `ExclusiveUntilBroken` alone is not inductive:
  it does not say whose file is there, so a release could remove another's.
  `Exclusive` follows since the file has one creator; `ReleasesBreakNothing`
  because a process that found its own id removes its own file;
  `UnbrokenTheorem` adds that with no death and no ageing nobody reaches
  `clear`.
* `TierStore_proofs`. `TypeCorrect`: type correctness, including that migrations
  and replays stay within the tables. `Aligned`: `AlignedIds` without a RAM
  disk. Its invariant collects everything that may yet put a content under an
  id, the rows of both databases, the pending callbacks, the queued, in-flight
  and written log lines (`Claims`): one content per id among all claims, and no
  claim above `nextP`. The alignment of the two tables alone is not inductive,
  since a pending callback or a replayed line brings an id back. Each step
  either adds one claim with a new id or adds none. `WalOrder`: `WalInOrder`, in
  both modes. The written lines alone do not stay in order: the invariant
  (`OrderInv`) says it of written, in-flight and queued lines and pending
  callbacks one after the other, with at most one flusher and every id at most
  `nextP`. `AckedAlways`: `AckedKept` without a RAM disk. It uses the claims
  invariant once more, since an acknowledged content is safe only if an INSERT
  never takes an id that is in use. `RecoveryAlways`: `RecoveryIsSuperset`. The
  merge is by id, so nothing is lost exactly if an id never names one content in
  the snapshot and another in the primary: the claims also cover the snapshot's
  rows, which keep ids of rows that are gone since. With a RAM disk the archive's
  rows are no claims until a restart makes them rows of the primary, and then the
  statement is false (`SalvageKept`). `MigrationAlways`: `OnlyFailedLost`, in
  both modes and whichever INSERTs fail, from `BelowArchiveSequence`: the slots of
  the rows that are copied increase with their place in the list (`SlotsApart`), and
  nothing in the archive has one of them.
* `MlxProxy_proofs`. `IInv` adds to the types that a start is under way exactly
  if `promise` is pending and that its starter is one request (`OneStart`),
  where a stop can be while the state is RUNNING or UNLOADING (`Stops`), that who
  joined waits for that start (`NobodyLeftBehind`), and that `active` is the
  cardinality of the handlers at work (`CountIsExact`): the idle timer's stop
  excludes a start only because it reads that counter and the state together.
* `Models_proofs`, the calls. `IInv` is `TypeOK` with `QueueHolds` (the queue lists the
  waiting calls once each, the loop runs iff there is somebody to serve, and the
  one who is served is not in it), `ChainHolds` (the promise chain lists who
  waits for the mutex or has it, once) and `LockHolds` (who has the file lock, by
  where the loop is). `OneAtATime` follows as its two halves meet in the mutex;
  `ApartFromOthers` is
  `LockHolds` with `GetsLate` free to come at any moment. `TopFirst` needs what the
  stable sort puts first, which is why the sort is
  defined by places (`Place`, `Precedes`) and not by recursion.
* `Models_proofs`, the rows. `OwnAlways` is `OwnVector` for tables and batches of any
  size. `VectorInv` adds the rows there can be and the domains of the three
  tables. What the code's test of the answer's length gives is the lemma that an
  accepted answer has a place for each row of the batch: without it the vectors
  after a row left out would be those of their neighbours.
* `TaskQueue_proofs`. `RunsOnce` and `VerdictStands` hold while the derived view
  reaches every row (`Seen`: no more updates and results than the windows of 400
  and 200 that the view reads); beyond them a claim is not seen and the code
  runs a task again, so without `Seen` the statement is false. The invariant
  says where a claim and a verdict can be while they are not yet rows (`Said`:
  stored, late, or in the exchange under way): whoever runs has claimed in one
  of these places, and all verdicts said of a task agree. `StopFinishes` has
  an invariant of its own (`Finishing`).
* `Parts_proofs` has a section, an inductive invariant and a theorem for each
  part; `PartSteps` says that a step of the whole is a step of a part or nothing to
  it.
  * `MessageAlways`. `ReadersSafe` says of the stored position, of the position a
    reader started from and of the one it is about to store that no whole message
    before it is missed, and that a position in the middle of a line is where that
    line was found half written. `MessageKept` speaks of the stored position only
    and is not inductive: a reader that was overtaken stores its own. That no
    message falls between two lists is arithmetic about lines of two halves
    (`ParsedLines`).
  * `HooksAlways`. `FilesInv` enumerates what a hooks file can be, one that is cut
    short or cannot be merged among it; a merge leaves a list as it is or adds ours
    at the end (`MergedLists`), and whose file was copied over is in `unmerged`.
  * `GoodCopy`. `MainOrBak` (a whole backup is main, or it is the `.bak` while a
    rename is between them) is inductive by itself; the cached verdict
    (`CachedVerdict`) and `DamageComesFrom` need that the admin's in-flight flag
    admits one admin job (`OneAdmin`) and that no verdict is cached while the server
    is down.
  * `RestartsAlways`. `RowIsThere`: from a restart on, either the loop has a row to
    take that is as young as the restart (the audit row, or a younger one), or it
    has taken one. So whenever a stall is seen, the restart was too long ago to
    be the one the property forbids. A restart whose audit row was not inserted leaves
    no such row, and the property does not count it.
  * `OnlySoundAlways`. `AllSound` is about every commit, the files in the working
    tree and the text an approval read before it wrote, and excepts only the file
    under test, as long as nothing was cut off (`cut`) and no merge met two changes of
    one file (`untested`); without those a merge takes each file from one side whole,
    and so is sound. `Places` says which branch is checked out at each step of an
    approval, which is what the exception is moved along by.
  * `OneSkillAlways`. The lists a job goes by are stale once another has written. What
    stays true of them (`Sees`) is about the rows the job had seen when it made them
    and those it wrote itself: their names are known to it, their topics are not the
    one it searches, and the suggestions they mark are not in its batch. So a second
    row is the work of a job that was overtaken, with any number of jobs at once; and
    `Marked` says a marked row's suggestion has the tag, so that no later batch has
    it.
  * `IdeaOnceAlways`. `Seen`: an article with an idea has its row, and a scan that is
    past the look for it is the only one. The row is stored before the idea, and
    the other way round it would not be inductive.
  * `PeriodAlways`. `PeriodInv` says the property of runs under way as well, with what
    they will insert (`Whole`), in terms of `Count` and `Sources` of the rows as they
    are. A summary inserted meanwhile is of a moment after
    the period's end, or belongs to another one (`AfterPeriod`, about `\div`).
  * `LatestPicked`. The two searches are made at different moments while others
    write, so the invariant says after each of them what the pool holds of the rows
    that were there at the first (`Holds`). A search that is not crowded has every
    row of its kind (`SearchedAll`, by cardinalities), and a crowd does not go away
    (`CrowdedStays`): room at the end means room at both searches.
  * `RepeatsAlways`. `AskSafe` is about the wait for the query's embedding: the
    primary then has each text that came from the archive only under an id above
    the last one when the request came in. That needs the archive to have been asked
    only if the primary gave all it has: of rows in an order those with fewer than
    n ahead of them are n or all (`FirstOrAll`), so an answer with room left had
    every match (`SearchFindsAll`).
  * `MergesAlways`. `Merged` says the property of the first m rows, for the loop's m,
    and that a key is kept once; one round keeps it (`MergeInStep`). That there are
    as many candidates as keys is the bijection between them.
* `Consultation_proofs`. A row is written as it was read some time before, so
  what is invariant is said of the rows and of what each request still holds
  (`RowsSound`, `ReqSound`). `HasMajority` speaks of the first k answers for some
  k, and so survives more answers. `ForgetsAlways` is the action property.
* `HookQueue_proofs`. `Shape`: whatever files and drainers hold was recorded by a
  hook. From it `LossesAre`, that the window between a drainer's read and its
  unlink is the only one in which an entry can be lost, and
  `ImplementsDelivery`: under the refinement mapping `StatusOf` each step of
  `HookQueue` is a step of `Delivery` or leaves every entry's status as it is. This
  is the safety part of the property `Delivers`.

Assumptions: the types of the constants and what the code's own constants
satisfy, named in each module (`ConsultationAssumption`, `BackupAssumption` and so
on), evaluated by TLC in the runs. `UseRamDisk` is false in `Aligned` and
`AckedAlways`: with a RAM disk migrated rows take ids of the archive's own
sequence, and alignment is not claimed. `losses = 0` is in the properties
themselves (and, with a RAM disk, `restarts = 0` in `RecoveryIsSuperset`): a primary
file that was lost comes back from a snapshot with an
older sequence.

Every safety invariant and every action property that a run checks is proved.
What a recursive definition computes for every input is an induction over data,
which the provers cannot be given. Where a model said with a sort what an order says as
well, it says it by an order
and is proved about: `Generator.Place`, `Embedding.Newest`, `SkillMaker.Current`,
`Recall.Search`, `Resume.Latest`; and where the code loops, the loop is steps of the
model with an invariant of their own (`SelfEvolve.Merge`). `SelfEvolve.Ranked` sorts by
an operator and stays unproved; no checked property rests on it.

Out of reach altogether are the liveness properties, and with them the liveness
half of the refinement of `Delivery` (no ENABLED, no fairness).

## 5. Not modelled

* The wording of prompts, reports and commands, budgets, paging, filters by
  type and the metadata columns: data that the properties do not tell apart.
* The full-text index and the cloud tier (a stub in the code).
* API keys: a JSON file that admin requests rewrite and requests are checked
  against; nothing else depends on it.
* The embedding servers: numeric work and a cache of loaded models in Python
  processes, which `Embedding` has as an environment that answers, errs, answers
  short or hangs.
* `vcontext-hooks.draft.mts`, a draft of a port that nothing runs.
* Session state, skill builders, validators, commit gates: one process that
  rewrites a file, or conversions that keep nothing.
* The resolution of manifests by the installer, a pure function of files in the
  repository: `Install` takes any of a set of plans.
* The watchdog's own counters and its restarts of the server, which the other
  modules have as crashes and boots at any time.
* Composition of `TaskQueue` with `MlxLock`, and so the children of a task that
  outlive its timeout.

## 6. Plan

1. **An abstract store** (set of acknowledged contents) that `TierStore`
   implements in default mode, and an abstract lock that is granted to one owner
   and its child, which `MlxLock` implements as long as nothing is broken.
2. **Compositions**: `TaskQueue` and `Generator` over `MlxLock`.
3. The watchdog's restart logic, the embedding servers' cache of models, the
   installer's dependency resolution as operators checked against a reference.
