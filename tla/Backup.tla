------------------------------- MODULE Backup -------------------------------
(***************************************************************************)
(* The backup files of the primary database in scripts/vcontext-server.js: *)
(* the online backups of POST /admin/backup and of doBackup (a prune), the  *)
(* rotation tmp -> main -> bak that promotes them, the file copy of the     *)
(* shutdown handler, the sweep of the next boot, the cached verdict of      *)
(* POST /admin/integrity-check, and the rotation of entries-wal.jsonl.      *)
(*                                                                         *)
(* The event loop runs one synchronous section at a time, but a SIGKILL or *)
(* a power cut can fall between any two renames of one.  turn names the    *)
(* job that is between its two renames.  An online backup has its own      *)
(* descriptor: it goes on writing to the file it opened wherever that file *)
(* is renamed to.  What the database holds is not modelled, only whether a *)
(* file is a whole copy of it.                                             *)
(***************************************************************************)
EXTENDS Naturals

CONSTANTS Admins,    \* POST /admin/backup requests
          Prunes,    \* DELETE /prune requests, which call doBackup
          Nobody,
          MaxWal     \* entries-wal files ever opened

BackupAssumption ==
  /\ Admins \cap Prunes = {} /\ Nobody \notin Admins \cup Prunes
  /\ MaxWal \in Nat \ {0}

Jobs == Admins \cup Prunes

VARIABLES
  mode,      \* "up", "saving" and "closing" after a signal, "down", "boot"
  main, bak, tmp,  \* vcontext-backup.sqlite, its .bak and its .tmp
  pc,        \* where each job is
  turn,      \* the job between rename to .bak and rename to main, or Nobody
  inFlight,  \* globalThis._backupInFlight
  cached,    \* globalThis._backupCache is less than 60 s old
  verdict,   \* globalThis._integrityCache, "none" when an hour old
  wal,       \* wal[i]: the number of the log file with suffix .i, 0 for none
  bootStep,  \* the step the rotation of the log is at, 0 when it is done
  damaged,   \* history: main was damaged and nothing whole was put there since
  overlap,   \* history: a file another job was writing has been promoted
  cutOff     \* history: a rotation of the log was interrupted

files == <<main, bak, tmp>>
jobs == <<pc, turn, inFlight, cached>>
vars == <<mode, files, jobs, verdict, wal, bootStep, damaged, overlap, cutOff>>

Absent == [kind |-> "none", by |-> Nobody]
Whole == [kind |-> "whole", by |-> Nobody]
Torn == [kind |-> "torn", by |-> Nobody]
Empty == [kind |-> "empty", by |-> Nobody]    \* truncated to 0 bytes
OpenBy(j) == [kind |-> "open", by |-> j]      \* being written by job j
Good(f) == f.kind = "whole"

File == [kind : {"none", "whole", "torn", "empty", "open"}, by : Jobs \cup {Nobody}]

TypeOK ==
  /\ mode \in {"up", "saving", "closing", "down", "boot"}
  /\ {main, bak, tmp} \subseteq File
  /\ pc \in [Jobs -> {"idle", "body", "copying", "rotated"}] /\ turn \in Jobs \cup {Nobody}
  /\ inFlight \in BOOLEAN /\ cached \in BOOLEAN /\ verdict \in {"none", "ok", "fail"}
  /\ wal \in [0..3 -> 0..MaxWal] /\ bootStep \in 0..4
  /\ damaged \in BOOLEAN /\ overlap \in BOOLEAN /\ cutOff \in BOOLEAN

\* A server that has run for a while and has one good backup.
Init ==
  /\ mode = "up"
  /\ main = Whole /\ bak = Absent /\ tmp = Absent
  /\ pc = [j \in Jobs |-> "idle"] /\ turn = Nobody
  /\ inFlight = FALSE /\ cached = FALSE /\ verdict = "none"
  /\ wal = [i \in 0..3 |-> IF i = 0 THEN 1 ELSE 0] /\ bootStep = 0
  /\ damaged = FALSE /\ overlap = FALSE /\ cutOff = FALSE

\* verifyBackupFile: SQLite finds a file of 0 bytes in order, and dbQuery asks
\* the SSD archive instead when the file is locked by the job that writes it.
Verified(f) == f.kind \in {"whole", "empty", "open"}

\* A section of the event loop can start.
Loop == mode \in {"up", "closing"} /\ turn = Nobody
Goto(j, l) == pc' = [pc EXCEPT ![j] = l]

\* The finally of /admin/backup; doBackup has no flag.
Release(j) == inFlight' = (IF j \in Admins THEN FALSE ELSE inFlight)

-----------------------------------------------------------------------------
(* The starts of a copy.                                                   *)

\* appendToWalQueue: a write to the log makes its file again after a rotation.
Log ==
  /\ Loop /\ mode = "up" /\ wal[0] = 0 /\ wal[1] < MaxWal
  /\ wal' = [wal EXCEPT ![0] = wal[1] + 1]
  /\ UNCHANGED <<mode, files, jobs, verdict, bootStep, damaged, overlap, cutOff>>

\* The transfer of job j starts on an empty tmp.
Transfer(j) ==
  /\ tmp' = OpenBy(j)
  /\ UNCHANGED <<main, bak>>
  /\ Goto(j, "copying")

\* handlePrune: doBackup only starts the copy, then the rows are deleted.
Prune(j) ==
  /\ Loop /\ mode = "up" /\ j \in Prunes /\ pc[j] = "idle"
  /\ Transfer(j)
  /\ UNCHANGED <<mode, turn, inFlight, cached, verdict, wal, bootStep,
                 damaged, overlap, cutOff>>

Request(j) ==
  /\ Loop /\ mode = "up" /\ j \in Admins /\ pc[j] = "idle"
  /\ Goto(j, "body")
  /\ UNCHANGED <<mode, files, turn, inFlight, cached, verdict, wal,
                 bootStep, damaged, overlap, cutOff>>

\* readBody has resolved: busy, or the answer of the last minute, or a copy.
StartCopy(j) ==
  /\ Loop /\ pc[j] = "body"
  /\ IF inFlight \/ cached
     THEN Goto(j, "idle") /\ UNCHANGED <<files, inFlight>>
     ELSE Transfer(j) /\ inFlight' = TRUE
  /\ UNCHANGED <<mode, turn, cached, verdict, wal, bootStep, damaged, overlap, cutOff>>

Throttled ==
  /\ Loop /\ cached
  /\ cached' = FALSE
  /\ UNCHANGED <<mode, files, pc, turn, inFlight, verdict, wal, bootStep,
                 damaged, overlap, cutOff>>

-----------------------------------------------------------------------------
(* The end of a copy and the rotation.                                     *)

\* What job j was writing is a database once its copy is complete.
Landed(f, j) == IF f = OpenBy(j) THEN Whole ELSE f
Broken(f, j) == IF f = OpenBy(j) THEN Torn ELSE f

Rejected(j) ==
  /\ tmp' = Absent
  /\ Goto(j, "idle") /\ Release(j)

\* Mutant: the current file is overwritten and never kept.
BakNotRotated(m, b) == b

\* A main that verifies is moved to .bak, one that does not is unlinked.
NextBak(m, b) == IF Verified(m) THEN m ELSE b

\* The copy is complete: verify tmp, then the first half of the rotation.
CopyDone(j) ==
  /\ Loop /\ mode = "up" /\ pc[j] = "copying"
  /\ LET m == Landed(main, j)
         b == Landed(bak, j)
         t == Landed(tmp, j)
     IN IF Verified(t)
        THEN /\ main' = Absent
             /\ bak' = NextBak(m, b)
             /\ tmp' = t
             /\ Goto(j, "rotated") /\ turn' = j
             /\ UNCHANGED inFlight
        ELSE /\ main' = m /\ bak' = b
             /\ Rejected(j) /\ UNCHANGED turn
  /\ damaged' = (damaged /\ ~Good(main'))
  /\ UNCHANGED <<mode, cached, verdict, wal, bootStep, overlap, cutOff>>

\* renameSync(tmp, main), the clean-up and the reply.
Rename(j) ==
  /\ turn = j /\ mode = "up"
  /\ main' = tmp /\ tmp' = Absent /\ UNCHANGED bak
  /\ Goto(j, "idle") /\ turn' = Nobody /\ Release(j)
  /\ cached' = (cached \/ j \in Admins)
  /\ damaged' = ~Good(tmp)
  /\ overlap' = (overlap \/ tmp.kind = "open")
  /\ UNCHANGED <<mode, verdict, wal, bootStep, cutOff>>

\* The rename fails: what was moved to .bak stays there.
RenameFails(j) ==
  /\ turn = j /\ mode = "up"
  /\ Rejected(j) /\ turn' = Nobody
  /\ UNCHANGED <<mode, main, bak, cached, verdict, wal, bootStep,
                 damaged, overlap, cutOff>>

\* ramDb.backup rejects: /admin/backup gives up.
CopyFails(j) ==
  /\ Loop /\ j \in Admins /\ pc[j] = "copying"
  /\ Rejected(j)
  /\ main' = Broken(main, j) /\ bak' = Broken(bak, j)
  /\ UNCHANGED <<mode, turn, cached, verdict, wal, bootStep, damaged, overlap, cutOff>>

\* doBackup copies the file and renames the copy over main, or fails at that.
FallBack(j) ==
  /\ Loop /\ j \in Prunes /\ pc[j] = "copying"
  /\ Rejected(j)
  /\ bak' = Broken(bak, j)
  /\ \/ main' = Whole /\ damaged' = FALSE
     \/ main' = Broken(main, j) /\ UNCHANGED damaged
  /\ UNCHANGED <<mode, turn, cached, verdict, wal, bootStep, overlap, cutOff>>

-----------------------------------------------------------------------------
(* POST /admin/integrity-check.                                            *)

\* sqlite3 runs on main with the event loop blocked; a missing file and one
\* below 1 MB are skipped.
IntegrityCheck ==
  /\ Loop /\ mode = "up" /\ verdict = "none"
  /\ main.kind \in {"whole", "torn", "open"}
  /\ verdict' = IF Good(main) THEN "ok" ELSE "fail"
  /\ UNCHANGED <<mode, files, jobs, wal, bootStep, damaged, overlap, cutOff>>

VerdictExpires ==
  /\ verdict # "none"
  /\ verdict' = "none"
  /\ UNCHANGED <<mode, files, jobs, wal, bootStep, damaged, overlap, cutOff>>

-----------------------------------------------------------------------------
(* Shutdown, the end of the process, and the next boot.                    *)

\* shutdown: copyFileSync straight over main, which is truncated first.
Signal ==
  /\ Loop /\ mode = "up"
  /\ mode' = "saving"
  /\ main' \in {Empty, Torn} /\ damaged' = TRUE
  /\ UNCHANGED <<bak, tmp, jobs, verdict, wal, bootStep, overlap, cutOff>>

\* The copy is complete, or there was no space or an I/O error.
Saved ==
  /\ mode = "saving"
  /\ mode' = "closing"
  /\ \/ main' = Whole /\ damaged' = FALSE
     \/ UNCHANGED <<main, damaged>>
  /\ UNCHANGED <<bak, tmp, jobs, verdict, wal, bootStep, overlap, cutOff>>

Kept(f) == IF f.kind = "open" THEN Torn ELSE f

\* process.exit, a crash, SIGKILL or a power cut.
Stop ==
  /\ mode # "down"
  /\ mode' = "down" /\ bootStep' = 0
  /\ main' = Kept(main) /\ bak' = Kept(bak) /\ tmp' = Kept(tmp)
  /\ pc' = [j \in Jobs |-> "idle"] /\ turn' = Nobody
  /\ inFlight' = FALSE /\ cached' = FALSE /\ verdict' = "none"
  /\ cutOff' = (cutOff \/ bootStep > 1)
  /\ UNCHANGED <<wal, damaged, overlap>>

\* The log has passed 500 MB, or it has not.
Boot ==
  /\ mode = "down"
  /\ mode' = "boot"
  /\ bootStep' \in {0} \cup (IF wal[0] # 0 THEN {1} ELSE {})
  /\ UNCHANGED <<files, jobs, verdict, wal, damaged, overlap, cutOff>>

\* for (let i = 3; i >= 1; i--), then the log itself.
Suffix(step) == <<3, 2, 1, 0>>[step]

RotateLog ==
  /\ mode = "boot" /\ bootStep > 0
  /\ LET i == Suffix(bootStep) IN
     wal' = IF i = 3 THEN [wal EXCEPT ![3] = 0]
            ELSE IF wal[i] = 0 THEN wal
            ELSE [wal EXCEPT ![i + 1] = wal[i], ![i] = 0]
  /\ bootStep' = (bootStep + 1) % 5
  /\ UNCHANGED <<mode, files, jobs, verdict, damaged, overlap, cutOff>>

\* The sweep of what an interrupted backup left.
Booted ==
  /\ mode = "boot" /\ bootStep = 0
  /\ mode' = "up" /\ tmp' = Absent
  /\ UNCHANGED <<main, bak, jobs, verdict, wal, bootStep, damaged, overlap, cutOff>>

Progress(j) == StartCopy(j) \/ CopyDone(j) \/ Rename(j) \/ RenameFails(j)
               \/ CopyFails(j) \/ FallBack(j)

Next ==
  \/ Log \/ Throttled \/ IntegrityCheck \/ VerdictExpires
  \/ Signal \/ Saved \/ Stop \/ Boot \/ RotateLog \/ Booted
  \/ \E j \in Jobs : Prune(j) \/ Request(j) \/ Progress(j)

Spec == Init /\ [][Next]_vars

\* A copy ends one way or the other, and the event loop serves what is ready
\* however often other sections come first.
FairSpec == Spec /\ WF_vars(Saved) /\ \A j \in Jobs : SF_vars(Progress(j))

-----------------------------------------------------------------------------
(* Properties.                                                             *)

\* Whatever is interrupted, between any two renames: a whole backup is there
\* under one of the three names, unless main was damaged and nothing whole has
\* replaced it yet.  "a truncated .sqlite was silently rotated into the .bak
\* safety slot, destroying the last known-good copy" is what it rules out.
GoodCopySurvives == ~damaged => \E f \in {main, bak, tmp} : Good(f)

\* Main is damaged in two ways only: by the shutdown handler, which writes it
\* in place, and by a backup that finds another one's half-written tmp, which
\* takes a doBackup since the flag keeps two /admin/backup apart.
OnlyTwoWaysToDamage ==
  [][~damaged /\ damaged' =>
       \/ mode' = "saving"
       \/ tmp.kind = "open" /\ {turn, tmp.by} \cap Prunes # {}]_vars

\* The answer of /admin/integrity-check is an hour old at most and "ok" stays
\* true of the file that is there, through every rotation of that hour that
\* did not promote a file another job was writing.
CachedVerdictHolds ==
  mode = "up" /\ verdict = "ok" /\ ~overlap => main.kind \in {"whole", "none"}

\* "the in-flight flag is ALWAYS released": the endpoint does not stay busy.
BusyEnds == inFlight ~> ~inFlight

\* "keep last 3 generations": a log disappears when three newer ones are there,
\* as long as no rotation was cut off between two renames.
ThreeLogsKept ==
  [][\A i \in 0..3 :
       wal[i] # 0 /\ (\A k \in 0..3 : wal'[k] # wal[i]) /\ ~cutOff
         => \A k \in 0..2 : wal[k] > wal[3]]_vars

\* "it's the last known-good safety copy": a good .bak is not replaced by
\* something else than a good file.
BakStaysGood == [][Good(bak) => Good(bak')]_vars
=============================================================================
