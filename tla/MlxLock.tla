------------------------------ MODULE MlxLock ------------------------------
(***************************************************************************)
(* The cross-process lock of the MLX generator: the file                   *)
(* /tmp/aios-mlx-lock as scripts/aios-mlx-lock.js takes, judges and         *)
(* releases it (scripts/aios-mlx-lock.sh and scripts/aios_mlx_lock.py are   *)
(* the same protocol in two other languages).                              *)
(*                                                                         *)
(* Every system call on the file is a step of its own, since the callers   *)
(* are unrelated processes.  Two calls are one step only where nothing     *)
(* another process does between them changes the outcome: existsSync with  *)
(* the read that follows it (a file gone in between reads as null, and     *)
(* null is waited for like a live holder), and the stat of the age with    *)
(* the kill(pid, 0) that follows it (a dead process stays dead).           *)
(*                                                                         *)
(* The file is named by who created it.  A process that writes its holder  *)
(* id writes to the file it opened, so the text lands only while that file *)
(* is still the one the path names.                                        *)
(***************************************************************************)
CONSTANTS Procs,          \* the processes that use the generator
          Nobody,         \* no file, no text, no parent
          WithPid,        \* those whose holder id contains their PID
          Env,            \* the holder each finds in AIOS_MLX_LOCK_HOLDER
          Mortal,         \* those that may end
          CrashAnywhere,  \* FALSE: they end only outside acquire and release
          Ageing          \* FALSE: no lock lives to 25 minutes

ASSUME ConstantsAssumption ==
  /\ Nobody \notin Procs
  /\ WithPid \subseteq Procs /\ Mortal \subseteq Procs
  /\ Env \in [Procs -> Procs \cup {Nobody}]
  /\ \A p \in Procs : Env[p] # Nobody => Env[Env[p]] = Nobody
  /\ CrashAnywhere \in BOOLEAN /\ Ageing \in BOOLEAN

VARIABLES
  pc,         \* where each process is in tryMlxLock, its work, releaseMlxLock
  seen,       \* the holder id it read and has yet to judge
  reentered,  \* processes that went on under their parent's lock
  creator,    \* whose file the path names, Nobody when there is none
  written,    \* whether the holder id is in it
  old,        \* whether its mtime is more than 25 minutes ago
  alive,      \* processes that have not ended
  broken,     \* history: someone removed the lock another was running under
  aged        \* history: some lock file reached 25 minutes

file == <<creator, written, old>>
vars == <<pc, seen, reentered, file, alive, broken, aged>>

Before == {"enter", "look", "judge", "clear", "create", "wait", "peek", "peekclear"}
Inside == {"write", "working", "leave", "check", "unlink"}

TypeOK ==
  /\ pc \in [Procs -> {"idle"} \cup Before \cup Inside]
  /\ seen \in [Procs -> Procs \cup {Nobody}]
  /\ reentered \subseteq Procs
  /\ creator \in Procs \cup {Nobody} /\ written \in BOOLEAN /\ old \in BOOLEAN
  /\ creator = Nobody => ~written /\ ~old
  /\ alive \subseteq Procs
  /\ broken \in BOOLEAN /\ aged \in BOOLEAN

Init ==
  /\ pc = [p \in Procs |-> "idle"] /\ seen = [p \in Procs |-> Nobody]
  /\ reentered = {} /\ alive = Procs
  /\ creator = Nobody /\ written = FALSE /\ old = FALSE
  /\ broken = FALSE /\ aged = FALSE

Goto(p, l) == pc' = [pc EXCEPT ![p] = l]
Content == IF written THEN creator ELSE Nobody

PidDead(h) == h \in WithPid /\ h \notin alive

\* Mutant: only the PID is looked at.
StaleByPidOnly(h) == PidDead(h)

Stale(h) == old \/ PidDead(h)

ParentHolds(p) == Env[p] # Nobody /\ Content = Env[p]

\* The lock a process inside runs under.
Owner(p) == IF p \in reentered THEN Env[p] ELSE p

\* unlinkSync(path): whatever file is there.
Unlink(p) ==
  /\ creator' = Nobody /\ written' = FALSE /\ old' = FALSE
  /\ broken' = (broken \/ (creator # Nobody /\
                           \E q \in Procs \ {p} : pc[q] \in Inside /\ Owner(q) = creator))

-----------------------------------------------------------------------------
(* tryMlxLock.                                                             *)

\* A process calls it whenever it has work; a child is spawned, with the
\* variable set, by a parent that is working under the lock.
Start(p) ==
  /\ pc[p] = "idle" /\ p \in alive
  /\ Env[p] # Nobody => pc[Env[p]] = "working"
  /\ Goto(p, "enter")
  /\ UNCHANGED <<seen, reentered, file, alive, broken, aged>>

Enter(p) ==
  /\ pc[p] = "enter"
  /\ IF ParentHolds(p)
     THEN Goto(p, "working") /\ reentered' = reentered \cup {p}
     ELSE Goto(p, "look") /\ UNCHANGED reentered
  /\ UNCHANGED <<seen, file, alive, broken, aged>>

\* _tryAcquireAtomic: existsSync and _readHolder.
Look(p) ==
  /\ pc[p] = "look"
  /\ IF creator = Nobody
     THEN Goto(p, "create") /\ UNCHANGED seen
     ELSE Goto(p, "judge") /\ seen' = [seen EXCEPT ![p] = Content]
  /\ UNCHANGED <<reentered, file, alive, broken, aged>>

\* _isStale() || _isPidDead(holder).
Judge(p) ==
  /\ pc[p] = "judge"
  /\ Goto(p, IF Stale(seen[p]) THEN "clear" ELSE "wait")
  /\ seen' = [seen EXCEPT ![p] = Nobody]
  /\ UNCHANGED <<reentered, file, alive, broken, aged>>

Clear(p) ==
  /\ pc[p] = "clear"
  /\ Unlink(p)
  /\ Goto(p, "create")
  /\ UNCHANGED <<seen, reentered, alive, aged>>

\* Mutant: opened without O_EXCL.
CreateOverwrites(p) ==
  /\ pc[p] = "create"
  /\ creator' = p /\ written' = FALSE /\ old' = FALSE
  /\ Goto(p, "write")
  /\ UNCHANGED <<seen, reentered, alive, broken, aged>>

\* openSync(path, 'wx').
Create(p) ==
  /\ pc[p] = "create"
  /\ IF creator = Nobody
     THEN Goto(p, "write") /\ creator' = p /\ written' = FALSE /\ old' = FALSE
     ELSE Goto(p, "wait") /\ UNCHANGED file
  /\ UNCHANGED <<seen, reentered, alive, broken, aged>>

Write(p) ==
  /\ pc[p] = "write"
  /\ IF creator = p THEN written' = TRUE /\ old' = FALSE ELSE UNCHANGED <<written, old>>
  /\ Goto(p, "working")
  /\ UNCHANGED <<seen, reentered, creator, alive, broken, aged>>

\* The deadline has not passed, or it has.
Retry(p) ==
  /\ pc[p] = "wait"
  /\ Goto(p, "look")
  /\ UNCHANGED <<seen, reentered, file, alive, broken, aged>>

GiveUp(p) ==
  /\ pc[p] = "wait"
  /\ Goto(p, "idle")
  /\ UNCHANGED <<seen, reentered, file, alive, broken, aged>>

\* mlxLockStatus, which a caller that gave up logs the holder with: statSync
\* and _readHolder, then the kill, then the removal of a dead holder's file.
Peek(p) ==
  /\ pc[p] = "wait"
  /\ IF creator = Nobody \/ old
     THEN Goto(p, "idle") /\ UNCHANGED seen
     ELSE Goto(p, "peek") /\ seen' = [seen EXCEPT ![p] = Content]
  /\ UNCHANGED <<reentered, file, alive, broken, aged>>

PeekJudge(p) ==
  /\ pc[p] = "peek"
  /\ Goto(p, IF PidDead(seen[p]) THEN "peekclear" ELSE "idle")
  /\ seen' = [seen EXCEPT ![p] = Nobody]
  /\ UNCHANGED <<reentered, file, alive, broken, aged>>

PeekClear(p) ==
  /\ pc[p] = "peekclear"
  /\ Unlink(p)
  /\ Goto(p, "idle")
  /\ UNCHANGED <<seen, reentered, alive, aged>>

-----------------------------------------------------------------------------
(* The work and releaseMlxLock.                                            *)

\* Mutant: the child is spawned and not awaited.
FinishUnawaited(p) ==
  /\ pc[p] = "working"
  /\ Goto(p, "leave")
  /\ UNCHANGED <<seen, reentered, file, alive, broken, aged>>

\* The work ends; a parent awaits its child (execFile).
Finish(p) ==
  /\ pc[p] = "working"
  /\ \A c \in Procs : Env[c] = p => pc[c] = "idle"
  /\ Goto(p, "leave")
  /\ UNCHANGED <<seen, reentered, file, alive, broken, aged>>

Leave(p) ==
  /\ pc[p] = "leave"
  /\ IF ParentHolds(p)
     THEN Goto(p, "idle") /\ reentered' = reentered \ {p}
     ELSE Goto(p, "check") /\ UNCHANGED reentered
  /\ UNCHANGED <<seen, file, alive, broken, aged>>

\* existsSync, _readHolder and the comparison.
Check(p) ==
  /\ pc[p] = "check"
  /\ IF Content = p
     THEN Goto(p, "unlink") /\ UNCHANGED reentered
     ELSE Goto(p, "idle") /\ reentered' = reentered \ {p}
  /\ UNCHANGED <<seen, file, alive, broken, aged>>

Remove(p) ==
  /\ pc[p] = "unlink"
  /\ Unlink(p)
  /\ Goto(p, "idle")
  /\ reentered' = reentered \ {p}
  /\ UNCHANGED <<seen, alive, aged>>

-----------------------------------------------------------------------------
(* The end of a process and the passing of time.                           *)

\* A script that is done, a kill, an out-of-memory kill.
Die(p) ==
  /\ p \in Mortal \cap alive
  /\ CrashAnywhere \/ pc[p] = "idle"
  /\ alive' = alive \ {p}
  /\ Goto(p, "idle")
  /\ seen' = [seen EXCEPT ![p] = Nobody]
  /\ reentered' = reentered \ {p}
  /\ UNCHANGED <<file, broken, aged>>

\* 25 minutes of wall-clock time since the file was written: a long run, a
\* machine that slept, a holder that is gone.
Age ==
  /\ Ageing
  /\ creator # Nobody /\ ~old
  /\ old' = TRUE /\ aged' = TRUE
  /\ UNCHANGED <<pc, seen, reentered, creator, written, alive, broken>>

Step(p) ==
  \/ Start(p) \/ Enter(p) \/ Look(p) \/ Judge(p) \/ Clear(p) \/ Create(p) \/ Write(p)
  \/ Retry(p) \/ GiveUp(p) \/ Peek(p) \/ PeekJudge(p) \/ PeekClear(p)
  \/ Finish(p) \/ Leave(p) \/ Check(p) \/ Remove(p)

Next == (\E p \in Procs : Step(p) \/ Die(p)) \/ Age

Spec == Init /\ [][Next]_vars

\* A process that is alive goes on, and the clock too; no process is owed a
\* turn at the lock.
FairSpec == Spec /\ WF_vars(Age) /\ \A p \in Procs : WF_vars(Step(p))

-----------------------------------------------------------------------------
(* Properties.                                                             *)

\* "prevent ... all hit MLX generate simultaneously": two processes at work
\* work under one lock.
MutualExclusion ==
  \A p, q \in Procs : pc[p] = "working" /\ pc[q] = "working" => Owner(p) = Owner(q)

\* Mutual exclusion holds through every interleaving of acquires, releases,
\* peeks, ends and clock ticks up to the first removal of a lock that someone
\* else was running under.
ExclusiveUntilBroken == ~broken => MutualExclusion

\* No release is that first removal, only the clearing of a stale lock is:
\* "releaseMlxLock only unlinks if the on-disk holder-id matches ours".
OnlyClearingBreaks ==
  [][~broken /\ broken' => \E p \in Procs : Clear(p) \/ PeekClear(p)]_vars

\* The clearing of stale locks is harmless as long as no process with a PID in
\* its holder id has ended and no lock reached 25 minutes.
UnbrokenWhileNoneEnds == WithPid \subseteq alive /\ ~aged => ~broken

\* "a no-op so parent-acquired locks survive child-process acquire attempts":
\* a child never waits for the lock its own parent works under.
ChildNeverWaits ==
  ~broken => \A p \in Procs :
               Env[p] # Nobody /\ pc[p] = "wait" => pc[Env[p]] # "working"

\* The lock file a process left behind is removed in the end, with or without
\* a PID or any text in it, as long as somebody keeps asking for the lock.
OrphanCleared ==
  \A p \in Procs : (creator = p /\ p \notin alive) ~> (creator # p)
=============================================================================
