-------------------------- MODULE MlxLock_proofs --------------------------
(***************************************************************************)
(* Proofs about MlxLock, for every set of processes, every choice of who   *)
(* has a PID in its holder id, who is whose child and who may end where.   *)
(***************************************************************************)
EXTENDS MlxLock, TLAPS

\* Only living processes are anywhere but at rest, and a process that went on
\* under its parent's lock has a parent and is past the acquire.
Places ==
  /\ \A p \in Procs : pc[p] # "idle" => p \in alive
  /\ \A p \in reentered : Env[p] # Nobody /\ pc[p] \in {"working", "leave", "check", "unlink"}

\* A parent that is alive stays at work for as long as its child is busy.
ParentWaits ==
  \A c \in Procs : Env[c] # Nobody /\ pc[c] # "idle" /\ Env[c] \in alive
                     => pc[Env[c]] = "working"

\* Everyone inside runs under the one file, which names its owner as soon as
\* the owner has written it, and nobody removes a file it only re-entered.
FileIsOwners ==
  ~broken => \A p \in Procs :
    /\ pc[p] \in Inside => creator = Owner(p)
    /\ pc[p] \in Inside \ {"write"} => written
    /\ pc[p] = "unlink" => p \notin reentered

\* A child of a working parent got, or will get, in by re-entry.
ChildReenters ==
  ~broken => \A c \in Procs :
    Env[c] # Nobody /\ pc[Env[c]] = "working"
      => pc[c] \in {"idle", "enter"} \/ c \in reentered

IInv == TypeOK /\ Places /\ ParentWaits /\ FileIsOwners /\ ChildReenters

LEMMA InitIInv == Init => IInv
  BY ConstantsAssumption
  DEF Init, IInv, TypeOK, Places, ParentWaits, FileIsOwners, ChildReenters, Before, Inside, Owner

\* Every step keeps the shape of the state.
LEMMA TypeStep == TypeOK /\ [Next]_vars => TypeOK'
<1> SUFFICES ASSUME TypeOK, [Next]_vars PROVE TypeOK'
  OBVIOUS
<1> USE ConstantsAssumption DEF TypeOK, Before, Inside, Goto, Content, file, Unlink
<1>1. ASSUME NEW p \in Procs, Step(p) PROVE TypeOK'
  <2>1. CASE Start(p) BY <2>1 DEF Start
  <2>2. CASE Enter(p) BY <2>2 DEF Enter
  <2>3. CASE Look(p) BY <2>3 DEF Look
  <2>4. CASE Judge(p) BY <2>4 DEF Judge
  <2>5. CASE Clear(p) BY <2>5 DEF Clear
  <2>6. CASE Create(p) BY <2>6 DEF Create
  <2>7. CASE Write(p)
    <3>1. CASE creator = p BY <2>7, <3>1 DEF Write
    <3>2. CASE creator # p
      <4>1. pc' = [pc EXCEPT ![p] = "working"] /\ UNCHANGED <<written, old, creator>>
        BY <2>7, <3>2, Zenon DEF Write
      <4> QED BY <2>7, <4>1 DEF Write
    <3> QED BY <3>1, <3>2
  <2>8. CASE Retry(p) BY <2>8 DEF Retry
  <2>9. CASE GiveUp(p) BY <2>9 DEF GiveUp
  <2>10. CASE Peek(p) BY <2>10 DEF Peek
  <2>11. CASE PeekJudge(p) BY <2>11 DEF PeekJudge
  <2>12. CASE PeekClear(p) BY <2>12 DEF PeekClear
  <2>13. CASE Finish(p) BY <2>13 DEF Finish
  <2>14. CASE Leave(p) BY <2>14 DEF Leave
  <2>15. CASE Check(p) BY <2>15 DEF Check
  <2>16. CASE Remove(p) BY <2>16 DEF Remove
  <2> QED BY <1>1, <2>1, <2>2, <2>3, <2>4, <2>5, <2>6, <2>7, <2>8, <2>9, <2>10, <2>11,
             <2>12, <2>13, <2>14, <2>15, <2>16 DEF Step
<1>2. ASSUME NEW p \in Procs, Die(p) PROVE TypeOK'
  BY <1>2 DEF Die
<1>3. CASE Age BY <1>3 DEF Age
<1>4. CASE UNCHANGED vars BY <1>4 DEF vars
<1> QED BY <1>1, <1>2, <1>3, <1>4 DEF Next

\* Mutual exclusion up to the first broken lock, and what it rests on, one
\* conjunct at a time.
LEMMA PlacesStep == IInv /\ [Next]_vars => Places'
<1> SUFFICES ASSUME IInv, [Next]_vars PROVE Places'
  OBVIOUS
<1> USE ConstantsAssumption DEF IInv, TypeOK, Places, Before, Inside, Goto, ParentHolds, Content, file
<1>1. ASSUME NEW p \in Procs, Step(p) PROVE Places'
  <2>1. CASE Start(p) BY <2>1 DEF Start
  <2>2. CASE Enter(p) BY <2>2 DEF Enter
  <2>3. CASE Look(p) BY <2>3 DEF Look
  <2>4. CASE Judge(p) BY <2>4 DEF Judge
  <2>5. CASE Clear(p) BY <2>5 DEF Clear
  <2>6. CASE Create(p) BY <2>6 DEF Create
  <2>7. CASE Write(p) BY <2>7 DEF Write
  <2>8. CASE Retry(p) BY <2>8 DEF Retry
  <2>9. CASE GiveUp(p) BY <2>9 DEF GiveUp
  <2>10. CASE Peek(p) BY <2>10 DEF Peek
  <2>11. CASE PeekJudge(p) BY <2>11 DEF PeekJudge
  <2>12. CASE PeekClear(p) BY <2>12 DEF PeekClear
  <2>13. CASE Finish(p) BY <2>13 DEF Finish
  <2>14. CASE Leave(p) BY <2>14 DEF Leave
  <2>15. CASE Check(p) BY <2>15 DEF Check
  <2>16. CASE Remove(p) BY <2>16 DEF Remove
  <2> QED BY <1>1, <2>1, <2>2, <2>3, <2>4, <2>5, <2>6, <2>7, <2>8, <2>9, <2>10, <2>11,
             <2>12, <2>13, <2>14, <2>15, <2>16 DEF Step
<1>2. ASSUME NEW p \in Procs, Die(p) PROVE Places'
  BY <1>2 DEF Die
<1>3. CASE Age BY <1>3 DEF Age
<1>4. CASE UNCHANGED vars BY <1>4 DEF vars
<1> QED BY <1>1, <1>2, <1>3, <1>4 DEF Next

LEMMA ParentWaitsStep == IInv /\ [Next]_vars => ParentWaits'
<1> SUFFICES ASSUME IInv, [Next]_vars PROVE ParentWaits'
  OBVIOUS
<1> USE ConstantsAssumption
    DEF IInv, TypeOK, Places, ParentWaits, Before, Inside, Goto, ParentHolds, Content, file
<1>1. ASSUME NEW p \in Procs, Step(p) PROVE ParentWaits'
  <2>1. CASE Start(p) BY <2>1 DEF Start
  <2>2. CASE Enter(p) BY <2>2 DEF Enter
  <2>3. CASE Look(p) BY <2>3 DEF Look
  <2>4. CASE Judge(p) BY <2>4 DEF Judge
  <2>5. CASE Clear(p) BY <2>5 DEF Clear
  <2>6. CASE Create(p) BY <2>6 DEF Create
  <2>7. CASE Write(p) BY <2>7 DEF Write
  <2>8. CASE Retry(p) BY <2>8 DEF Retry
  <2>9. CASE GiveUp(p) BY <2>9 DEF GiveUp
  <2>10. CASE Peek(p) BY <2>10 DEF Peek
  <2>11. CASE PeekJudge(p) BY <2>11 DEF PeekJudge
  <2>12. CASE PeekClear(p) BY <2>12 DEF PeekClear
  <2>13. CASE Finish(p) BY <2>13 DEF Finish
  <2>14. CASE Leave(p) BY <2>14 DEF Leave
  <2>15. CASE Check(p) BY <2>15 DEF Check
  <2>16. CASE Remove(p) BY <2>16 DEF Remove
  <2> QED BY <1>1, <2>1, <2>2, <2>3, <2>4, <2>5, <2>6, <2>7, <2>8, <2>9, <2>10, <2>11,
             <2>12, <2>13, <2>14, <2>15, <2>16 DEF Step
<1>2. ASSUME NEW p \in Procs, Die(p) PROVE ParentWaits'
  BY <1>2 DEF Die
<1>3. CASE Age BY <1>3 DEF Age
<1>4. CASE UNCHANGED vars BY <1>4 DEF vars
<1> QED BY <1>1, <1>2, <1>3, <1>4 DEF Next

\* An unlink that broke nothing found nobody else inside.
LEMMA UnlinkUnbroken ==
  ASSUME IInv, NEW p \in Procs, Unlink(p), ~broken'
  PROVE  ~broken /\ \A q \in Procs \ {p} : pc[q] \notin Inside
<1>1. ~broken /\ (creator = Nobody \/ \A q \in Procs \ {p} : pc[q] \notin Inside \/ Owner(q) # creator)
  BY Zenon DEF Unlink
<1>2. \A q \in Procs : pc[q] \in Inside => creator = Owner(q) /\ Owner(q) # Nobody
  BY <1>1, ConstantsAssumption DEF IInv, TypeOK, Places, FileIsOwners, Owner
<1> QED BY <1>1, <1>2

LEMMA FileStep == IInv /\ [Next]_vars => FileIsOwners'
<1> SUFFICES ASSUME IInv, [Next]_vars PROVE FileIsOwners'
  OBVIOUS
<1> USE ConstantsAssumption DEF IInv, TypeOK, Places, ParentWaits, FileIsOwners, Inside, Owner,
        Before, Goto, ParentHolds, Content, file
<1>1. ASSUME NEW p \in Procs, Step(p) PROVE FileIsOwners'
  <2>1. CASE Start(p) BY <2>1 DEF Start
  <2>2. CASE Enter(p) BY <2>2 DEF Enter
  <2>3. CASE Look(p) BY <2>3 DEF Look
  <2>4. CASE Judge(p) BY <2>4 DEF Judge
  <2>5. CASE Clear(p)
    <3>1. Unlink(p) /\ pc' = [pc EXCEPT ![p] = "create"] /\ reentered' = reentered
      BY <2>5 DEF Clear
    <3>2. ~broken' => \A q \in Procs \ {p} : pc[q] \notin Inside
      BY <3>1, UnlinkUnbroken
    <3> QED BY <3>1, <3>2
  <2>6. CASE Create(p) BY <2>6 DEF Create
  <2>7. CASE Write(p) BY <2>7 DEF Write
  <2>8. CASE Retry(p) BY <2>8 DEF Retry
  <2>9. CASE GiveUp(p) BY <2>9 DEF GiveUp
  <2>10. CASE Peek(p) BY <2>10 DEF Peek
  <2>11. CASE PeekJudge(p) BY <2>11 DEF PeekJudge
  <2>12. CASE PeekClear(p)
    <3>1. Unlink(p) /\ pc' = [pc EXCEPT ![p] = "idle"] /\ reentered' = reentered
      BY <2>12 DEF PeekClear
    <3>2. ~broken' => \A q \in Procs \ {p} : pc[q] \notin Inside
      BY <3>1, UnlinkUnbroken
    <3> QED BY <3>1, <3>2
  <2>13. CASE Finish(p) BY <2>13 DEF Finish
  <2>14. CASE Leave(p) BY <2>14 DEF Leave
  <2>15. CASE Check(p) BY <2>15 DEF Check
  <2>16. CASE Remove(p) BY <2>16 DEF Remove, Unlink
  <2> QED BY <1>1, <2>1, <2>2, <2>3, <2>4, <2>5, <2>6, <2>7, <2>8, <2>9, <2>10, <2>11,
             <2>12, <2>13, <2>14, <2>15, <2>16 DEF Step
<1>2. ASSUME NEW p \in Procs, Die(p) PROVE FileIsOwners'
  BY <1>2 DEF Die
<1>3. CASE Age BY <1>3 DEF Age
<1>4. CASE UNCHANGED vars BY <1>4 DEF vars
<1> QED BY <1>1, <1>2, <1>3, <1>4 DEF Next

LEMMA ReenterStep == IInv /\ [Next]_vars => ChildReenters'
<1> SUFFICES ASSUME IInv, [Next]_vars PROVE ChildReenters'
  OBVIOUS
<1> USE ConstantsAssumption DEF IInv, TypeOK, Places, ParentWaits, FileIsOwners, ChildReenters,
        Inside, Owner, Before, Goto, ParentHolds, Content, file, Unlink
<1>1. ASSUME NEW p \in Procs, Step(p) PROVE ChildReenters'
  <2>1. CASE Start(p) BY <2>1 DEF Start
  <2>2. CASE Enter(p) BY <2>2 DEF Enter
  <2>3. CASE Look(p) BY <2>3 DEF Look
  <2>4. CASE Judge(p) BY <2>4 DEF Judge
  <2>5. CASE Clear(p) BY <2>5 DEF Clear
  <2>6. CASE Create(p) BY <2>6 DEF Create
  <2>7. CASE Write(p) BY <2>7 DEF Write
  <2>8. CASE Retry(p) BY <2>8 DEF Retry
  <2>9. CASE GiveUp(p) BY <2>9 DEF GiveUp
  <2>10. CASE Peek(p) BY <2>10 DEF Peek
  <2>11. CASE PeekJudge(p) BY <2>11 DEF PeekJudge
  <2>12. CASE PeekClear(p) BY <2>12 DEF PeekClear
  <2>13. CASE Finish(p) BY <2>13 DEF Finish
  <2>14. CASE Leave(p) BY <2>14 DEF Leave
  <2>15. CASE Check(p) BY <2>15 DEF Check
  <2>16. CASE Remove(p) BY <2>16 DEF Remove
  <2> QED BY <1>1, <2>1, <2>2, <2>3, <2>4, <2>5, <2>6, <2>7, <2>8, <2>9, <2>10, <2>11,
             <2>12, <2>13, <2>14, <2>15, <2>16 DEF Step
<1>2. ASSUME NEW p \in Procs, Die(p) PROVE ChildReenters'
  BY <1>2 DEF Die
<1>3. CASE Age BY <1>3 DEF Age
<1>4. CASE UNCHANGED vars BY <1>4 DEF vars
<1> QED BY <1>1, <1>2, <1>3, <1>4 DEF Next

LEMMA Inductive == Spec => []IInv
<1>1. IInv /\ [Next]_vars => IInv'
  BY TypeStep, PlacesStep, ParentWaitsStep, FileStep, ReenterStep DEF IInv
<1> QED BY InitIInv, <1>1, PTL DEF Spec

-----------------------------------------------------------------------------
(* The theorems.                                                           *)

\* The shape of the state, and no text and no age where there is no file.
THEOREM TypeCorrect == Spec => []TypeOK
<1>1. IInv => TypeOK
  BY DEF IInv
<1> QED BY Inductive, <1>1, PTL

\* Until the lock of a process inside is removed by somebody else, two
\* processes at work work under one lock.
THEOREM Exclusive == Spec => []ExclusiveUntilBroken
<1>1. IInv => ExclusiveUntilBroken
  BY DEF IInv, FileIsOwners, Inside, ExclusiveUntilBroken, MutualExclusion
<1> QED BY Inductive, <1>1, PTL

\* A child never waits for its own working parent.
THEOREM ChildrenReenter == Spec => []ChildNeverWaits
<1>1. IInv => ChildNeverWaits
  BY DEF IInv, Places, ChildReenters, ChildNeverWaits
<1> QED BY Inductive, <1>1, PTL

\* A release finds its own file, and nobody but its owner inside.
LEMMA RemoveHarmless ==
  ASSUME IInv, NEW p \in Procs, Remove(p), ~broken
  PROVE  ~broken'
<1>1. creator = p /\ p \in alive
  BY DEF Remove, IInv, Places, FileIsOwners, Inside, Owner
<1>2. ASSUME NEW q \in Procs \ {p}, pc[q] \in Inside, Owner(q) = p PROVE FALSE
  <2>1. q \in reentered /\ Env[q] = p
    BY <1>2 DEF Owner
  <2>2. pc[p] = "working"
    BY <1>1, <1>2, <2>1, ConstantsAssumption DEF IInv, ParentWaits, Inside
  <2> QED BY <2>2 DEF Remove
<1> QED BY <1>1, <1>2, Zenon DEF Remove, Unlink

\* Of all the steps only the two clearing ones can break a lock.
LEMMA Breaks ==
  ASSUME IInv, [Next]_vars, ~broken, broken'
  PROVE  \E p \in Procs : Clear(p) \/ PeekClear(p)
<1>1. ASSUME NEW p \in Procs, Step(p) PROVE Clear(p) \/ PeekClear(p)
  <2>1. CASE Remove(p) BY <2>1, RemoveHarmless
  <2>2. CASE Start(p) BY <2>2, Zenon DEF Start
  <2>3. CASE Enter(p) BY <2>3, Zenon DEF Enter
  <2>4. CASE Look(p) BY <2>4, Zenon DEF Look
  <2>5. CASE Judge(p) BY <2>5, Zenon DEF Judge
  <2>6. CASE Create(p) BY <2>6, Zenon DEF Create
  <2>7. CASE Write(p) BY <2>7, Zenon DEF Write
  <2>8. CASE Retry(p) BY <2>8, Zenon DEF Retry
  <2>9. CASE GiveUp(p) BY <2>9, Zenon DEF GiveUp
  <2>10. CASE Peek(p) BY <2>10, Zenon DEF Peek
  <2>11. CASE PeekJudge(p) BY <2>11, Zenon DEF PeekJudge
  <2>12. CASE Finish(p) BY <2>12, Zenon DEF Finish
  <2>13. CASE Leave(p) BY <2>13, Zenon DEF Leave
  <2>14. CASE Check(p) BY <2>14, Zenon DEF Check
  <2> QED BY <1>1, <2>1, <2>2, <2>3, <2>4, <2>5, <2>6, <2>7, <2>8,
             <2>9, <2>10, <2>11, <2>12, <2>13, <2>14 DEF Step
<1>2. ASSUME NEW p \in Procs, Die(p) PROVE FALSE
  BY <1>2, Zenon DEF Die
<1>3. CASE Age BY <1>3, Zenon DEF Age
<1>4. CASE UNCHANGED vars BY <1>4, Zenon DEF vars
<1> QED BY <1>1, <1>2, <1>3, <1>4, Zenon DEF Next

\* The first broken lock is the work of a process that clears a stale one,
\* never of a release.
THEOREM ReleasesBreakNothing == Spec => OnlyClearingBreaks
<1>1. IInv /\ [Next]_vars => [~broken /\ broken' => \E p \in Procs : Clear(p) \/ PeekClear(p)]_vars
  BY Breaks
<1> QED BY Inductive, <1>1, PTL DEF Spec, OnlyClearingBreaks

\* Why nothing breaks while nobody whose id has a PID ends and no lock ages:
\* no process ever gets to the clearing of a lock.
NobodyClears ==
  WithPid \subseteq alive /\ ~aged =>
    ~broken /\ ~old /\ \A p \in Procs : pc[p] \notin {"clear", "peekclear"}

LEMMA NobodyClearsStep == IInv /\ NobodyClears /\ [Next]_vars => NobodyClears'
<1> SUFFICES ASSUME IInv, NobodyClears, [Next]_vars, WithPid \subseteq alive', ~aged'
             PROVE  ~broken' /\ ~old' /\ \A p \in Procs : pc'[p] \notin {"clear", "peekclear"}
  BY DEF NobodyClears
<1>1. WithPid \subseteq alive /\ ~aged
  BY DEF Next, vars, file, Step, Start, Enter, Look, Judge, Clear, Create, Write, Retry, GiveUp, Peek,
         PeekJudge, PeekClear, Finish, Leave, Check, Remove, Die, Age
<1>2. ~broken /\ ~old /\ \A p \in Procs : pc[p] \notin {"clear", "peekclear"}
  BY <1>1 DEF NobodyClears
<1>3. ~broken'
  BY <1>2, Breaks DEF Clear, PeekClear
<1> QED
  BY <1>1, <1>2, <1>3
  DEF IInv, TypeOK, Before, Inside, Goto, Next, vars, file, Step, Start, Enter, Look, Judge,
      Clear, Create, Write, Retry, GiveUp, Peek, PeekJudge, PeekClear, Finish, Leave, Check,
      Remove, Unlink, Die, Age, Stale, PidDead

\* Clearing stale locks does no harm among processes that live on and finish
\* their work within 25 minutes.
THEOREM UnbrokenTheorem == Spec => []UnbrokenWhileNoneEnds
<1>1. Init => NobodyClears
  BY DEF Init, NobodyClears
<1>2. NobodyClears => UnbrokenWhileNoneEnds
  BY DEF NobodyClears, UnbrokenWhileNoneEnds
<1> QED BY Inductive, <1>1, <1>2, NobodyClearsStep, PTL DEF Spec
=============================================================================
