------------------------- MODULE TierStore_proofs -------------------------
(***************************************************************************)
(* Proofs about TierStore, for every set of contents and every bound.      *)
(***************************************************************************)
EXTENDS TierStore, FiniteSetTheorems, SequenceTheorems, TLAPS

LEMMA RowsAreNotNoRow == ASSUME NEW db \in Tables, NEW i \in Used(db) PROVE db[i] \in Rows
  BY DEF Tables, Used

\* Each way of computing a table gives a table.
LEMMA CatchUpType ==
  ASSUME TypeOK, NEW db \in Tables PROVE CatchUp(db) \in Tables
  BY RowsAreNotNoRow DEF TypeOK, CatchUp, Tables, Rows, Plain, Used

LEMMA WithoutType ==
  ASSUME NEW db \in Tables, NEW k \in Keys PROVE Without(db, k) \in Tables
  BY DEF Without, Tables

LEMMA RestoredType ==
  ASSUME TypeOK, NEW db \in Tables PROVE Restored(db) \in Tables
  BY RowsAreNotNoRow DEF TypeOK, Restored, Tables, Rows, Plain, Used

LEMMA MergedType ==
  ASSUME TypeOK, NEW base \in Tables, NEW salvaged PROVE Merged(base, salvaged) \in Tables
  BY DEF TypeOK, Merged, Tables

LEMMA InsertType ==
  ASSUME TypeOK, NEW k \in Keys, NEW hashed \in BOOLEAN, Insert(k, hashed)
  PROVE  primary' \in Tables /\ nextP' \in 0..MaxId
  BY ConstantsAssumption DEF TypeOK, Insert, Tables, Rows, Ids

LEMMA BootType ==
  ASSUME TypeOK, NEW db \in Tables, NEW seq \in 0..MaxId, Boot(db, seq)
  PROVE  primary' \in Tables /\ nextP' \in 0..MaxId
  BY RestoredType DEF Boot

LEMMA MemoryLostType ==
  ASSUME TypeOK, MemoryLost
  PROVE  /\ todo' \in Seq(Lines) /\ walq' \in Seq(Lines) /\ wal' \in Seq(Lines)
         /\ flushes' \in Nat /\ inflight' \subseteq Seq(Lines)
<1>1. wal \in Seq(Lines) /\ inflight \subseteq Seq(Lines)
  BY DEF TypeOK
<1>2. wal' = wal \/ \E batch \in inflight : wal' = wal \o batch
  BY DEF MemoryLost
<1>3. wal' \in Seq(Lines)
  BY <1>1, <1>2, ConcatProperties
<1> QED BY <1>3 DEF MemoryLost

LEMMA QueueType ==
  ASSUME TypeOK, NEW line \in Lines, AppendToWalQueue(line)
  PROVE  walq' \in Seq(Lines) /\ flushes' \in Nat
<1>1. walq \in Seq(Lines) /\ flushes \in Nat /\ Append(walq, line) \in Seq(Lines)
  BY DEF TypeOK
<1> QED BY <1>1 DEF AppendToWalQueue

LEMMA MigratedType ==
  ASSUME TypeOK, NEW rows \in StaleLists, NEW failed \in SUBSET DOMAIN rows, Migrate(rows, failed)
  PROVE  archive' \in Tables /\ primary' \in Tables /\ lastA' \in 0..MaxId
<1> DEFINE copied == (1..Len(rows)) \ failed
<1>1. PICK n \in 1..MaxId : rows \in [1..n -> Used(primary)]
  BY DEF StaleLists
<1>2. n \in Nat /\ Len(rows) = n /\ DOMAIN rows = 1..n /\ rows \in Seq(Used(primary))
  BY <1>1, ConstantsAssumption
<1>3. Cardinality(copied) \in Nat
  <2>1. IsFiniteSet(1..Len(rows))
    BY <1>2, FS_Interval
  <2> QED BY <2>1, FS_Subset, FS_CardinalityType
<1>4. \A p \in copied : rows[p] \in Ids /\ primary[rows[p]] \in Rows
  BY <1>1, <1>2, RowsAreNotNoRow DEF Used, TypeOK
<1>5. lastA + Cardinality(copied) <= MaxId /\ lastA' = lastA + Cardinality(copied)
  BY DEF Migrate
<1>6. lastA' \in 0..MaxId
  BY <1>3, <1>5, ConstantsAssumption DEF TypeOK
<1>7. archive' \in Tables
  <2>1. archive' = [i \in Ids |->
          IF \E p \in copied : Slot(p, copied) = i
          THEN primary[rows[CHOOSE p \in copied : Slot(p, copied) = i]] ELSE archive[i]]
    BY DEF Migrate
  <2>2. ASSUME NEW i \in Ids, \E p \in copied : Slot(p, copied) = i
        PROVE  primary[rows[CHOOSE p \in copied : Slot(p, copied) = i]] \in Rows
    BY <1>4, <2>2
  <2> HIDE DEF copied
  <2> QED BY <2>1, <2>2 DEF TypeOK, Tables
<1>8. primary' \in Tables
  <2> DEFINE gone == {rows[p] : p \in 1..(Len(rows) - Cardinality(failed))}
  <2>1. primary' = [i \in Ids |-> IF i \in gone THEN NoRow ELSE primary[i]]
    BY DEF Migrate
  <2> HIDE DEF gone
  <2> QED BY <2>1 DEF TypeOK, Tables
<1> QED BY <1>6, <1>7, <1>8

-----------------------------------------------------------------------------
(* Type correctness.                                                       *)

LEMMA InitType == Init => TypeOK
  BY ConstantsAssumption DEF Init, TypeOK, Empty, Tables

LEMMA StoreType == ASSUME TypeOK, NEW k \in Keys, Store(k) PROVE TypeOK'
<1>1. acked' \subseteq Keys /\ pruned' \subseteq Keys
  BY DEF Store, Ack, TypeOK
<1>2. primary' \in Tables /\ nextP' \in 0..MaxId /\ todo' \in Seq(Lines)
  <2>1. CASE Duplicate(k)
    BY <2>1 DEF Store, TypeOK, pdb
  <2>2. CASE ~Duplicate(k)
    <3>1. Insert(k, TRUE) /\ todo' = Append(todo, [id |-> nextP + 1, key |-> k])
      BY <2>2 DEF Store
    <3>2. [id |-> nextP + 1, key |-> k] \in Lines
      BY <3>1, ConstantsAssumption DEF Insert, TypeOK, Lines, Ids
    <3>3. todo' \in Seq(Lines)
      BY <3>1, <3>2, AppendProperties DEF TypeOK
    <3> QED BY <3>1, <3>3, InsertType
  <2> QED BY <2>1, <2>2
<1> QED BY <1>1, <1>2 DEF Store, TypeOK, adb, env

LEMMA WriteThroughType == ASSUME TypeOK, NEW ok \in BOOLEAN, WriteThrough(ok) PROVE TypeOK'
<1> DEFINE line == Head(todo)
<1>1. line \in Lines /\ todo' \in Seq(Lines) /\ line.id \in Ids /\ line.key \in Keys
  <2>1. todo \in Seq(Lines) /\ todo # <<>> /\ todo' = Tail(todo)
    BY DEF WriteThrough, TypeOK
  <2>2. line \in Lines /\ todo' \in Seq(Lines)
    BY <2>1, HeadTailProperties
  <2> HIDE DEF line
  <2> QED BY <2>2 DEF Lines
<1>2. walq' \in Seq(Lines) /\ flushes' \in Nat
  BY <1>1, QueueType DEF WriteThrough
<1>3. archive' \in Tables /\ lastA' \in 0..MaxId
  <2>1. \/ /\ archive' = [archive EXCEPT ![line.id] = [key |-> line.key, hashed |-> TRUE]]
           /\ lastA' = Larger(lastA, line.id)
        \/ UNCHANGED <<archive, lastA>>
    BY Zenon DEF WriteThrough, adb
  <2>2. [key |-> line.key, hashed |-> TRUE] \in Rows
    BY <1>1 DEF Rows
  <2>3. Larger(lastA, line.id) \in 0..MaxId
    BY <1>1, ConstantsAssumption DEF Larger, Ids, TypeOK
  <2> HIDE DEF line
  <2> QED BY <1>1, <2>1, <2>2, <2>3 DEF TypeOK, Tables
<1> QED BY <1>1, <1>2, <1>3 DEF WriteThrough, TypeOK, pdb, hist, env

LEMMA FlushType ==
  ASSUME TypeOK, FlushStart \/ \E batch \in inflight, ok \in BOOLEAN : FlushDone(batch, ok)
  PROVE  TypeOK'
<1>1. CASE FlushStart
  <2>1. flushes' \in Nat /\ walq' \in Seq(Lines) /\ inflight' \subseteq Seq(Lines)
    BY <1>1 DEF FlushStart, TypeOK
  <2> QED BY <1>1, <2>1 DEF FlushStart, TypeOK, pdb, adb, hist, env
<1>2. ASSUME NEW batch \in inflight, NEW ok \in BOOLEAN, FlushDone(batch, ok) PROVE TypeOK'
  <2>1. walq' \in Seq(Lines) /\ inflight' \subseteq Seq(Lines)
    BY <1>2 DEF FlushDone, TypeOK
  <2>2. batch \in Seq(Lines) /\ wal \in Seq(Lines) /\ (wal' = wal \/ wal' = wal \o batch)
    BY <1>2 DEF FlushDone, TypeOK
  <2>3. wal' \in Seq(Lines)
    BY <2>2, ConcatProperties
  <2> QED BY <1>2, <2>1, <2>3 DEF FlushDone, TypeOK, pdb, adb, hist, env
<1> QED BY <1>1, <1>2

LEMMA SyncType == ASSUME TypeOK, Sync PROVE TypeOK'
<1>1. archive' \in Tables
  BY CatchUpType DEF Sync, TypeOK
<1>2. lastA' \in 0..MaxId
  BY ConstantsAssumption DEF Sync, TypeOK, Used, Ids, Larger
<1> QED BY <1>1, <1>2 DEF Sync, TypeOK, pdb, log, hist, env

LEMMA RowType ==
  ASSUME TypeOK, NEW i \in Ids, Backfill(i) \/ Promote(i)
  PROVE  TypeOK'
<1>1. CASE Backfill(i)
  <2>1. primary[i] \in Rows
    BY <1>1, RowsAreNotNoRow DEF Backfill, TypeOK
  <2>2. [primary[i] EXCEPT !.hashed = TRUE] \in Rows
    BY <2>1 DEF Rows
  <2>3. primary' \in Tables
    BY <1>1, <2>2 DEF Backfill, TypeOK, Tables
  <2> QED BY <1>1, <2>3 DEF Backfill, TypeOK, adb, log, hist, env
<1>2. CASE Promote(i)
  <2>1. archive[i].key \in Keys
    BY <1>2, RowsAreNotNoRow DEF Promote, TypeOK, Rows
  <2>2. primary' \in Tables /\ nextP' \in 0..MaxId
    BY <1>2, <2>1, InsertType DEF Promote
  <2> QED BY <1>2, <2>2 DEF Promote, TypeOK, adb, log, hist, env
<1> QED BY <1>1, <1>2

LEMMA ReplayType == ASSUME TypeOK, ReplayWal PROVE TypeOK'
<1> DEFINE At(landed, i) == {p \in landed : wal[p].id = i}
<1>1. PICK landed \in SUBSET DOMAIN wal :
        primary' = [i \in Ids |-> IF At(landed, i) = {} THEN primary[i]
                      ELSE [key |-> wal[CHOOSE p \in At(landed, i) : TRUE].key, hashed |-> TRUE]]
  BY DEF ReplayWal
<1>2. ASSUME NEW i \in Ids, At(landed, i) # {}
      PROVE  [key |-> wal[CHOOSE p \in At(landed, i) : TRUE].key, hashed |-> TRUE] \in Rows
  <2>1. PICK q \in At(landed, i) : q = CHOOSE p \in At(landed, i) : TRUE
    BY <1>2
  <2>2. wal[q] \in Lines
    BY <2>1 DEF TypeOK
  <2> QED BY <2>1, <2>2 DEF Lines, Rows
<1>3. primary' \in Tables
  <2> HIDE DEF At
  <2> QED BY <1>1, <1>2 DEF TypeOK, Tables
<1>4. nextP' \in 0..MaxId
  BY Zenon DEF ReplayWal
<1> QED BY <1>3, <1>4 DEF ReplayWal, TypeOK, adb, log, hist, env

LEMMA RestartType == ASSUME TypeOK, Restart PROVE TypeOK'
<1>1. primary' \in Tables /\ nextP' \in 0..MaxId
  BY BootType DEF Restart, TypeOK
<1>2. restarts' \in 0..MaxRestarts
  BY ConstantsAssumption DEF Restart, TypeOK
<1> QED BY <1>1, <1>2, MemoryLostType DEF Restart, TypeOK, adb, hist

LEMMA RecoverType == ASSUME TypeOK, NEW salvaged, Recover(salvaged) PROVE TypeOK'
<1>1. Merged(snap.rows, salvaged) \in Tables
  BY MergedType DEF TypeOK
<1>2. PICK n \in 0..MaxId : Boot(Merged(snap.rows, salvaged), n)
  BY DEF Recover
<1>3. primary' \in Tables /\ nextP' \in 0..MaxId
  BY <1>1, <1>2, BootType
<1>4. losses' \in 0..MaxLosses
  BY ConstantsAssumption DEF Recover, TypeOK
<1> QED BY <1>3, <1>4, MemoryLostType DEF Recover, TypeOK, adb, hist

LEMMA TypeStep == TypeOK /\ [Next]_vars => TypeOK'
<1> SUFFICES ASSUME TypeOK, [Next]_vars PROVE TypeOK'
  OBVIOUS
<1>1. ASSUME NEW k \in Keys, InsertDirect(k) PROVE TypeOK'
  <2>1. primary' \in Tables /\ nextP' \in 0..MaxId
    BY <1>1, InsertType DEF InsertDirect
  <2> QED BY <1>1, <2>1 DEF InsertDirect, Ack, TypeOK, adb, log, env
<1>2. ASSUME NEW k \in Keys, NEW ok \in BOOLEAN, Prune(k, ok) PROVE TypeOK'
  BY <1>2, WithoutType DEF Prune, TypeOK, log, env
<1>3. CASE DedupSsd
  BY <1>3 DEF DedupSsd, TypeOK, Tables, pdb, log, hist, env
<1>4. ASSUME NEW rows \in StaleLists, NEW failed \in SUBSET DOMAIN rows, Migrate(rows, failed)
      PROVE  TypeOK'
  BY <1>4, MigratedType DEF Migrate, TypeOK, log, hist, env
<1>5. CASE Snapshot
  BY <1>5 DEF Snapshot, TypeOK, pdb, adb, log, hist
<1>6. CASE UNCHANGED vars
  BY <1>6 DEF vars, TypeOK, pdb, adb, log, hist, env
<1> QED
  BY <1>1, <1>2, <1>3, <1>4, <1>5, <1>6, StoreType, WriteThroughType, FlushType, SyncType,
     RowType, ReplayType, RestartType, RecoverType, Zenon DEF Next

\* The tables, logs and sequences keep their shape, through every migration,
\* replay, restart and recovery.
THEOREM TypeCorrect == Spec => []TypeOK
  BY InitType, TypeStep, PTL DEF Spec

-----------------------------------------------------------------------------
(***************************************************************************)
(* AlignedIds, in the default mode, and RecoveryIsSuperset.  What makes    *)
(* them inductive: an id says the same content not only in the two         *)
(* databases but everywhere it is written down, in the callbacks, the      *)
(* queue, the batches under way, the log and the snapshot, since a later   *)
(* step copies any of these into a database; and no id above the sequence  *)
(* is written anywhere.  With a RAM disk the archive has ids of its own,   *)
(* and it is so of the rest until a restart copies rows from there.        *)
(***************************************************************************)

RowsOf(db) == {[id |-> i, key |-> db[i].key] : i \in Used(db)}
LinesOf(s) == {s[n] : n \in DOMAIN s}

Archived == IF UseRamDisk THEN {} ELSE RowsOf(archive)
Claims ==
  RowsOf(primary) \cup RowsOf(snap.rows) \cup Archived
    \cup LinesOf(todo) \cup LinesOf(walq) \cup LinesOf(wal)
    \cup UNION {LinesOf(batch) : batch \in inflight}

OneContentPerId == \A l, m \in Claims : l.id = m.id => l = m
BelowSequence == \A l \in Claims : l.id <= nextP

\* The primary file was not lost, nor ids of two sequences mixed.
Undisturbed == losses = 0 /\ (UseRamDisk => restarts = 0)

IInv == Undisturbed => OneContentPerId /\ BelowSequence

\* What sequences say after the operations of the model.
LEMMA LinesOfAppend ==
  ASSUME NEW s \in Seq(Lines), NEW e \in Lines
  PROVE  LinesOf(Append(s, e)) = LinesOf(s) \cup {e}
<1>1. DOMAIN s = 1..Len(s) /\ DOMAIN Append(s, e) = 1..(Len(s) + 1) /\ Len(s) \in Nat
  BY AppendProperties
<1>2. \A n \in 1..Len(s) : Append(s, e)[n] = s[n]
  BY AppendProperties
<1>3. Append(s, e)[Len(s) + 1] = e
  BY AppendProperties
<1>4. 1..(Len(s) + 1) = 1..Len(s) \cup {Len(s) + 1}
  BY <1>1
<1> QED BY <1>1, <1>2, <1>3, <1>4 DEF LinesOf

LEMMA LinesOfTail ==
  ASSUME NEW s \in Seq(Lines), s # <<>>
  PROVE  LinesOf(Tail(s)) \subseteq LinesOf(s) /\ Head(s) \in LinesOf(s)
<1>1. DOMAIN s = 1..Len(s) /\ DOMAIN Tail(s) = 1..(Len(s) - 1) /\ Len(s) \in Nat \ {0}
  BY HeadTailProperties
<1>2. \A n \in 1..(Len(s) - 1) : Tail(s)[n] = s[n + 1]
  BY HeadTailProperties
<1>3. Head(s) = s[1]
  OBVIOUS
<1> QED BY <1>1, <1>2, <1>3 DEF LinesOf

LEMMA LinesOfConcat ==
  ASSUME NEW s \in Seq(Lines), NEW t \in Seq(Lines)
  PROVE  LinesOf(s \o t) \subseteq LinesOf(s) \cup LinesOf(t)
<1>1. /\ DOMAIN s = 1..Len(s) /\ DOMAIN t = 1..Len(t) /\ DOMAIN (s \o t) = 1..(Len(s) + Len(t))
      /\ Len(s) \in Nat /\ Len(t) \in Nat
  BY ConcatProperties
<1>2. \A n \in 1..(Len(s) + Len(t)) : (s \o t)[n] = IF n <= Len(s) THEN s[n] ELSE t[n - Len(s)]
  BY ConcatProperties
<1> SUFFICES ASSUME NEW n \in 1..(Len(s) + Len(t))
             PROVE  (s \o t)[n] \in LinesOf(s) \cup LinesOf(t)
  BY <1>1 DEF LinesOf
<1>3. CASE n <= Len(s)
  BY <1>1, <1>2, <1>3 DEF LinesOf
<1>4. CASE n > Len(s)
  <2>1. n - Len(s) \in DOMAIN t /\ (s \o t)[n] = t[n - Len(s)]
    BY <1>1, <1>2, <1>4
  <2> QED BY <2>1 DEF LinesOf
<1> QED BY <1>1, <1>3, <1>4

LEMMA LinesOfEmpty == LinesOf(<<>>) = {}
  BY DEF LinesOf

LEMMA RowClaims ==
  ASSUME NEW db \in Tables, NEW i \in Used(db)
  PROVE  [id |-> i, key |-> db[i].key] \in RowsOf(db) /\ db[i] \in Rows /\ i \in Ids
  BY RowsAreNotNoRow DEF RowsOf, Used

LEMMA RestoredClaims ==
  ASSUME TypeOK, NEW db \in Tables
  PROVE  RowsOf(Restored(db)) \subseteq RowsOf(db) \cup RowsOf(archive)
<1> SUFFICES ASSUME NEW i \in Used(Restored(db))
             PROVE  [id |-> i, key |-> Restored(db)[i].key] \in RowsOf(db) \cup RowsOf(archive)
  BY DEF RowsOf
<1>1. i \in Ids /\ Restored(db)[i] # NoRow
  BY DEF Used
<1>2. CASE Restored(db)[i] = db[i]
  BY <1>1, <1>2, RowClaims DEF Used
<1>3. CASE Restored(db)[i] # db[i]
  <2>1. i \in Used(archive) /\ Restored(db)[i] = Plain(archive[i])
    BY <1>1, <1>3 DEF Restored
  <2>2. archive[i] \in Rows /\ [id |-> i, key |-> archive[i].key] \in RowsOf(archive)
    BY <2>1, RowClaims DEF TypeOK
  <2> QED BY <2>1, <2>2 DEF Plain, Rows
<1> QED BY <1>2, <1>3

LEMMA RowsOfType == ASSUME NEW db \in Tables PROVE RowsOf(db) \subseteq Lines
<1> SUFFICES ASSUME NEW i \in Used(db) PROVE [id |-> i, key |-> db[i].key] \in Lines
  BY DEF RowsOf
<1>1. db[i] \in Rows /\ i \in Ids
  BY RowClaims
<1> QED BY <1>1 DEF Rows, Lines

LEMMA LinesOfType == ASSUME NEW s \in Seq(Lines) PROVE LinesOf(s) \subseteq Lines
  BY DEF LinesOf

LEMMA ClaimsType == ASSUME TypeOK PROVE \A l \in Claims : l.id \in Nat /\ l \in Lines
<1>1. Claims \subseteq Lines
  BY RowsOfType, LinesOfType DEF Claims, Archived, TypeOK
<1>2. \A l \in Lines : l.id \in Nat
  BY DEF Lines, Ids
<1> QED BY <1>1, <1>2

\* A step that writes down nothing new, or one content under the next id,
\* keeps the invariant.
LEMMA NothingNew ==
  ASSUME TypeOK, IInv, Undisturbed' => Undisturbed, Claims' \subseteq Claims, nextP' >= nextP, nextP' \in Nat
  PROVE  IInv'
<1>1. nextP \in Nat
  BY ConstantsAssumption DEF TypeOK
<1> QED BY <1>1, ClaimsType DEF IInv, OneContentPerId, BelowSequence

LEMMA OneNew ==
  ASSUME TypeOK, IInv, UNCHANGED <<losses, restarts>>, NEW k \in Keys, nextP' = nextP + 1,
         Claims' \subseteq Claims \cup {[id |-> nextP + 1, key |-> k]}
  PROVE  IInv'
<1>1. nextP \in Nat
  BY ConstantsAssumption DEF TypeOK
<1>2. [id |-> nextP + 1, key |-> k].id = nextP + 1
  OBVIOUS
<1> QED BY <1>1, <1>2, ClaimsType DEF IInv, Undisturbed, OneContentPerId, BelowSequence

LEMMA InsertClaims ==
  ASSUME TypeOK, NEW k \in Keys, NEW hashed \in BOOLEAN, Insert(k, hashed)
  PROVE  /\ RowsOf(primary') \subseteq RowsOf(primary) \cup {[id |-> nextP + 1, key |-> k]}
         /\ nextP' = nextP + 1
<1>1. nextP' = nextP + 1 /\ primary' = [primary EXCEPT ![nextP + 1] = [key |-> k, hashed |-> hashed]]
  BY DEF Insert
<1> SUFFICES ASSUME NEW i \in Used(primary')
             PROVE  [id |-> i, key |-> primary'[i].key]
                      \in RowsOf(primary) \cup {[id |-> nextP + 1, key |-> k]}
  BY <1>1 DEF RowsOf
<1>2. i \in Ids /\ primary'[i] # NoRow /\ primary \in [Ids -> Rows \cup {NoRow}]
  BY DEF Used, TypeOK, Tables
<1>3. CASE i = nextP + 1
  BY <1>1, <1>2, <1>3
<1>4. CASE i # nextP + 1
  <2>1. primary'[i] = primary[i] /\ i \in Used(primary)
    BY <1>1, <1>2, <1>4 DEF Used
  <2> QED BY <2>1 DEF RowsOf
<1> QED BY <1>3, <1>4

LEMMA SubtableClaims ==
  ASSUME NEW db, NEW new, \A i \in Ids : new[i] = NoRow \/ (new[i].key = db[i].key /\ db[i] # NoRow)
  PROVE  RowsOf(new) \subseteq RowsOf(db)
  BY DEF RowsOf, Used

LEMMA NextPType == ASSUME TypeOK PROVE nextP \in Nat
  BY ConstantsAssumption DEF TypeOK

LEMMA Same ==
  ASSUME TypeOK, IInv,
         UNCHANGED <<primary, nextP, archive, todo, walq, inflight, wal, snap, losses, restarts>>
  PROVE  IInv'
<1>1. Claims' = Claims
  BY DEF Claims, Archived, RowsOf, Used, LinesOf
<1> QED BY <1>1, NothingNew, NextPType DEF Undisturbed

-----------------------------------------------------------------------------
(* The steps.                                                              *)

LEMMA StoreStep == ASSUME TypeOK, IInv, NEW k \in Keys, Store(k) PROVE IInv'
<1>1. CASE Duplicate(k)
  <2>1. UNCHANGED <<primary, nextP, archive, todo, walq, inflight, wal, snap, losses, restarts>>
    BY <1>1 DEF Store, pdb, adb, env
  <2> QED BY <2>1, Same
<1>2. CASE ~Duplicate(k)
  <2>1. Insert(k, TRUE) /\ todo' = Append(todo, [id |-> nextP + 1, key |-> k])
    BY <1>2 DEF Store
  <2>2. [id |-> nextP + 1, key |-> k] \in Lines
    BY <2>1, NextPType, ConstantsAssumption DEF Insert, Lines, Ids
  <2>3. LinesOf(todo') = LinesOf(todo) \cup {[id |-> nextP + 1, key |-> k]}
    BY <2>1, <2>2, LinesOfAppend DEF TypeOK
  <2>4. /\ RowsOf(primary') \subseteq RowsOf(primary) \cup {[id |-> nextP + 1, key |-> k]}
        /\ nextP' = nextP + 1
    BY <2>1, InsertClaims
  <2>5. UNCHANGED <<archive, walq, wal, inflight, snap, losses, restarts>>
    BY DEF Store, adb, env
  <2>6. Claims' \subseteq Claims \cup {[id |-> nextP + 1, key |-> k]}
    BY <2>3, <2>4, <2>5 DEF Claims, Archived, RowsOf, Used
  <2> QED BY <2>4, <2>5, <2>6, OneNew
<1> QED BY <1>1, <1>2

LEMMA InsertDirectStep == ASSUME TypeOK, IInv, NEW k \in Keys, InsertDirect(k) PROVE IInv'
<1>1. /\ RowsOf(primary') \subseteq RowsOf(primary) \cup {[id |-> nextP + 1, key |-> k]}
      /\ nextP' = nextP + 1
  BY InsertClaims DEF InsertDirect
<1>2. UNCHANGED <<archive, todo, walq, inflight, wal, snap, losses, restarts>>
  BY DEF InsertDirect, adb, log, env
<1>3. Claims' \subseteq Claims \cup {[id |-> nextP + 1, key |-> k]}
  BY <1>1, <1>2 DEF Claims, Archived, RowsOf, Used
<1> QED BY <1>1, <1>2, <1>3, OneNew

LEMMA PromoteStep == ASSUME TypeOK, IInv, NEW i \in Ids, Promote(i) PROVE IInv'
<1> DEFINE k == archive[i].key
<1>1. k \in Keys
  BY RowsAreNotNoRow DEF Promote, TypeOK, Rows
<1>2. /\ RowsOf(primary') \subseteq RowsOf(primary) \cup {[id |-> nextP + 1, key |-> k]}
      /\ nextP' = nextP + 1
  BY <1>1, InsertClaims DEF Promote
<1>3. UNCHANGED <<archive, todo, walq, inflight, wal, snap, losses, restarts>>
  BY DEF Promote, adb, log, env
<1>4. Claims' \subseteq Claims \cup {[id |-> nextP + 1, key |-> k]}
  BY <1>2, <1>3 DEF Claims, Archived, RowsOf, Used
<1> QED BY <1>1, <1>2, <1>3, <1>4, OneNew

LEMMA WriteThroughStep == ASSUME TypeOK, IInv, NEW ok \in BOOLEAN, WriteThrough(ok) PROVE IInv'
<1> DEFINE line == Head(todo)
<1>1. todo \in Seq(Lines) /\ todo # <<>> /\ todo' = Tail(todo)
  BY DEF WriteThrough, TypeOK
<1>2. line \in LinesOf(todo) /\ LinesOf(todo') \subseteq LinesOf(todo) /\ line \in Lines
  BY <1>1, LinesOfTail, LinesOfType
<1>3. LinesOf(walq') \subseteq LinesOf(walq) \cup {line}
  <2>1. walq' = walq \/ walq' = Append(walq, line)
    BY DEF WriteThrough, AppendToWalQueue
  <2>2. walq \in Seq(Lines)
    BY DEF TypeOK
  <2> HIDE DEF line
  <2> QED BY <1>2, <2>1, <2>2, LinesOfAppend
<1>4. RowsOf(archive') \subseteq RowsOf(archive) \cup {line}
  <2>1. \/ archive' = [archive EXCEPT ![line.id] = [key |-> line.key, hashed |-> TRUE]]
        \/ archive' = archive
    BY Zenon DEF WriteThrough, adb
  <2> HIDE DEF line
  <2>2. line.id \in Ids /\ line = [id |-> line.id, key |-> line.key]
    BY <1>2 DEF Lines
  <2>3. CASE archive' = [archive EXCEPT ![line.id] = [key |-> line.key, hashed |-> TRUE]]
    <3> SUFFICES ASSUME NEW i \in Used(archive')
                 PROVE  [id |-> i, key |-> archive'[i].key] \in RowsOf(archive) \cup {line}
      BY DEF RowsOf
    <3>1. i \in Ids /\ archive'[i] # NoRow /\ archive \in [Ids -> Rows \cup {NoRow}]
      BY DEF Used, TypeOK, Tables
    <3>2. CASE i = line.id
      BY <2>2, <2>3, <3>1, <3>2
    <3>3. CASE i # line.id
      <4>1. archive'[i] = archive[i] /\ i \in Used(archive)
        BY <2>3, <3>1, <3>3 DEF Used
      <4> QED BY <4>1 DEF RowsOf
    <3> QED BY <3>2, <3>3
  <2> QED BY <2>1, <2>3
<1>5. UNCHANGED <<primary, nextP, inflight, wal, snap, losses, restarts>>
  BY DEF WriteThrough, pdb, env
<1>6. Claims' \subseteq Claims
  <2> HIDE DEF line
  <2>1. UNCHANGED <<RowsOf(primary), RowsOf(snap.rows)>>
    BY <1>5 DEF RowsOf, Used
  <2> QED BY <1>2, <1>3, <1>4, <1>5, <2>1 DEF Claims, Archived
<1> QED BY <1>5, <1>6, NothingNew, NextPType DEF Undisturbed

LEMMA FlushStep ==
  ASSUME TypeOK, IInv, FlushStart \/ \E batch \in inflight, ok \in BOOLEAN : FlushDone(batch, ok)
  PROVE  IInv'
<1>1. CASE FlushStart
  <2>1. walq' = <<>> /\ inflight' \subseteq inflight \cup {walq}
    BY <1>1 DEF FlushStart
  <2>2. UNCHANGED <<primary, nextP, archive, todo, wal, snap, losses, restarts>>
    BY <1>1 DEF FlushStart, pdb, adb, env
  <2>3. UNCHANGED <<RowsOf(primary), RowsOf(snap.rows), Archived>>
    BY <2>2 DEF RowsOf, Used, Archived
  <2>4. Claims' \subseteq Claims
    BY <2>1, <2>2, <2>3, LinesOfEmpty DEF Claims
  <2> QED BY <2>2, <2>4, NothingNew, NextPType DEF Undisturbed
<1>2. ASSUME NEW batch \in inflight, NEW ok \in BOOLEAN, FlushDone(batch, ok) PROVE IInv'
  <2>1. walq' = <<>> /\ inflight' \subseteq inflight \cup {walq}
    BY <1>2 DEF FlushDone
  <2>2. UNCHANGED <<primary, nextP, archive, todo, snap, losses, restarts>>
    BY <1>2 DEF FlushDone, pdb, adb, env
  <2>3. LinesOf(wal') \subseteq LinesOf(wal) \cup LinesOf(batch)
    BY <1>2, LinesOfConcat DEF FlushDone, TypeOK
  <2>4. UNCHANGED <<RowsOf(primary), RowsOf(snap.rows), Archived>>
    BY <2>2 DEF RowsOf, Used, Archived
  <2>5. Claims' \subseteq Claims
    BY <2>1, <2>2, <2>3, <2>4, LinesOfEmpty DEF Claims
  <2> QED BY <2>2, <2>5, NothingNew, NextPType DEF Undisturbed
<1> QED BY <1>1, <1>2

LEMMA SyncStep == ASSUME TypeOK, IInv, Sync PROVE IInv'
<1>1. RowsOf(CatchUp(archive)) \subseteq RowsOf(archive) \cup RowsOf(primary)
  <2> SUFFICES ASSUME NEW i \in Used(CatchUp(archive))
               PROVE  [id |-> i, key |-> CatchUp(archive)[i].key] \in RowsOf(archive) \cup RowsOf(primary)
    BY DEF RowsOf
  <2>1. i \in Ids /\ CatchUp(archive)[i] # NoRow
    BY DEF Used
  <2>2. CASE i \in Used(primary) /\ Above(i, archive)
    <3>1. primary[i] \in Rows /\ [id |-> i, key |-> primary[i].key] \in RowsOf(primary)
      BY <2>2, RowClaims DEF TypeOK
    <3>2. CatchUp(archive)[i] = Plain(primary[i])
      BY <2>1, <2>2 DEF CatchUp
    <3> QED BY <3>1, <3>2 DEF Plain, Rows
  <2>3. CASE ~(i \in Used(primary) /\ Above(i, archive))
    <3>1. CatchUp(archive)[i] = archive[i] /\ i \in Used(archive)
      BY <2>1, <2>3 DEF CatchUp, Used
    <3> QED BY <3>1 DEF RowsOf
  <2> QED BY <2>2, <2>3
<1>2. /\ RowsOf(archive') \subseteq RowsOf(archive) \cup RowsOf(primary)
      /\ UNCHANGED <<primary, nextP, todo, walq, inflight, wal, snap, losses, restarts>>
  BY <1>1 DEF Sync, pdb, log, env
<1>3. UNCHANGED <<RowsOf(primary), RowsOf(snap.rows)>>
  BY <1>2 DEF RowsOf, Used
<1>4. Claims' \subseteq Claims
  BY <1>2, <1>3 DEF Claims, Archived
<1> QED BY <1>2, <1>4, NothingNew, NextPType DEF Undisturbed

LEMMA ShrinkStep ==
  ASSUME TypeOK, IInv,
         (\E i \in Ids : Backfill(i)) \/ DedupSsd \/ \E k \in Keys, ok \in BOOLEAN : Prune(k, ok)
  PROVE  IInv'
<1>1. RowsOf(primary') \subseteq RowsOf(primary) /\ RowsOf(archive') \subseteq RowsOf(archive)
  <2>1. ASSUME NEW j \in Ids, Backfill(j)
        PROVE  RowsOf(primary') \subseteq RowsOf(primary) /\ archive' = archive
    <3>1. primary[j] \in Rows /\ j \in Used(primary)
      BY <2>1, RowsAreNotNoRow DEF Backfill, TypeOK
    <3>2. primary'[j] = NoRow \/ primary'[j].key = primary[j].key
      BY <2>1, <3>1 DEF Backfill, TypeOK, Tables, Rows
    <3>3. \A i \in Ids \ {j} : primary'[i] = primary[i]
      BY <2>1 DEF Backfill, TypeOK, Tables
    <3>4. \A i \in Ids : primary'[i] = NoRow \/ (primary'[i].key = primary[i].key /\ primary[i] # NoRow)
      BY <3>1, <3>2, <3>3 DEF Used
    <3>5. RowsOf(primary') \subseteq RowsOf(primary)
      BY <3>4, SubtableClaims
    <3> QED BY <2>1, <3>5 DEF Backfill, adb
  <2>2. CASE DedupSsd
    <3>1. \A i \in Ids : archive'[i] = NoRow \/ archive'[i] = archive[i]
      BY <2>2 DEF DedupSsd
    <3>2. RowsOf(archive') \subseteq RowsOf(archive)
      BY <3>1, SubtableClaims
    <3> QED BY <2>2, <3>2 DEF DedupSsd, pdb
  <2>3. ASSUME NEW k \in Keys, NEW ok \in BOOLEAN, Prune(k, ok)
        PROVE  RowsOf(primary') \subseteq RowsOf(primary) /\ RowsOf(archive') \subseteq RowsOf(archive)
    <3>1. \A db : \A i \in Ids : Without(db, k)[i] = NoRow \/ Without(db, k)[i] = db[i]
      BY DEF Without
    <3>2. RowsOf(Without(primary, k)) \subseteq RowsOf(primary)
      BY <3>1, SubtableClaims
    <3>3. RowsOf(Without(archive, k)) \subseteq RowsOf(archive)
      BY <3>1, SubtableClaims
    <3> QED BY <2>3, <3>2, <3>3 DEF Prune
  <2> QED BY <2>1, <2>2, <2>3
<1>2. UNCHANGED <<nextP, todo, walq, inflight, wal, snap, losses, restarts>>
  BY DEF Backfill, DedupSsd, Prune, pdb, log, env
<1>3. UNCHANGED RowsOf(snap.rows)
  BY <1>2 DEF RowsOf, Used
<1>4. Claims' \subseteq Claims
  BY <1>1, <1>2, <1>3 DEF Claims, Archived
<1> QED BY <1>2, <1>4, NothingNew, NextPType DEF Undisturbed

LEMMA MigrateStep ==
  ASSUME TypeOK, IInv, NEW rows, NEW failed, Migrate(rows, failed) PROVE IInv'
<1>1. \A i \in Ids : primary'[i] = NoRow \/ primary'[i] = primary[i]
  BY DEF Migrate
<1>2. RowsOf(primary') \subseteq RowsOf(primary)
  BY <1>1, SubtableClaims
<1>3. UseRamDisk /\ UNCHANGED <<nextP, todo, walq, inflight, wal, snap, losses, restarts>>
  BY DEF Migrate, log, env
<1>4. UNCHANGED RowsOf(snap.rows)
  BY <1>3 DEF RowsOf, Used
<1>5. Claims' \subseteq Claims
  BY <1>2, <1>3, <1>4 DEF Claims, Archived
<1> QED BY <1>3, <1>5, NothingNew, NextPType DEF Undisturbed

LEMMA ReplayStep == ASSUME TypeOK, IInv, ReplayWal PROVE IInv'
<1> DEFINE At(landed, i) == {p \in landed : wal[p].id = i}
<1>1. PICK landed \in SUBSET DOMAIN wal :
        /\ primary' = [i \in Ids |-> IF At(landed, i) = {} THEN primary[i]
                        ELSE [key |-> wal[CHOOSE p \in At(landed, i) : TRUE].key, hashed |-> TRUE]]
        /\ \E n \in 0..MaxId : IsTop(n, {nextP} \cup {wal[p].id : p \in landed}) /\ nextP' = n
  BY DEF ReplayWal
<1>2. RowsOf(primary') \subseteq RowsOf(primary) \cup LinesOf(wal)
  <2> SUFFICES ASSUME NEW i \in Used(primary')
               PROVE  [id |-> i, key |-> primary'[i].key] \in RowsOf(primary) \cup LinesOf(wal)
    BY DEF RowsOf
  <2>1. i \in Ids /\ primary'[i] # NoRow
    BY DEF Used
  <2>2. CASE At(landed, i) = {}
    <3>1. primary'[i] = primary[i] /\ i \in Used(primary)
      BY <1>1, <2>1, <2>2 DEF Used
    <3> QED BY <3>1 DEF RowsOf
  <2>3. CASE At(landed, i) # {}
    <3>1. PICK q \in At(landed, i) : q = CHOOSE p \in At(landed, i) : TRUE
      BY <2>3
    <3>2. q \in DOMAIN wal /\ wal[q].id = i /\ wal[q] \in LinesOf(wal) /\ wal[q] \in Lines
      <4>1. wal \in Seq(Lines) /\ q \in DOMAIN wal /\ wal[q].id = i
        BY <3>1, <1>1 DEF TypeOK
      <4>2. wal[q] \in Lines
        BY <4>1
      <4> QED BY <4>1, <4>2 DEF LinesOf
    <3>3. primary'[i].key = wal[q].key
      <4> HIDE DEF At
      <4>1. primary'[i] = [key |-> wal[CHOOSE p \in At(landed, i) : TRUE].key, hashed |-> TRUE]
        BY <1>1, <2>1, <2>3
      <4> QED BY <4>1, <3>1
    <3>4. [id |-> i, key |-> primary'[i].key] = wal[q]
      BY <3>2, <3>3 DEF Lines
    <3> QED BY <3>2, <3>4
  <2> QED BY <2>2, <2>3
<1>3. nextP' \in Nat /\ nextP' >= nextP
  BY <1>1, NextPType, ConstantsAssumption DEF IsTop
<1>4. UNCHANGED <<archive, todo, walq, inflight, wal, snap, losses, restarts>>
  BY DEF ReplayWal, adb, log, env
<1>5. UNCHANGED <<RowsOf(snap.rows), Archived>>
  BY <1>4 DEF RowsOf, Used, Archived
<1>6. Claims' \subseteq Claims
  BY <1>2, <1>4, <1>5 DEF Claims
<1> QED BY <1>3, <1>4, <1>6, NothingNew DEF Undisturbed

LEMMA RestartStep == ASSUME TypeOK, IInv, Restart PROVE IInv'
<1>1. primary' = Restored(primary) /\ RowsOf(primary') \subseteq RowsOf(primary) \cup RowsOf(archive)
  BY RestoredClaims DEF Restart, Boot, TypeOK
<1>2. nextP' \in Nat /\ nextP' >= nextP
  BY NextPType, ConstantsAssumption DEF Restart, Boot, IsTop
<1>3. /\ todo' = <<>> /\ walq' = <<>> /\ inflight' = {}
      /\ wal' = wal \/ \E batch \in inflight : wal' = wal \o batch
  BY DEF Restart, MemoryLost
<1>4. LinesOf(wal') \subseteq LinesOf(wal) \cup UNION {LinesOf(batch) : batch \in inflight}
  <2>1. wal \in Seq(Lines) /\ inflight \subseteq Seq(Lines)
    BY DEF TypeOK
  <2>2. CASE wal' = wal
    BY <2>2
  <2>3. ASSUME NEW batch \in inflight, wal' = wal \o batch
        PROVE  LinesOf(wal') \subseteq LinesOf(wal) \cup LinesOf(batch)
    BY <2>1, <2>3, LinesOfConcat
  <2> QED BY <1>3, <2>2, <2>3
<1>5. UNCHANGED <<archive, snap, losses>> /\ restarts' = restarts + 1 /\ restarts \in Nat
  BY ConstantsAssumption DEF Restart, adb, TypeOK
<1>6. CASE UseRamDisk
  BY <1>5, <1>6 DEF IInv, Undisturbed
<1>7. CASE ~UseRamDisk
  <2>1. UNCHANGED <<RowsOf(snap.rows), RowsOf(archive)>>
    BY <1>5 DEF RowsOf, Used
  <2>2. Claims' \subseteq Claims
    BY <1>1, <1>3, <1>4, <1>7, <2>1, LinesOfEmpty DEF Claims, Archived
  <2> QED BY <1>2, <1>5, <1>7, <2>2, NothingNew DEF Undisturbed
<1> QED BY <1>6, <1>7

LEMMA RecoverStep == ASSUME TypeOK, NEW salvaged, Recover(salvaged) PROVE IInv'
  BY ConstantsAssumption DEF Recover, TypeOK, IInv, Undisturbed

LEMMA SnapshotStep == ASSUME TypeOK, IInv, Snapshot PROVE IInv'
<1>1. /\ UNCHANGED <<primary, nextP, archive, todo, walq, inflight, wal, losses, restarts>>
      /\ snap' = [rows |-> primary, next |-> nextP]
  BY DEF Snapshot, pdb, adb, log
<1>2. RowsOf(snap'.rows) = RowsOf(primary) /\ UNCHANGED <<RowsOf(primary), Archived>>
  BY <1>1 DEF RowsOf, Used, Archived
<1>3. Claims' \subseteq Claims
  BY <1>1, <1>2 DEF Claims, RowsOf, Used
<1> QED BY <1>1, <1>3, NothingNew, NextPType DEF Undisturbed

LEMMA IInvStep == TypeOK /\ IInv /\ [Next]_vars => IInv'
<1> SUFFICES ASSUME TypeOK, IInv, [Next]_vars PROVE IInv'
  OBVIOUS
<1>1. CASE UNCHANGED vars
  <2>1. UNCHANGED <<primary, nextP, archive, todo, walq, inflight, wal, snap, losses, restarts>>
    BY <1>1 DEF vars, pdb, adb, log, env
  <2> QED BY <2>1, Same
<1> QED
  BY <1>1, StoreStep, InsertDirectStep, WriteThroughStep, FlushStep, SyncStep, PromoteStep,
     ShrinkStep, MigrateStep, ReplayStep, SnapshotStep, RestartStep, RecoverStep, Zenon DEF Next

LEMMA InitIInv == Init => IInv
  BY LinesOfEmpty
  DEF Init, IInv, OneContentPerId, BelowSequence, Claims, Archived, RowsOf, Used, Empty

\* In the default mode, for every number of contents, ids, restarts and
\* queued lines: as long as the primary file was never lost, an id in use in
\* both databases names the same content in both.
THEOREM Aligned == ~UseRamDisk => (Spec => []AlignedIds)
<1> SUFFICES ASSUME ~UseRamDisk PROVE Spec => []AlignedIds
  OBVIOUS
<1>1. TypeOK /\ IInv /\ [Next]_vars => IInv'
  BY IInvStep
<1>2. TypeOK /\ IInv => AlignedIds
  <2> SUFFICES ASSUME TypeOK, IInv, losses = 0, NEW i \in Used(primary) \cap Used(archive)
               PROVE  primary[i].key = archive[i].key
    BY DEF AlignedIds
  <2> DEFINE l == [id |-> i, key |-> primary[i].key]
             m == [id |-> i, key |-> archive[i].key]
  <2>1. l \in Claims /\ m \in Claims
    BY DEF Claims, Archived, RowsOf
  <2>2. l.id = m.id /\ l.key = primary[i].key /\ m.key = archive[i].key
    OBVIOUS
  <2> HIDE DEF l, m
  <2> QED BY <2>1, <2>2 DEF IInv, Undisturbed, OneContentPerId
<1> QED BY InitIInv, <1>1, <1>2, TypeCorrect, PTL DEF Spec

-----------------------------------------------------------------------------
(***************************************************************************)
(* WalInOrder, in either mode.  What makes it inductive: one flusher is at *)
(* work at most, and what is still on its way to the log - the batch being *)
(* appended, the queue, the callbacks - is in the order of the ids, each   *)
(* after the one before it and none above the sequence.                    *)
(***************************************************************************)

Sorted(s) == \A m, n \in DOMAIN s : m < n => s[m].id < s[n].id
Precede(S, T) == \A l \in S, m \in T : l.id < m.id

InBatches == UNION {LinesOf(batch) : batch \in inflight}

OneFlusher ==
  \/ inflight = {} /\ flushes \in {0, 1}
  \/ flushes = 0 /\ \E batch \in inflight : inflight = {batch}

LogOrder ==
  /\ Sorted(wal) /\ Sorted(walq) /\ Sorted(todo) /\ \A batch \in inflight : Sorted(batch)
  /\ Precede(LinesOf(wal), InBatches \cup LinesOf(walq) \cup LinesOf(todo))
  /\ Precede(InBatches, LinesOf(walq) \cup LinesOf(todo))
  /\ Precede(LinesOf(walq), LinesOf(todo))
  /\ \A l \in LinesOf(wal) \cup InBatches \cup LinesOf(walq) \cup LinesOf(todo) : l.id <= nextP

OrderInv == OneFlusher /\ (losses = 0 => LogOrder)

LEMMA LineIds == \A l \in Lines : l.id \in Nat
  BY DEF Lines, Ids

LEMMA SortedAppend ==
  ASSUME NEW s \in Seq(Lines), NEW e \in Lines, Sorted(s), Precede(LinesOf(s), {e})
  PROVE  Sorted(Append(s, e))
<1>1. DOMAIN s = 1..Len(s) /\ DOMAIN Append(s, e) = 1..(Len(s) + 1) /\ Len(s) \in Nat
  BY AppendProperties
<1>2. /\ \A n \in 1..Len(s) : Append(s, e)[n] = s[n]
      /\ Append(s, e)[Len(s) + 1] = e
  BY AppendProperties
<1>3. \A n \in 1..Len(s) : s[n].id < e.id
  BY <1>1 DEF LinesOf, Precede
<1> SUFFICES ASSUME NEW m \in 1..(Len(s) + 1), NEW n \in 1..(Len(s) + 1), m < n
             PROVE  Append(s, e)[m].id < Append(s, e)[n].id
  BY <1>1 DEF Sorted
<1>4. CASE n = Len(s) + 1
  BY <1>1, <1>2, <1>3, <1>4
<1>5. CASE n # Len(s) + 1
  <2>1. m \in 1..Len(s) /\ n \in 1..Len(s)
    BY <1>1, <1>5
  <2> QED BY <1>1, <1>2, <2>1 DEF Sorted
<1> QED BY <1>4, <1>5

LEMMA SortedTail ==
  ASSUME NEW s \in Seq(Lines), s # <<>>, Sorted(s)
  PROVE  Sorted(Tail(s)) /\ Precede({Head(s)}, LinesOf(Tail(s)))
<1>1. DOMAIN s = 1..Len(s) /\ DOMAIN Tail(s) = 1..(Len(s) - 1) /\ Len(s) \in Nat \ {0}
  BY HeadTailProperties
<1>2. /\ \A n \in 1..(Len(s) - 1) : Tail(s)[n] = s[n + 1]
      /\ Head(s) = s[1]
  BY HeadTailProperties
<1>3. \A n \in 1..(Len(s) - 1) : n + 1 \in DOMAIN s /\ 1 \in DOMAIN s /\ 1 < n + 1
  BY <1>1
<1>4. Sorted(Tail(s))
  <2> SUFFICES ASSUME NEW m \in 1..(Len(s) - 1), NEW n \in 1..(Len(s) - 1), m < n
               PROVE  s[m + 1].id < s[n + 1].id
    BY <1>1, <1>2 DEF Sorted
  <2>1. m + 1 < n + 1
    OBVIOUS
  <2> QED BY <1>3, <2>1 DEF Sorted
<1>5. Precede({Head(s)}, LinesOf(Tail(s)))
  BY <1>1, <1>2, <1>3 DEF Sorted, Precede, LinesOf
<1> QED BY <1>4, <1>5

LEMMA SortedConcat ==
  ASSUME NEW s \in Seq(Lines), NEW t \in Seq(Lines), Sorted(s), Sorted(t),
         Precede(LinesOf(s), LinesOf(t))
  PROVE  Sorted(s \o t)
<1>1. /\ DOMAIN s = 1..Len(s) /\ DOMAIN t = 1..Len(t) /\ DOMAIN (s \o t) = 1..(Len(s) + Len(t))
      /\ Len(s) \in Nat /\ Len(t) \in Nat
  BY ConcatProperties
<1>2. \A n \in 1..(Len(s) + Len(t)) : (s \o t)[n] = IF n <= Len(s) THEN s[n] ELSE t[n - Len(s)]
  BY ConcatProperties
<1> SUFFICES ASSUME NEW m \in 1..(Len(s) + Len(t)), NEW n \in 1..(Len(s) + Len(t)), m < n
             PROVE  (s \o t)[m].id < (s \o t)[n].id
  BY <1>1 DEF Sorted
<1>3. CASE n <= Len(s)
  <2>1. m \in DOMAIN s /\ n \in DOMAIN s /\ (s \o t)[m] = s[m] /\ (s \o t)[n] = s[n]
    BY <1>1, <1>2, <1>3
  <2> QED BY <2>1 DEF Sorted
<1>4. CASE m <= Len(s) /\ n > Len(s)
  <2>1. m \in DOMAIN s /\ n - Len(s) \in DOMAIN t /\ (s \o t)[m] = s[m] /\ (s \o t)[n] = t[n - Len(s)]
    BY <1>1, <1>2, <1>4
  <2> QED BY <2>1 DEF Precede, LinesOf
<1>5. CASE m > Len(s)
  <2>1. /\ m - Len(s) \in DOMAIN t /\ n - Len(s) \in DOMAIN t /\ m - Len(s) < n - Len(s)
        /\ (s \o t)[m] = t[m - Len(s)] /\ (s \o t)[n] = t[n - Len(s)]
    BY <1>1, <1>2, <1>5
  <2> QED BY <2>1 DEF Sorted
<1> QED BY <1>1, <1>3, <1>4, <1>5

LEMMA SortedEmpty == Sorted(<<>>)
  BY DEF Sorted

\* A step that leaves the log and what is on its way alone.
LEMMA LogKept ==
  ASSUME TypeOK, OrderInv, UNCHANGED <<todo, walq, flushes, inflight, wal, losses>>,
         nextP' \in Nat, nextP' >= nextP
  PROVE  OrderInv'
<1>1. OneFlusher'
  BY DEF OrderInv, OneFlusher
<1>2. ASSUME losses = 0 PROVE LogOrder'
  <2>1. \A l \in LinesOf(wal) \cup InBatches \cup LinesOf(walq) \cup LinesOf(todo) : l.id \in Nat
    BY LinesOfType, LineIds DEF TypeOK, InBatches
  <2>2. LogOrder /\ nextP \in Nat
    BY <1>2, NextPType DEF OrderInv
  <2>3. \A l \in LinesOf(wal) \cup InBatches \cup LinesOf(walq) \cup LinesOf(todo) : l.id <= nextP'
    BY <2>1, <2>2 DEF LogOrder
  <2> QED BY <2>2, <2>3 DEF LogOrder, InBatches
<1> QED BY <1>1, <1>2 DEF OrderInv

LEMMA StoreOrder == ASSUME TypeOK, OrderInv, NEW k \in Keys, Store(k) PROVE OrderInv'
<1>1. CASE Duplicate(k)
  BY <1>1, LogKept, NextPType DEF Store, pdb, env
<1>2. CASE ~Duplicate(k)
  <2> DEFINE e == [id |-> nextP + 1, key |-> k]
  <2>1. /\ Insert(k, TRUE) /\ todo' = Append(todo, e)
        /\ UNCHANGED <<walq, flushes, inflight, wal, losses>>
    BY <1>2 DEF Store, env
  <2>2. e \in Lines /\ e.id = nextP + 1 /\ nextP' = nextP + 1 /\ nextP \in Nat
    BY <2>1, NextPType, ConstantsAssumption DEF Insert, Lines, Ids
  <2> HIDE DEF e
  <2>3. LinesOf(todo') = LinesOf(todo) \cup {e} /\ todo \in Seq(Lines)
    BY <2>1, <2>2, LinesOfAppend DEF TypeOK
  <2>4. OneFlusher'
    BY <2>1 DEF OrderInv, OneFlusher
  <2>5. ASSUME losses = 0 PROVE LogOrder'
    <3>1. LogOrder
      BY <2>5 DEF OrderInv
    <3>2. \A l \in LinesOf(wal) \cup InBatches \cup LinesOf(walq) \cup LinesOf(todo) :
             l.id \in Nat /\ l.id < e.id /\ l.id <= nextP'
      <4>1. \A l \in LinesOf(wal) \cup InBatches \cup LinesOf(walq) \cup LinesOf(todo) : l.id \in Nat
        BY LinesOfType, LineIds DEF TypeOK, InBatches
      <4> QED BY <2>2, <3>1, <4>1 DEF LogOrder
    <3>3. Sorted(todo')
      BY <2>1, <2>2, <2>3, <3>1, <3>2, SortedAppend DEF LogOrder, Precede
    <3>4. /\ Precede(LinesOf(wal), InBatches \cup LinesOf(walq) \cup LinesOf(todo'))
          /\ Precede(InBatches, LinesOf(walq) \cup LinesOf(todo'))
          /\ Precede(LinesOf(walq), LinesOf(todo'))
      BY <2>3, <3>1, <3>2 DEF LogOrder, Precede
    <3>5. \A l \in LinesOf(wal) \cup InBatches \cup LinesOf(walq) \cup LinesOf(todo') : l.id <= nextP'
      BY <2>2, <2>3, <3>2
    <3> QED BY <2>1, <3>1, <3>3, <3>4, <3>5 DEF LogOrder, InBatches
  <2> QED BY <2>1, <2>4, <2>5 DEF OrderInv
<1> QED BY <1>1, <1>2

LEMMA WriteThroughOrder ==
  ASSUME TypeOK, OrderInv, NEW ok \in BOOLEAN, WriteThrough(ok) PROVE OrderInv'
<1> DEFINE e == Head(todo)
<1>1. /\ todo \in Seq(Lines) /\ todo # <<>> /\ todo' = Tail(todo) /\ walq \in Seq(Lines)
      /\ UNCHANGED <<nextP, inflight, wal, losses>>
  BY DEF WriteThrough, TypeOK, pdb, env
<1>2. e \in LinesOf(todo) /\ LinesOf(todo') \subseteq LinesOf(todo) /\ e \in Lines
  BY <1>1, LinesOfTail, LinesOfType
<1>3. OneFlusher'
  BY <1>1 DEF OrderInv, OneFlusher, WriteThrough, AppendToWalQueue, Flushing
<1>4. walq' = walq \/ walq' = Append(walq, e)
  BY DEF WriteThrough, AppendToWalQueue
<1>5. ASSUME losses = 0 PROVE LogOrder'
  <2>1. LogOrder
    BY <1>5 DEF OrderInv
  <2>2. Sorted(todo') /\ Precede({e}, LinesOf(todo'))
    BY <1>1, <2>1, SortedTail DEF LogOrder
  <2> HIDE DEF e
  <2>3. Sorted(walq') /\ LinesOf(walq') \subseteq LinesOf(walq) \cup {e}
    <3>1. CASE walq' = walq BY <2>1, <3>1 DEF LogOrder
    <3>2. CASE walq' = Append(walq, e)
      BY <1>1, <1>2, <2>1, <3>2, SortedAppend, LinesOfAppend DEF LogOrder, Precede
    <3> QED BY <1>4, <3>1, <3>2
  <2>4. /\ Precede(LinesOf(wal), InBatches \cup LinesOf(walq') \cup LinesOf(todo'))
        /\ Precede(InBatches, LinesOf(walq') \cup LinesOf(todo'))
        /\ Precede(LinesOf(walq'), LinesOf(todo'))
    BY <1>2, <2>1, <2>2, <2>3 DEF LogOrder, Precede
  <2>5. \A l \in LinesOf(wal) \cup InBatches \cup LinesOf(walq') \cup LinesOf(todo') : l.id <= nextP
    BY <1>2, <2>1, <2>3 DEF LogOrder
  <2> QED BY <1>1, <2>1, <2>2, <2>3, <2>4, <2>5 DEF LogOrder, InBatches
<1> QED BY <1>1, <1>3, <1>5 DEF OrderInv

\* The flusher takes the queue: there is no other batch.
LEMMA FlushStartOrder == ASSUME TypeOK, OrderInv, FlushStart PROVE OrderInv'
<1>1. /\ inflight = {} /\ flushes = 1 /\ flushes' = 0 /\ walq' = <<>>
      /\ inflight' \in {{}, {walq}}
      /\ UNCHANGED <<nextP, todo, wal, losses>>
  BY DEF FlushStart, OrderInv, OneFlusher, pdb, env
<1>2. OneFlusher'
  BY <1>1 DEF OneFlusher
<1>3. InBatches' \subseteq LinesOf(walq) /\ InBatches = {} /\ LinesOf(walq') = {} /\ Sorted(walq')
  BY <1>1, LinesOfEmpty, SortedEmpty DEF InBatches
<1>4. ASSUME losses = 0 PROVE LogOrder'
  BY <1>1, <1>3, <1>4 DEF OrderInv, LogOrder, Precede
<1> QED BY <1>1, <1>2, <1>4 DEF OrderInv

\* A batch that was being appended is in the log, or is forgotten.
LEMMA Appended ==
  ASSUME TypeOK, OneFlusher, LogOrder, wal' = wal \/ \E batch \in inflight : wal' = wal \o batch
  PROVE  Sorted(wal') /\ LinesOf(wal') \subseteq LinesOf(wal) \cup InBatches
<1>1. wal \in Seq(Lines) /\ inflight \subseteq Seq(Lines)
  BY DEF TypeOK
<1>2. CASE wal' = wal
  BY <1>2 DEF LogOrder
<1>3. ASSUME NEW batch \in inflight, wal' = wal \o batch
      PROVE  Sorted(wal') /\ LinesOf(wal') \subseteq LinesOf(wal) \cup InBatches
  <2>1. batch \in Seq(Lines) /\ Sorted(batch) /\ LinesOf(batch) \subseteq InBatches
    BY <1>1, <1>3 DEF LogOrder, InBatches
  <2>2. Precede(LinesOf(wal), LinesOf(batch))
    BY <2>1 DEF LogOrder, Precede
  <2> QED BY <1>1, <1>3, <2>1, <2>2, SortedConcat, LinesOfConcat DEF LogOrder
<1> QED BY <1>2, <1>3

LEMMA FlushDoneOrder ==
  ASSUME TypeOK, OrderInv, NEW batch \in inflight, NEW ok \in BOOLEAN, FlushDone(batch, ok)
  PROVE  OrderInv'
<1>1. /\ inflight = {batch} /\ flushes' = 0 /\ walq' = <<>>
      /\ inflight' \in {{}, {walq}}
      /\ wal' = wal \/ wal' = wal \o batch
      /\ UNCHANGED <<nextP, todo, losses>>
  BY DEF FlushDone, OrderInv, OneFlusher, pdb, env
<1>2. OneFlusher'
  BY <1>1 DEF OneFlusher
<1>3. InBatches' \subseteq LinesOf(walq) /\ LinesOf(walq') = {} /\ Sorted(walq')
  BY <1>1, LinesOfEmpty, SortedEmpty DEF InBatches
<1>4. ASSUME losses = 0 PROVE LogOrder'
  <2>1. LogOrder
    BY <1>4 DEF OrderInv
  <2>2. Sorted(wal') /\ LinesOf(wal') \subseteq LinesOf(wal) \cup InBatches
    BY <1>1, <2>1, Appended DEF OrderInv
  <2> QED BY <1>1, <1>3, <2>1, <2>2 DEF LogOrder, Precede
<1> QED BY <1>1, <1>2, <1>4 DEF OrderInv

LEMMA RestartOrder == ASSUME TypeOK, OrderInv, Restart PROVE OrderInv'
<1>1. nextP' \in Nat /\ nextP' >= nextP /\ nextP \in Nat
  BY NextPType, ConstantsAssumption DEF Restart, Boot, IsTop
<1>2. /\ todo' = <<>> /\ walq' = <<>> /\ flushes' = 0 /\ inflight' = {} /\ losses' = losses
      /\ wal' = wal \/ \E batch \in inflight : wal' = wal \o batch
  BY DEF Restart, MemoryLost
<1>3. OneFlusher'
  BY <1>2 DEF OneFlusher
<1>4. /\ InBatches' = {} /\ LinesOf(walq') = {} /\ LinesOf(todo') = {}
      /\ Sorted(walq') /\ Sorted(todo')
  BY <1>2, LinesOfEmpty, SortedEmpty DEF InBatches
<1>5. ASSUME losses = 0 PROVE LogOrder'
  <2>1. LogOrder
    BY <1>5 DEF OrderInv
  <2>2. Sorted(wal') /\ LinesOf(wal') \subseteq LinesOf(wal) \cup InBatches
    BY <1>2, <2>1, Appended DEF OrderInv
  <2>3. \A l \in LinesOf(wal) \cup InBatches : l.id \in Nat /\ l.id <= nextP
    BY <2>1, LinesOfType, LineIds DEF LogOrder, TypeOK, InBatches
  <2>4. \A l \in LinesOf(wal') : l.id <= nextP'
    BY <1>1, <2>2, <2>3
  <2> QED BY <1>2, <1>4, <2>2, <2>4 DEF LogOrder, Precede
<1> QED BY <1>2, <1>3, <1>5 DEF OrderInv

LEMMA RecoverOrder == ASSUME TypeOK, NEW salvaged, Recover(salvaged) PROVE OrderInv'
<1>1. losses' # 0
  BY ConstantsAssumption DEF Recover, TypeOK
<1>2. inflight' = {} /\ flushes' = 0
  BY DEF Recover, MemoryLost
<1> QED BY <1>1, <1>2 DEF OrderInv, OneFlusher

LEMMA OrderStep == TypeOK /\ OrderInv /\ [Next]_vars => OrderInv'
<1> SUFFICES ASSUME TypeOK, OrderInv, [Next]_vars PROVE OrderInv'
  OBVIOUS
<1>1. ASSUME NEW k \in Keys, InsertDirect(k) PROVE OrderInv'
  BY <1>1, LogKept, NextPType DEF InsertDirect, Insert, log, env
<1>2. ASSUME NEW i \in Ids, Promote(i) PROVE OrderInv'
  BY <1>2, LogKept, NextPType DEF Promote, Insert, log, env
<1>3. CASE ReplayWal
  <2>1. nextP' \in Nat /\ nextP' >= nextP
    BY <1>3, NextPType, ConstantsAssumption DEF ReplayWal, IsTop
  <2> QED BY <1>3, <2>1, LogKept DEF ReplayWal, log, env
<1>4. CASE \/ Sync \/ DedupSsd \/ Snapshot \/ UNCHANGED vars
           \/ \E i \in Ids : Backfill(i)
           \/ \E k \in Keys, ok \in BOOLEAN : Prune(k, ok)
           \/ \E rows \in StaleLists : \E failed \in SUBSET DOMAIN rows : Migrate(rows, failed)
  <2>1. UNCHANGED <<nextP, todo, walq, flushes, inflight, wal, losses>>
    BY <1>4 DEF Sync, DedupSsd, Snapshot, Backfill, Prune, Migrate, vars, pdb, log, env
  <2> QED BY <2>1, LogKept, NextPType
<1> QED
  BY <1>1, <1>2, <1>3, <1>4, StoreOrder, WriteThroughOrder, FlushStartOrder, FlushDoneOrder,
     RestartOrder, RecoverOrder, Zenon DEF Next

LEMMA InitOrder == Init => OrderInv
  BY LinesOfEmpty, SortedEmpty
     DEF Init, OrderInv, OneFlusher, LogOrder, InBatches, Precede

\* The log lists the stores in the order of their ids, for every interleaving of
\* callbacks, appends that fail and restarts, and every limit of the queue, as
\* long as the primary file was never lost.
THEOREM WalOrder == Spec => []WalInOrder
<1>1. OrderInv => WalInOrder
  BY DEF OrderInv, LogOrder, Sorted, WalInOrder
<1> QED BY <1>1, InitOrder, OrderStep, TypeCorrect, PTL DEF Spec

-----------------------------------------------------------------------------
(* AckedKept, in the default mode.                                         *)

Kept == losses = 0 => (acked \ pruned) \subseteq KeysOf(primary)

LEMMA NoKeyLost ==
  ASSUME Kept, losses' = losses, KeysOf(primary) \subseteq KeysOf(primary'), UNCHANGED hist
  PROVE  Kept'
  BY DEF Kept, hist

LEMMA RowsKept ==
  ASSUME NEW db, NEW new, \A i \in Used(db) : new[i] = db[i]
  PROVE  KeysOf(db) \subseteq KeysOf(new)
  BY DEF KeysOf, Used

LEMMA InsertKeeps ==
  ASSUME TypeOK, NEW k \in Keys, NEW hashed \in BOOLEAN, Insert(k, hashed),
         nextP + 1 \notin Used(primary)
  PROVE  KeysOf(primary) \cup {k} \subseteq KeysOf(primary')
<1>1. /\ primary' = [primary EXCEPT ![nextP + 1] = [key |-> k, hashed |-> hashed]]
      /\ nextP + 1 \in Ids /\ primary \in [Ids -> Rows \cup {NoRow}]
  BY NextPType, ConstantsAssumption DEF Insert, Ids, TypeOK, Tables
<1>2. \A i \in Used(primary) : primary'[i] = primary[i]
  BY <1>1 DEF Used
<1>3. [key |-> k, hashed |-> hashed] \in Rows
  BY DEF Rows
<1>4. primary'[nextP + 1] = [key |-> k, hashed |-> hashed] /\ nextP + 1 \in Used(primary')
  BY <1>1, <1>3, NoRowAssumption DEF Used
<1>5. k \in KeysOf(primary')
  BY <1>4 DEF KeysOf
<1> QED BY <1>2, <1>5, RowsKept

\* No id above the sequence is used, so an INSERT overwrites no row.
LEMMA NextIsFree == ASSUME TypeOK, IInv, Undisturbed PROVE nextP + 1 \notin Used(primary)
<1> SUFFICES ASSUME nextP + 1 \in Used(primary) PROVE FALSE
  OBVIOUS
<1> DEFINE l == [id |-> nextP + 1, key |-> primary[nextP + 1].key]
<1>1. l \in Claims /\ l.id = nextP + 1
  BY DEF Claims, RowsOf
<1> HIDE DEF l
<1>2. l.id <= nextP
  BY <1>1 DEF IInv, BelowSequence
<1> QED BY <1>1, <1>2, NextPType

LEMMA AckKept ==
  ASSUME TypeOK, Kept, losses' = losses, NEW k \in Keys, Ack(k),
         losses = 0 => KeysOf(primary) \cup {k} \subseteq KeysOf(primary')
  PROVE  Kept'
  BY DEF Kept, Ack

LEMMA StoreKept == ASSUME ~UseRamDisk, TypeOK, IInv, Kept, NEW k \in Keys, Store(k) PROVE Kept'
<1>1. CASE Duplicate(k)
  <2>1. PICK i \in Used(primary) : primary[i] = [key |-> k, hashed |-> TRUE]
    BY <1>1 DEF Duplicate, HasHash
  <2>2. k \in KeysOf(primary)
    BY <2>1 DEF KeysOf
  <2>3. primary' = primary
    BY <1>1 DEF Store, pdb
  <2> QED BY <2>2, <2>3, AckKept DEF Store, env
<1>2. CASE ~Duplicate(k)
  <2>1. Insert(k, TRUE)
    BY <1>2 DEF Store
  <2> QED BY <2>1, NextIsFree, InsertKeeps, AckKept DEF Store, env, Undisturbed
<1> QED BY <1>1, <1>2

LEMMA BackfillKept == ASSUME TypeOK, Kept, NEW i \in Ids, Backfill(i) PROVE Kept'
<1>1. /\ i \in Used(primary) /\ ~primary[i].hashed /\ primary[i] \in Rows
      /\ primary \in [Ids -> Rows \cup {NoRow}] /\ UNCHANGED hist /\ losses' = losses
  BY RowsAreNotNoRow DEF Backfill, TypeOK, Tables, env
<1>2. \A j \in Used(primary) \ {i} : primary'[j] = primary[j] /\ j \in Used(primary')
  BY <1>1 DEF Backfill, Used
<1>3. primary[i].key \in KeysOf(primary')
  <2>1. CASE HasHash(primary, primary[i].key)
    <3>1. PICK j \in Used(primary) : primary[j] = [key |-> primary[i].key, hashed |-> TRUE]
      BY <2>1 DEF HasHash
    <3>2. j # i
      BY <1>1, <3>1
    <3> QED BY <1>2, <3>1, <3>2 DEF KeysOf
  <2>2. CASE ~HasHash(primary, primary[i].key)
    <3>1. primary'[i] = [primary[i] EXCEPT !.hashed = TRUE]
      BY <1>1, <2>2 DEF Backfill
    <3>2. primary'[i] \in Rows /\ primary'[i].key = primary[i].key
      BY <1>1, <3>1 DEF Rows
    <3> QED BY <1>1, <3>2, NoRowAssumption DEF KeysOf, Used
  <2> QED BY <2>1, <2>2
<1>4. KeysOf(primary) \subseteq KeysOf(primary')
  BY <1>2, <1>3 DEF KeysOf
<1> QED BY <1>1, <1>4, NoKeyLost

LEMMA PruneKept ==
  ASSUME TypeOK, Kept, NEW k \in Keys, NEW ok \in BOOLEAN, Prune(k, ok) PROVE Kept'
<1>1. /\ primary' = Without(primary, k) /\ pruned' = pruned \cup {k}
      /\ UNCHANGED <<acked, losses>>
  BY DEF Prune, env
<1>2. \A i \in Used(primary) : primary[i].key # k => Without(primary, k)[i] = primary[i]
  BY DEF Without, Used
<1>3. KeysOf(primary) \ {k} \subseteq KeysOf(primary')
  BY <1>1, <1>2 DEF KeysOf, Used
<1> QED BY <1>1, <1>3 DEF Kept

LEMMA RestartKept == ASSUME TypeOK, Kept, Restart PROVE Kept'
<1>1. primary' = Restored(primary) /\ losses' = losses /\ UNCHANGED hist
  BY DEF Restart, Boot
<1>2. \A i \in Used(primary) : ~Above(i, primary)
  BY DEF Above, Used, Ids
<1>3. \A i \in Used(primary) : Restored(primary)[i] = primary[i]
  BY <1>2 DEF Restored, Used
<1> QED BY <1>1, <1>3, RowsKept, NoKeyLost

LEMMA ReplayKept == ASSUME TypeOK, Kept, ReplayWal PROVE Kept'
<1> DEFINE At(landed, i) == {p \in landed : wal[p].id = i}
<1>1. PICK landed \in SUBSET DOMAIN wal :
        /\ \A p \in landed : wal[p].id \notin Used(primary)
        /\ primary' = [i \in Ids |-> IF At(landed, i) = {} THEN primary[i]
                        ELSE [key |-> wal[CHOOSE p \in At(landed, i) : TRUE].key, hashed |-> TRUE]]
  <2>1. PICK landed \in SUBSET DOMAIN wal :
          /\ \A p \in DOMAIN wal : p \in landed <=>
               /\ wal[p].id \notin Used(primary)
               /\ ~HasHash(primary, wal[p].key)
               /\ ~\E m \in landed : m < p /\ (wal[m].id = wal[p].id \/ wal[m].key = wal[p].key)
          /\ primary' = [i \in Ids |-> IF At(landed, i) = {} THEN primary[i]
                          ELSE [key |-> wal[CHOOSE p \in At(landed, i) : TRUE].key, hashed |-> TRUE]]
    BY DEF ReplayWal
  <2> QED BY <2>1
<1>2. \A i \in Used(primary) : i \in Ids /\ At(landed, i) = {}
  BY <1>1 DEF Used
<1> HIDE DEF At
<1>3. \A i \in Used(primary) : primary'[i] = primary[i]
  BY <1>1, <1>2
<1>4. losses' = losses /\ UNCHANGED hist
  BY DEF ReplayWal, env
<1> QED BY <1>3, <1>4, RowsKept, NoKeyLost

LEMMA KeptStep == ~UseRamDisk /\ TypeOK /\ IInv /\ Kept /\ [Next]_vars => Kept'
<1> SUFFICES ASSUME ~UseRamDisk, TypeOK, IInv, Kept, [Next]_vars PROVE Kept'
  OBVIOUS
<1>1. ASSUME NEW k \in Keys, InsertDirect(k) PROVE Kept'
  BY <1>1, NextIsFree, InsertKeeps, AckKept DEF InsertDirect, env, Undisturbed
<1>2. ASSUME NEW i \in Ids, Promote(i) PROVE Kept'
  <2>1. archive[i].key \in Keys
    BY <1>2, RowsAreNotNoRow DEF Promote, TypeOK, Rows
  <2>2. losses = 0 => KeysOf(primary) \subseteq KeysOf(primary')
    BY <1>2, <2>1, NextIsFree, InsertKeeps DEF Promote, Undisturbed
  <2> QED BY <1>2, <2>2 DEF Promote, Kept, hist, env
<1>3. ASSUME NEW rows, NEW failed, Migrate(rows, failed) PROVE FALSE
  BY <1>3 DEF Migrate
<1>4. ASSUME NEW salvaged, Recover(salvaged) PROVE Kept'
  BY <1>4, ConstantsAssumption DEF Recover, TypeOK, Kept
<1>5. CASE \/ Sync \/ DedupSsd \/ Snapshot \/ FlushStart \/ UNCHANGED vars
           \/ \E ok \in BOOLEAN : WriteThrough(ok)
           \/ \E batch \in inflight, ok \in BOOLEAN : FlushDone(batch, ok)
  <2>1. UNCHANGED <<primary, acked, pruned, losses>>
    BY <1>5 DEF Sync, DedupSsd, Snapshot, FlushStart, WriteThrough, FlushDone, vars, pdb, hist, env
  <2> QED BY <2>1 DEF Kept, KeysOf, Used
<1> QED
  BY <1>1, <1>2, <1>3, <1>4, <1>5, StoreKept, BackfillKept, PruneKept, RestartKept, ReplayKept,
     Zenon DEF Next

\* In the default mode, for every number of contents, ids and restarts: what a
\* client was told is stored and nobody pruned is in the primary, as long as the
\* primary file was never lost.
THEOREM AckedAlways == ~UseRamDisk => (Spec => []AckedKept)
<1> SUFFICES ASSUME ~UseRamDisk PROVE Spec => []AckedKept
  OBVIOUS
<1>1. TypeOK /\ IInv /\ [Next]_vars => IInv'
  BY IInvStep
<1>2. TypeOK /\ IInv /\ Kept /\ [Next]_vars => Kept'
  BY KeptStep
<1>3. Kept => AckedKept
  BY DEF Kept, AckedKept, Recallable
<1>4. Init => Kept
  BY DEF Init, Kept
<1> QED BY InitIInv, TypeCorrect, <1>1, <1>2, <1>3, <1>4, PTL DEF Spec

-----------------------------------------------------------------------------
(* RecoveryIsSuperset, in either mode.                                     *)

LEMMA RestoredKeeps == ASSUME NEW db \in Tables PROVE KeysOf(db) \subseteq KeysOf(Restored(db))
<1>1. \A i \in Used(db) : ~Above(i, db)
  BY DEF Above, Used, Ids
<1>2. \A i \in Used(db) : Restored(db)[i] = db[i]
  BY <1>1 DEF Restored, Used
<1> QED BY <1>2, RowsKept

\* The merge ignores a salvaged row where the snapshot has its id or its hash:
\* the row there is of the same content.
LEMMA MergedHasBoth ==
  ASSUME TypeOK, IInv, Undisturbed, NEW salvaged \in SUBSET Used(primary)
  PROVE  KeysOf(snap.rows) \cup {primary[i].key : i \in salvaged}
           \subseteq KeysOf(Merged(snap.rows, salvaged))
<1> DEFINE base == snap.rows
           db == Merged(base, salvaged)
<1>1. \A i \in Used(base) : db[i] = base[i]
  BY DEF Merged, Used
<1>2. KeysOf(base) \subseteq KeysOf(db)
  BY <1>1, RowsKept
<1>3. ASSUME NEW i \in salvaged PROVE primary[i].key \in KeysOf(db)
  <2>1. i \in Ids /\ primary[i] # NoRow /\ i \in Used(primary)
    BY <1>3 DEF Used
  <2>2. CASE base[i] # NoRow
    <3> DEFINE l == [id |-> i, key |-> base[i].key]
               m == [id |-> i, key |-> primary[i].key]
    <3>1. l \in Claims /\ m \in Claims
      BY <2>1, <2>2 DEF Claims, RowsOf, Used
    <3>2. l.id = m.id /\ l.key = base[i].key /\ m.key = primary[i].key
      OBVIOUS
    <3> HIDE DEF l, m
    <3>3. base[i].key = primary[i].key
      BY <3>1, <3>2 DEF IInv, OneContentPerId
    <3>4. base[i].key \in KeysOf(base)
      BY <2>1, <2>2 DEF KeysOf, Used
    <3> QED BY <1>2, <3>3, <3>4
  <2>3. CASE base[i] = NoRow /\ primary[i].hashed /\ HasHash(base, primary[i].key)
    <3>1. PICK j \in Used(base) : base[j] = [key |-> primary[i].key, hashed |-> TRUE]
      BY <2>3 DEF HasHash
    <3>2. primary[i].key \in KeysOf(base)
      BY <3>1 DEF KeysOf
    <3> QED BY <1>2, <3>2
  <2>4. CASE base[i] = NoRow /\ ~(primary[i].hashed /\ HasHash(base, primary[i].key))
    <3>1. db[i] = primary[i]
      BY <1>3, <2>1, <2>4 DEF Merged
    <3> QED BY <2>1, <3>1 DEF KeysOf, Used
  <2> QED BY <2>2, <2>3, <2>4
<1> QED BY <1>2, <1>3

\* checkAndRecoverDb, for every number of contents, ids and restarts: whatever
\* can be salvaged, nothing of it and nothing of the snapshot is missing after
\* the merge and the restore that follows it.
THEOREM RecoveryAlways == Spec => RecoveryIsSuperset
<1>1. TypeOK /\ IInv /\ [Next]_vars =>
        [\A salvaged \in SUBSET Used(primary) :
           (losses = 0 /\ (UseRamDisk => restarts = 0) /\ Recover(salvaged)) =>
             KeysOf(snap.rows) \cup {primary[i].key : i \in salvaged} \subseteq KeysOf(primary')]_vars
  <2> SUFFICES ASSUME TypeOK, IInv, Undisturbed, NEW salvaged \in SUBSET Used(primary),
                      Recover(salvaged)
               PROVE  KeysOf(snap.rows) \cup {primary[i].key : i \in salvaged}
                        \subseteq KeysOf(primary')
    BY DEF Undisturbed
  <2>1. snap.rows \in Tables
    BY DEF TypeOK
  <2>2. Merged(snap.rows, salvaged) \in Tables
    BY <2>1, MergedType
  <2>3. primary' = Restored(Merged(snap.rows, salvaged))
    BY DEF Recover, Boot
  <2> QED BY <2>2, <2>3, MergedHasBoth, RestoredKeeps
<1>2. TypeOK /\ IInv /\ [Next]_vars => IInv'
  BY IInvStep
<1> QED BY InitIInv, TypeCorrect, <1>1, <1>2, PTL DEF Spec, RecoveryIsSuperset

-----------------------------------------------------------------------------
(* OnlyFailedLost, in either mode: the rows of the archive are below its   *)
(* sequence, so the ids it gives to the rows that are moved are free.      *)

BelowArchiveSequence == \A i \in Used(archive) : i <= lastA

\* A slot is one of those counted in.
LEMMA SlotBelow ==
  ASSUME NEW copied, IsFiniteSet(copied), NEW p, lastA \in Nat
  PROVE  Slot(p, copied) \in Nat /\ Slot(p, copied) <= lastA + Cardinality(copied)
<1>1. /\ IsFiniteSet({q \in copied : q <= p})
      /\ Cardinality({q \in copied : q <= p}) <= Cardinality(copied)
  BY FS_Subset
<1> QED BY <1>1, FS_CardinalityType DEF Slot

LEMMA ArchiveStep == TypeOK /\ BelowArchiveSequence /\ [Next]_vars => BelowArchiveSequence'
<1> SUFFICES ASSUME TypeOK, BelowArchiveSequence, [Next]_vars PROVE BelowArchiveSequence'
  OBVIOUS
<1>0. lastA \in Nat /\ archive \in [Ids -> Rows \cup {NoRow}]
  BY ConstantsAssumption DEF TypeOK, Tables
<1>1. ASSUME NEW ok \in BOOLEAN, WriteThrough(ok) PROVE BelowArchiveSequence'
  <2>1. todo \in Seq(Lines) /\ todo # <<>>
    BY <1>1 DEF WriteThrough, TypeOK
  <2>2. Head(todo) \in Lines
    BY <2>1, HeadTailProperties
  <2> DEFINE line == Head(todo)
  <2>4. line.id \in Nat
    BY <2>2, ConstantsAssumption DEF Lines, Ids
  <2>3. \/ /\ archive' = [archive EXCEPT ![Head(todo).id] = [key |-> Head(todo).key, hashed |-> TRUE]]
           /\ lastA' = Larger(lastA, Head(todo).id)
        \/ UNCHANGED <<archive, lastA>>
    BY <1>1, Zenon DEF WriteThrough, adb
  <2>5. CASE UNCHANGED <<archive, lastA>>
    BY <2>5 DEF BelowArchiveSequence, Used
  <2>6. ASSUME archive' = [archive EXCEPT ![line.id] = [key |-> line.key, hashed |-> TRUE]],
               lastA' = Larger(lastA, line.id)
        PROVE  BelowArchiveSequence'
    <3>1. lastA' \in Nat /\ lastA <= lastA' /\ line.id <= lastA'
      BY <1>0, <2>4, <2>6 DEF Larger
    <3>2. \A i \in Used(archive') : i = line.id \/ i \in Used(archive)
      BY <1>0, <2>6 DEF Used
    <3> HIDE DEF line
    <3> QED BY <1>0, <3>1, <3>2 DEF BelowArchiveSequence, Used, Ids
  <2> QED BY <2>3, <2>5, <2>6
<1>2. CASE Sync
  <2>1. PICK n \in Used(primary) : IsTop(n, Used(primary)) /\ lastA' = Larger(lastA, n)
    BY <1>2 DEF Sync
  <2>2. lastA' \in Nat /\ lastA <= lastA' /\ \A i \in Used(primary) : i <= lastA'
    BY <1>0, <2>1 DEF IsTop, Larger, Used, Ids
  <2>3. \A i \in Used(archive') : i \in Used(primary) \/ i \in Used(archive)
    BY <1>2 DEF Sync, CatchUp, Used
  <2> QED BY <1>0, <2>2, <2>3 DEF BelowArchiveSequence, Used, Ids
<1>3. ASSUME NEW k \in Keys, NEW ok \in BOOLEAN, Prune(k, ok) PROVE BelowArchiveSequence'
  BY <1>3 DEF Prune, Without, BelowArchiveSequence, Used
<1>4. CASE DedupSsd
  BY <1>4 DEF DedupSsd, BelowArchiveSequence, Used
<1>5. ASSUME NEW rows \in StaleLists, NEW failed \in SUBSET DOMAIN rows, Migrate(rows, failed)
      PROVE  BelowArchiveSequence'
  <2> DEFINE copied == (1..Len(rows)) \ failed
  <2>1. IsFiniteSet(copied)
    <3>1. Len(rows) \in Nat
      BY <1>5, ConstantsAssumption DEF StaleLists
    <3>2. IsFiniteSet(1..Len(rows))
      BY <3>1, FS_Interval
    <3> QED BY <3>2, FS_Subset
  <2>2. Cardinality(copied) \in Nat /\ lastA' = lastA + Cardinality(copied)
    BY <1>5, <2>1, FS_CardinalityType DEF Migrate
  <2>3. \A p \in copied : Slot(p, copied) <= lastA'
    BY <1>0, <2>1, <2>2, SlotBelow
  <2>4. \A i \in Used(archive') : i \in Used(archive) \/ \E p \in copied : Slot(p, copied) = i
    BY <1>5 DEF Migrate, Used
  <2> HIDE DEF copied
  <2> QED BY <1>0, <2>2, <2>3, <2>4 DEF BelowArchiveSequence, Used, Ids
<1>6. CASE UNCHANGED adb
  BY <1>6 DEF adb, BelowArchiveSequence, Used
<1>7. CASE UNCHANGED vars
  BY <1>6, <1>7 DEF vars
<1> QED
  BY <1>1, <1>2, <1>3, <1>4, <1>5, <1>6, <1>7, Zenon
  DEF Next, Store, InsertDirect, FlushStart, FlushDone, Backfill, Promote, ReplayWal, Snapshot,
      Restart, Recover

\* Later places get higher slots, all above the sequence.
LEMMA SlotsApart ==
  ASSUME NEW n \in Nat, NEW copied \in SUBSET (1..n), lastA \in Nat, NEW p \in copied
  PROVE  /\ Slot(p, copied) \in Nat /\ lastA < Slot(p, copied)
         /\ \A q \in copied : p < q => Slot(p, copied) < Slot(q, copied)
<1> DEFINE upTo(q) == {x \in copied : x <= q}
<1>1. ASSUME NEW q \in copied
      PROVE  IsFiniteSet(upTo(q)) /\ Cardinality(upTo(q)) \in Nat
  <2>1. IsFiniteSet(1..n)
    BY FS_Interval
  <2>2. upTo(q) \in SUBSET (1..n)
    OBVIOUS
  <2> QED BY <2>1, <2>2, FS_Subset, FS_CardinalityType
<1>2. Cardinality(upTo(p)) # 0
  <2>1. p \in upTo(p)
    OBVIOUS
  <2> QED BY <1>1, <2>1, FS_EmptySet
<1>3. ASSUME NEW q \in copied, p < q
      PROVE  Cardinality(upTo(p)) < Cardinality(upTo(q))
  <2>1. q \notin upTo(p) /\ upTo(p) \cup {q} \in SUBSET upTo(q)
    <3>1. p \in Nat /\ q \in Nat /\ ~(q <= p)
      BY <1>3
    <3>2. ASSUME NEW x \in copied, x <= p PROVE x <= q
      <4>1. x \in Nat
        OBVIOUS
      <4> QED BY <1>3, <3>1, <3>2, <4>1
    <3>3. q \notin upTo(p)
      BY <3>1
    <3>4. upTo(p) \subseteq upTo(q)
      BY <3>2, Zenon
    <3>5. q \in upTo(q)
      BY <3>1
    <3> QED BY <3>3, <3>4, <3>5, Zenon
  <2>2. Cardinality(upTo(p) \cup {q}) = Cardinality(upTo(p)) + 1
    BY <1>1, <2>1, FS_AddElement
  <2>3. Cardinality(upTo(p) \cup {q}) <= Cardinality(upTo(q))
    BY <1>1, <2>1, FS_Subset
  <2> QED BY <1>1, <2>2, <2>3
<1>4. \A q \in copied : Slot(q, copied) = lastA + Cardinality(upTo(q))
  BY DEF Slot
<1> HIDE DEF upTo
<1> QED BY <1>1, <1>2, <1>3, <1>4

\* migrateRamToSsd, for every number of contents and rows and whichever INSERTs
\* fail: every other row is under an id of the archive that no row had.
THEOREM MigrationAlways == Spec => OnlyFailedLost
<1>1. Init => BelowArchiveSequence
  BY DEF Init, BelowArchiveSequence, Used, Empty
<1>2. ASSUME TypeOK, BelowArchiveSequence, NEW rows \in StaleLists,
             NEW failed \in SUBSET DOMAIN rows, Migrate(rows, failed)
      PROVE  Contents \subseteq Contents' \cup {primary[rows[p]].key : p \in failed}
  <2>1. PICK n \in Nat : rows \in [1..n -> Used(primary)] /\ Len(rows) = n
    BY <1>2, ConstantsAssumption DEF StaleLists
  <2> DEFINE copied == (1..n) \ failed
             gone == {rows[p] : p \in 1..(n - Cardinality(failed))}
  <2>2. lastA \in Nat /\ copied \in SUBSET (1..n) /\ failed \in SUBSET (1..n)
    BY <1>2, <2>1, ConstantsAssumption DEF TypeOK
  <2>3. /\ archive' = [i \in Ids |->
             IF \E p \in copied : Slot(p, copied) = i
             THEN primary[rows[CHOOSE p \in copied : Slot(p, copied) = i]] ELSE archive[i]]
        /\ primary' = [i \in Ids |-> IF i \in gone THEN NoRow ELSE primary[i]]
        /\ lastA + Cardinality(copied) <= MaxId
    BY <1>2, <2>1 DEF Migrate
  <2>4. IsFiniteSet(copied) /\ Cardinality(copied) \in Nat
        /\ IsFiniteSet(failed) /\ Cardinality(failed) \in Nat
    <3>1. IsFiniteSet(1..n)
      BY <2>1, FS_Interval
    <3>2. IsFiniteSet(copied) /\ IsFiniteSet(failed)
      <4> HIDE DEF copied
      <4> QED BY <2>2, <3>1, FS_Subset
    <3> QED BY <3>2, FS_CardinalityType
  <2>5. \A p \in copied : /\ Slot(p, copied) \in Ids /\ lastA < Slot(p, copied)
                          /\ \A q \in copied : Slot(q, copied) = Slot(p, copied) => q = p
    <3>1. \A p \in copied : /\ Slot(p, copied) \in Nat /\ lastA < Slot(p, copied)
                            /\ \A q \in copied : p < q => Slot(p, copied) < Slot(q, copied)
      BY <2>1, <2>2, SlotsApart
    <3>2. \A p \in copied : Slot(p, copied) <= lastA + Cardinality(copied)
      BY <2>2, <2>4, SlotBelow
    <3>3. \A p \in copied : p \in Nat
      BY <2>1, <2>2
    <3> HIDE DEF copied
    <3> QED BY <2>2, <2>3, <2>4, <3>1, <3>2, <3>3, ConstantsAssumption DEF Ids
  <2>6. ASSUME NEW i \in Used(archive) PROVE archive[i].key \in Contents'
    <3>1. i \in Ids /\ archive[i] # NoRow /\ i <= lastA
      BY <1>2, <2>6 DEF Used, BelowArchiveSequence
    <3>2. ~\E p \in copied : Slot(p, copied) = i
      BY <2>2, <2>5, <3>1 DEF Ids
    <3>3. archive'[i] = archive[i]
      BY <2>3, <3>1, <3>2
    <3> QED BY <3>1, <3>3 DEF Contents, KeysOf, Used
  <2>7. ASSUME NEW p \in copied PROVE primary[rows[p]].key \in Contents'
    <3> DEFINE slot == Slot(p, copied)
    <3>1. rows[p] \in Used(primary) /\ primary[rows[p]] # NoRow
      BY <2>1, <2>2 DEF Used
    <3>2. slot \in Ids /\ p = CHOOSE q \in copied : Slot(q, copied) = slot
      BY <2>5
    <3> HIDE DEF slot
    <3>3. archive'[slot] = primary[rows[p]]
      <4>1. \E q \in copied : Slot(q, copied) = slot
        BY DEF slot
      <4> QED BY <2>3, <3>2, <4>1
    <3> QED BY <3>1, <3>2, <3>3 DEF Contents, KeysOf, Used
  <2>8. ASSUME NEW i \in Used(primary)
        PROVE  primary[i].key \in Contents' \cup {primary[rows[p]].key : p \in failed}
    <3>1. i \in Ids /\ primary[i] # NoRow
      BY <2>8 DEF Used
    <3>2. CASE i \notin gone
      <4>1. primary'[i] = primary[i]
        BY <2>3, <3>1, <3>2
      <4> QED BY <3>1, <4>1 DEF Contents, KeysOf, Used
    <3>3. CASE i \in gone
      <4>1. PICK p \in 1..(n - Cardinality(failed)) : rows[p] = i
        BY <3>3
      <4>2. p \in copied \/ p \in failed
        BY <2>1, <2>4, <4>1
      <4> QED BY <2>7, <4>1, <4>2
    <3> QED BY <3>2, <3>3
  <2> QED BY <2>6, <2>8 DEF Contents, KeysOf
<1>3. TypeOK /\ BelowArchiveSequence /\ [Next]_vars =>
        [\A rows \in StaleLists : \A failed \in SUBSET DOMAIN rows : Migrate(rows, failed) =>
           Contents \subseteq Contents' \cup {primary[rows[p]].key : p \in failed}]_vars
  BY <1>2
<1>4. TypeOK /\ BelowArchiveSequence /\ [Next]_vars => BelowArchiveSequence'
  BY ArchiveStep
<1> QED BY TypeCorrect, <1>1, <1>3, <1>4, PTL DEF Spec, OnlyFailedLost
=============================================================================
