---------------------------- MODULE Models_proofs ---------------------------
(***************************************************************************)
(* Proofs about Models, for every set of callers, every number of rows,    *)
(* and every bound: first the calls (module Generator), then the           *)
(* embeddings (module Embedding).                                          *)
(***************************************************************************)
EXTENDS Models, FiniteSetTheorems, SequenceTheorems, TLAPS

States == {"idle", "queued", "lock", "mutex", "sent", "delay", "hung", "done", "failed"}
AtWork == {"lock", "mutex", "sent", "delay", "hung"}
InChain == {c \in Calls : call[c] \in {"mutex", "sent", "hung"}}
           \cup {e \in Embeds : embed[e] \in {"mutex", "sent", "hung"}}

\* The loop serves one call, the queue has the others that wait, and the item
\* being served has a try left whenever it may send.
QueueHolds ==
    /\ \A c, d \in Served : c = d
    /\ running <=> Served # {}
    /\ ToSet(queue) = {c \in Calls : call[c] = "queued"} /\ IsInjective(queue)
    /\ \A c \in Calls : call[c] \in {"lock", "mutex", "delay"} => tries[c] < MaxTries

\* The mutex has those that wait for it, and who sends is its first.
ChainHolds ==
    /\ ToSet(chain) = InChain /\ IsInjective(chain)
    /\ \A x \in OnTheWire : chain # <<>> /\ x = Head(chain)

\* The file lock is lost only by an item that kept it for 25 minutes.
LockHolds == \A c \in Calls : UnderWay(c) => file = "server" \/ late

IInv == TypeOK /\ QueueHolds /\ ChainHolds /\ LockHolds

-----------------------------------------------------------------------------
(* Sequences without duplicates.                                           *)

\* An element that is new can be appended.
LEMMA AppendToSet ==
  ASSUME NEW S, NEW s \in Seq(S), NEW x \in S
  PROVE  /\ Append(s, x) \in Seq(S) /\ Append(s, x) # <<>>
         /\ ToSet(Append(s, x)) = ToSet(s) \cup {x}
         /\ IsInjective(s) /\ x \notin ToSet(s) => IsInjective(Append(s, x))
         /\ s # <<>> => Head(Append(s, x)) = Head(s)
<1>1. /\ Append(s, x) \in Seq(S) /\ Append(s, x) # <<>>
      /\ DOMAIN s = 1..Len(s) /\ Len(s) \in Nat /\ DOMAIN Append(s, x) = 1..(Len(s) + 1)
      /\ \A i \in 1..(Len(s) + 1) : Append(s, x)[i] = IF i = Len(s) + 1 THEN x ELSE s[i]
  OBVIOUS
<1>2. ToSet(Append(s, x)) = ToSet(s) \cup {x}
  <2>1. \A y \in ToSet(s) : y \in ToSet(Append(s, x))
    BY <1>1 DEF ToSet
  <2>2. x \in ToSet(Append(s, x))
    BY <1>1 DEF ToSet
  <2>3. \A y \in ToSet(Append(s, x)) : y \in ToSet(s) \cup {x}
    BY <1>1 DEF ToSet
  <2> QED BY <2>1, <2>2, <2>3
<1>3. IsInjective(s) /\ x \notin ToSet(s) => IsInjective(Append(s, x))
  BY <1>1 DEF ToSet, IsInjective
<1>4. s # <<>> => Head(Append(s, x)) = Head(s)
  OBVIOUS
<1> QED BY <1>1, <1>2, <1>3, <1>4

\* The tail has everything but the head.
LEMMA TailToSet ==
  ASSUME NEW S, NEW s \in Seq(S), s # <<>>, IsInjective(s)
  PROVE  /\ Tail(s) \in Seq(S) /\ Head(s) \in ToSet(s)
         /\ ToSet(Tail(s)) = ToSet(s) \ {Head(s)}
         /\ IsInjective(Tail(s))
<1>1. Len(s) \in Nat \ {0} /\ DOMAIN s = 1..Len(s)
  OBVIOUS
<1>2. /\ Tail(s) \in Seq(S) /\ Head(s) = s[1]
      /\ DOMAIN Tail(s) = 1..(Len(s) - 1)
      /\ \A i \in 1..(Len(s) - 1) : Tail(s)[i] = s[i + 1]
  BY <1>1
<1>3. IsInjective(Tail(s))
  BY <1>1, <1>2 DEF IsInjective
<1>4. ToSet(Tail(s)) \subseteq ToSet(s) \ {Head(s)}
  BY <1>1, <1>2 DEF ToSet, IsInjective
<1>5. ASSUME NEW x \in ToSet(s) \ {Head(s)} PROVE x \in ToSet(Tail(s))
  <2>1. PICK i \in 1..Len(s) : x = s[i]
    BY <1>1 DEF ToSet
  <2>2. i # 1 /\ i - 1 \in 1..(Len(s) - 1) /\ i - 1 + 1 = i
    BY <1>1, <1>2, <1>5, <2>1
  <2>3. Tail(s)[i - 1] = x
    BY <1>2, <2>1, <2>2
  <2> QED BY <1>2, <2>2, <2>3 DEF ToSet
<1>6. Head(s) \in ToSet(s)
  BY <1>1, <1>2 DEF ToSet
<1> QED BY <1>2, <1>3, <1>4, <1>5, <1>6

\* No two items have one place, so that each place is taken.
LEMMA PlacesAreTaken ==
  ASSUME NEW q \in Seq(Calls)
  PROVE  \A n \in DOMAIN q : \E i \in DOMAIN q : Place(q, i) = n
<1> DEFINE D == 1..Len(q)
           Before(i) == {j \in D : Precedes(q, j, i)}
           place == [i \in D |-> Place(q, i)]
<1>1. Len(q) \in Nat /\ DOMAIN q = D /\ IsFiniteSet(D) /\ Cardinality(D) = Len(q)
  <2>1. Len(q) \in Nat /\ DOMAIN q = D
    OBVIOUS
  <2>2. IsFiniteSet(1..Len(q)) /\ Cardinality(1..Len(q)) = IF 1 > Len(q) THEN 0 ELSE Len(q) - 1 + 1
    BY <2>1, FS_Interval
  <2> QED BY <2>1, <2>2
<1>2. \A i, j \in D : i # j => Precedes(q, i, j) \/ Precedes(q, j, i)
  BY <1>1 DEF Precedes, Priority
<1>3. \A i \in D : ~Precedes(q, i, i)
  BY <1>1 DEF Precedes, Priority
<1>4. \A i, j, k \in D : Precedes(q, i, j) /\ Precedes(q, j, k) => Precedes(q, i, k)
  BY <1>1 DEF Precedes, Priority
<1>5. \A i \in D : /\ IsFiniteSet(Before(i)) /\ Cardinality(Before(i)) \in Nat
                   /\ Place(q, i) = Cardinality(Before(i)) + 1
  <2>1. \A i \in D : Before(i) \in SUBSET D
    OBVIOUS
  <2> QED BY <1>1, <2>1, FS_Subset, FS_CardinalityType DEF Place
<1>6. \A i \in D : Place(q, i) \in D
  <2> SUFFICES ASSUME NEW i \in D PROVE Place(q, i) \in D
    OBVIOUS
  <2>1. Before(i) \in SUBSET (D \ {i})
    BY <1>3
  <2>2. IsFiniteSet(D \ {i}) /\ Cardinality(D \ {i}) = Len(q) - 1
    BY <1>1, FS_RemoveElement
  <2>3. Cardinality(Before(i)) <= Len(q) - 1
    BY <2>1, <2>2, FS_Subset
  <2>4. Cardinality(Before(i)) \in Nat /\ Place(q, i) = Cardinality(Before(i)) + 1
    BY <1>5
  <2> HIDE DEF Before
  <2> QED BY <1>1, <2>3, <2>4
<1>7. \A i, j \in D : Precedes(q, i, j) => Place(q, i) < Place(q, j)
  <2> SUFFICES ASSUME NEW i \in D, NEW j \in D, Precedes(q, i, j)
               PROVE  Place(q, i) < Place(q, j)
    OBVIOUS
  <2>1. Before(i) \in SUBSET Before(j) /\ i \in Before(j) /\ i \notin Before(i)
    BY <1>3, <1>4
  <2>2. /\ Cardinality(Before(i)) <= Cardinality(Before(j))
        /\ Cardinality(Before(i)) # Cardinality(Before(j))
    BY <1>5, <2>1, FS_Subset
  <2>3. /\ Cardinality(Before(i)) \in Nat /\ Place(q, i) = Cardinality(Before(i)) + 1
        /\ Cardinality(Before(j)) \in Nat /\ Place(q, j) = Cardinality(Before(j)) + 1
    BY <1>5
  <2> HIDE DEF Before
  <2> QED BY <2>2, <2>3
<1>8. place \in Injection(D, D)
  <2>1. \A i, j \in D : Place(q, i) = Place(q, j) => i = j
    BY <1>2, <1>6, <1>7
  <2> QED BY <1>6, <2>1 DEF Injection, IsInjective
<1>9. place \in Surjection(D, D)
  BY <1>1, <1>8, FS_Injection
<1> QED BY <1>1, <1>9 DEF Surjection

\* _mlxQueue.sort drops no item and doubles none, and puts none of low priority
\* before one of high priority.
LEMMA SortKeeps ==
  ASSUME NEW q \in Seq(Calls), IsInjective(q)
  PROVE  /\ ByPriority(q) \in Seq(Calls) /\ Len(ByPriority(q)) = Len(q)
         /\ ToSet(ByPriority(q)) = ToSet(q) /\ IsInjective(ByPriority(q))
         /\ q # <<>> => \A c \in ToSet(q) : Priority(Head(ByPriority(q))) <= Priority(c)
<1> DEFINE from == [n \in DOMAIN q |-> CHOOSE i \in DOMAIN q : Place(q, i) = n]
<1>1. Len(q) \in Nat /\ DOMAIN q = 1..Len(q)
  OBVIOUS
<1>2. \A n \in DOMAIN q : from[n] \in DOMAIN q /\ Place(q, from[n]) = n
  <2> SUFFICES ASSUME NEW n \in DOMAIN q
               PROVE  from[n] \in DOMAIN q /\ Place(q, from[n]) = n
    OBVIOUS
  <2>1. \E i \in DOMAIN q : Place(q, i) = n
    BY PlacesAreTaken
  <2> QED BY <2>1
<1>3. ByPriority(q) = [n \in DOMAIN q |-> q[from[n]]]
  BY DEF ByPriority
<1> HIDE DEF from
<1>4. from \in Injection(DOMAIN q, DOMAIN q)
  <2>1. from \in [DOMAIN q -> DOMAIN q]
    BY <1>2 DEF from
  <2>2. \A m, n \in DOMAIN q : from[m] = from[n] => m = n
    BY <1>2
  <2> QED BY <2>1, <2>2 DEF Injection, IsInjective
<1>5. from \in Surjection(DOMAIN q, DOMAIN q)
  <2>1. 1 \in Int /\ Len(q) \in Int
    BY <1>1
  <2>2. IsFiniteSet(DOMAIN q)
    BY <1>1, <2>1, FS_Interval
  <2> QED BY <1>4, <2>2, FS_Injection
<1>6. ByPriority(q) \in Seq(Calls) /\ Len(ByPriority(q)) = Len(q) /\ DOMAIN ByPriority(q) = DOMAIN q
  BY <1>1, <1>2, <1>3
<1>7. ToSet(ByPriority(q)) = ToSet(q)
  <2>1. \A x \in ToSet(ByPriority(q)) : x \in ToSet(q)
    BY <1>2, <1>3 DEF ToSet
  <2>2. ASSUME NEW x \in ToSet(q) PROVE x \in ToSet(ByPriority(q))
    <3>1. PICK i \in DOMAIN q : x = q[i]
      BY <2>2 DEF ToSet
    <3>2. PICK n \in DOMAIN q : from[n] = i
      BY <1>5 DEF Surjection
    <3>3. n \in DOMAIN ByPriority(q) /\ ByPriority(q)[n] = x
      BY <1>3, <3>1, <3>2
    <3> QED BY <3>3 DEF ToSet
  <2> QED BY <2>1, <2>2
<1>8. IsInjective(ByPriority(q))
  <2>1. \A m, n \in DOMAIN q : q[from[m]] = q[from[n]] => m = n
    BY <1>2, <1>4 DEF IsInjective, Injection
  <2> QED BY <1>3, <2>1 DEF IsInjective
<1>9. ASSUME q # <<>>, NEW c \in ToSet(q) PROVE Priority(Head(ByPriority(q))) <= Priority(c)
  <2>1. 1 \in DOMAIN q /\ Head(ByPriority(q)) = q[from[1]]
    BY <1>1, <1>3, <1>6, <1>9
  <2>2. PICK i \in DOMAIN q : c = q[i]
    BY <1>9 DEF ToSet
  <2> DEFINE Before == {j \in DOMAIN q : Precedes(q, j, from[1])}
  <2>3. Cardinality(Before) + 1 = 1
    BY <1>2, <2>1 DEF Place
  <2>4. IsFiniteSet(DOMAIN q) /\ Before \in SUBSET DOMAIN q
    BY <1>1, FS_Interval
  <2>5. IsFiniteSet(Before) /\ Cardinality(Before) \in Nat
    BY <2>4, FS_Subset, FS_CardinalityType
  <2>6. Cardinality(Before) = 0
    <3> HIDE DEF Before
    <3> QED BY <2>3, <2>5
  <2>7. Before = {}
    BY <2>5, <2>6, FS_EmptySet
  <2>8. ~Precedes(q, i, from[1])
    BY <2>2, <2>7
  <2> QED BY <2>1, <2>2, <2>8 DEF Precedes, Priority
<1> QED BY <1>6, <1>7, <1>8, <1>9

-----------------------------------------------------------------------------
(* The loop.                                                               *)

\* The calls after the loop went on: at most one of those that waited is begun.
Begins(cs) ==
  /\ call' \in [Calls -> States]
  /\ \A c \in Calls : call'[c] = cs[c] \/ (cs[c] = "queued" /\ call'[c] = "lock")

\* Whatever the loop goes on with, it serves one call afterwards and the queue
\* has exactly the others, or nothing waits and the loop has ended.
LEMMA GoOnKeeps ==
  ASSUME GeneratorAssumption, TypeOK,
         NEW q \in Seq(Calls), IsInjective(q), NEW cs \in [Calls -> States],
         ToSet(q) = {c \in Calls : cs[c] = "queued"},
         \A c \in Calls : cs[c] \notin AtWork, GoOn(q, cs)
  PROVE  /\ QueueHolds' /\ Begins(cs)
         /\ queue' \in Seq(Calls) /\ running' \in BOOLEAN /\ tries' \in [Calls -> 0..MaxTries]
<1>1. CASE q = <<>>
  <2>1. queue' = <<>> /\ running' = FALSE /\ call' = cs /\ tries' = tries
    BY <1>1 DEF GoOn
  <2>2. ToSet(q) = {} /\ IsInjective(<<>>)
    BY <1>1 DEF ToSet, IsInjective
  <2>3. Served' = {}
    BY <2>1 DEF Served, AtWork
  <2>4. \A c \in Calls : call'[c] \notin {"lock", "mutex", "delay"}
    BY <2>1 DEF AtWork
  <2>5. QueueHolds'
    BY <1>1, <2>1, <2>2, <2>3, <2>4 DEF QueueHolds
  <2>6. Begins(cs)
    BY <2>1 DEF Begins
  <2>7a. queue' \in Seq(Calls)
    BY <2>1
  <2>7. running' \in BOOLEAN
    BY <2>1
  <2>8. tries' \in [Calls -> 0..MaxTries]
    BY <2>1 DEF TypeOK
  <2> QED BY <2>5, <2>6, <2>7, <2>7a, <2>8
<1>2. CASE q # <<>>
  <2> DEFINE sorted == ByPriority(q)
             c == Head(sorted)
  <2>1. /\ queue' = Tail(sorted) /\ running' = TRUE
        /\ call' = [cs EXCEPT ![c] = "lock"] /\ tries' = [tries EXCEPT ![c] = 0]
    BY <1>2 DEF GoOn
  <2>2. /\ sorted \in Seq(Calls) /\ sorted # <<>> /\ IsInjective(sorted)
        /\ ToSet(sorted) = ToSet(q)
    <3>1. Len(q) # 0
      BY <1>2
    <3> QED BY <3>1, SortKeeps
  <2> HIDE DEF sorted
  <2>3. /\ queue' \in Seq(Calls) /\ IsInjective(queue') /\ ToSet(queue') = ToSet(q) \ {c}
        /\ c \in Calls /\ cs[c] = "queued"
    BY <2>1, <2>2, TailToSet
  <2> HIDE DEF c
  <2>4. \A d \in Calls : call'[d] = IF d = c THEN "lock" ELSE cs[d]
    BY <2>1, <2>3
  <2>5. Served' = {c}
    BY <2>3, <2>4 DEF Served, AtWork
  <2>6. tries' \in [Calls -> 0..MaxTries] /\ tries'[c] < MaxTries
    BY <2>1, <2>3 DEF TypeOK, GeneratorAssumption
  <2>7. \A d \in Calls : call'[d] \in {"lock", "mutex", "delay"} => d = c
    BY <2>4 DEF AtWork
  <2>8. ToSet(queue') = {d \in Calls : call'[d] = "queued"}
    BY <2>3, <2>4
  <2>9. QueueHolds'
    BY <2>1, <2>3, <2>5, <2>6, <2>7, <2>8 DEF QueueHolds
  <2>10. Begins(cs)
    <3>1. call' \in [Calls -> States]
      BY <2>1, <2>3 DEF States
    <3> QED BY <2>3, <2>4, <3>1 DEF Begins
  <2> QED BY <2>1, <2>3, <2>6, <2>9, <2>10
<1> QED BY <1>1, <1>2

\* A call that is idle or settled joins the queue, behind a loop that runs or
\* as the first of a new one.
LEMMA CallKeeps ==
  ASSUME IInv, NEW c \in Calls, Call(c)
  PROVE  /\ QueueHolds'
         /\ queue' \in Seq(Calls) /\ running' \in BOOLEAN /\ tries' \in [Calls -> 0..MaxTries]
         /\ call' \in [Calls -> States]
         /\ \A d \in Calls : \/ call'[d] = call[d]
                             \/ call[d] \notin AtWork /\ call'[d] \in {"queued", "lock"}
<1> DEFINE q == Append(queue, c)
           cs == [call EXCEPT ![c] = "queued"]
<1>1. /\ queue \in Seq(Calls) /\ running \in BOOLEAN /\ tries \in [Calls -> 0..MaxTries]
      /\ call \in [Calls -> States] /\ call[c] \in {"idle", "done", "failed"}
  BY DEF IInv, TypeOK, States, Call
<1>2. ToSet(queue) = {d \in Calls : call[d] = "queued"} /\ IsInjective(queue)
  BY DEF IInv, QueueHolds
<1>3. c \notin ToSet(queue)
  BY <1>1, <1>2
<1>4. q \in Seq(Calls) /\ IsInjective(q) /\ ToSet(q) = ToSet(queue) \cup {c}
  BY <1>1, <1>2, <1>3, AppendToSet
<1>5. cs \in [Calls -> States] /\ \A d \in Calls : cs[d] = IF d = c THEN "queued" ELSE call[d]
  BY <1>1 DEF States
<1>6. ToSet(q) = {d \in Calls : cs[d] = "queued"}
  BY <1>2, <1>4, <1>5
<1>7. CASE running
  <2>1. queue' = q /\ call' = cs /\ UNCHANGED <<running, tries>>
    BY <1>7 DEF Call
  <2> HIDE DEF q, cs
  <2>2. Served' = Served
    BY <1>1, <1>5, <2>1 DEF Served, AtWork
  <2>3. \A d \in Calls : call'[d] \in {"lock", "mutex", "delay"} => call'[d] = call[d]
    BY <1>5, <2>1
  <2>4. QueueHolds'
    BY <1>4, <1>6, <2>1, <2>2, <2>3 DEF IInv, QueueHolds
  <2>5. running' \in BOOLEAN
    BY <1>1, <2>1
  <2>6. queue' \in Seq(Calls) /\ tries' \in [Calls -> 0..MaxTries] /\ call' \in [Calls -> States]
    BY <1>1, <1>4, <1>5, <2>1
  <2>7. \A d \in Calls : \/ call'[d] = call[d]
                         \/ call[d] \notin AtWork /\ call'[d] \in {"queued", "lock"}
    BY <1>1, <1>5, <2>1 DEF AtWork
  <2> QED BY <2>4, <2>5, <2>6, <2>7
<1>8. CASE ~running
  <2>1. GoOn(q, cs)
    BY <1>8 DEF Call
  <2>2. Served = {}
    BY <1>8 DEF IInv, QueueHolds
  <2> HIDE DEF q, cs
  <2>3. \A d \in Calls : cs[d] \notin AtWork
    BY <1>5, <2>2 DEF Served, AtWork
  <2>4. /\ QueueHolds' /\ Begins(cs)
        /\ queue' \in Seq(Calls) /\ running' \in BOOLEAN /\ tries' \in [Calls -> 0..MaxTries]
    BY <1>4, <1>5, <1>6, <2>1, <2>3, GoOnKeeps, GeneratorAssumption DEF IInv
  <2>5. \A d \in Calls : \/ call'[d] = call[d]
                         \/ call[d] \notin AtWork /\ call'[d] \in {"queued", "lock"}
    BY <1>1, <1>5, <2>3, <2>4 DEF Begins, AtWork
  <2> QED BY <2>4, <2>5 DEF Begins
<1> QED BY <1>1, <1>7, <1>8

\* The item served is over, one way or the other, and the loop goes on.
LEMMA SettleKeeps ==
  ASSUME IInv, NEW c \in Calls, call[c] \in AtWork, NEW as \in {"done", "failed"},
         GoOn(queue, [call EXCEPT ![c] = as])
  PROVE  /\ QueueHolds'
         /\ queue' \in Seq(Calls) /\ running' \in BOOLEAN /\ tries' \in [Calls -> 0..MaxTries]
         /\ call' \in [Calls -> States]
         /\ call'[c] = as
         /\ \A d \in Calls \ {c} : \/ call'[d] = call[d]
                                   \/ call[d] \notin AtWork /\ call'[d] \in {"queued", "lock"}
         /\ \A d \in Calls : call'[d] \notin AtWork \ {"lock"}
<1> DEFINE cs == [call EXCEPT ![c] = as]
<1>1. /\ queue \in Seq(Calls) /\ call \in [Calls -> States]
      /\ ToSet(queue) = {d \in Calls : call[d] = "queued"} /\ IsInjective(queue)
  BY DEF IInv, TypeOK, States, QueueHolds
<1>2. \A d \in Calls \ {c} : call[d] \notin AtWork
  BY DEF IInv, QueueHolds, Served, AtWork
<1>3. cs \in [Calls -> States] /\ \A d \in Calls : cs[d] = IF d = c THEN as ELSE call[d]
  BY <1>1 DEF States
<1>4. GoOn(queue, cs)
  OBVIOUS
<1> HIDE DEF cs
<1>5. \A d \in Calls : cs[d] \notin AtWork
  BY <1>2, <1>3 DEF AtWork
<1>6. {d \in Calls : call[d] = "queued"} = {d \in Calls : cs[d] = "queued"}
  BY <1>3 DEF AtWork
<1>7. /\ QueueHolds' /\ Begins(cs)
      /\ queue' \in Seq(Calls) /\ running' \in BOOLEAN /\ tries' \in [Calls -> 0..MaxTries]
  BY <1>1, <1>3, <1>4, <1>5, <1>6, GoOnKeeps, GeneratorAssumption DEF IInv
<1>8. \A d \in Calls : call'[d] \notin AtWork \ {"lock"}
  BY <1>5, <1>7 DEF Begins
<1>9. \A d \in Calls : call'[d] = cs[d] \/ (cs[d] = "queued" /\ call'[d] = "lock")
  BY <1>7 DEF Begins
<1>10. call'[c] = as
  BY <1>3, <1>9
<1>11. \A d \in Calls \ {c} : \/ call'[d] = call[d]
                              \/ call[d] \notin AtWork /\ call'[d] \in {"queued", "lock"}
  BY <1>2, <1>3, <1>9
<1> QED BY <1>7, <1>8, <1>10, <1>11 DEF Begins

\* A step of the item served that does not end it.
LEMMA MoveKeeps ==
  ASSUME IInv, NEW c \in Calls, call[c] \in AtWork, NEW l \in AtWork,
         call' = [call EXCEPT ![c] = l], UNCHANGED <<queue, running>>,
         tries' \in [Calls -> 0..MaxTries],
         \A d \in Calls \ {c} : tries'[d] = tries[d],
         l \in {"lock", "mutex", "delay"} => tries'[c] < MaxTries
  PROVE  QueueHolds' /\ call' \in [Calls -> States]
<1>1. call \in [Calls -> States]
  BY DEF IInv, TypeOK, States
<1>2. call' \in [Calls -> States] /\ \A d \in Calls : call'[d] = IF d = c THEN l ELSE call[d]
  BY <1>1 DEF States, AtWork
<1>3. Served' = Served
  BY <1>2 DEF Served, AtWork
<1>4. {d \in Calls : call'[d] = "queued"} = {d \in Calls : call[d] = "queued"}
  BY <1>2 DEF AtWork
<1>5. \A d \in Calls : call'[d] \in {"lock", "mutex", "delay"} => tries'[d] < MaxTries
  BY <1>2 DEF IInv, QueueHolds
<1> QED BY <1>2, <1>3, <1>4, <1>5 DEF IInv, QueueHolds

-----------------------------------------------------------------------------
(* The mutex.                                                              *)

\* Nobody joins and nobody leaves; whoever sends from now on is the first.
LEMMA ChainStays ==
  ASSUME IInv, UNCHANGED chain, InChain' = InChain,
         \A x \in OnTheWire' : x \in OnTheWire \/ First(x)
  PROVE  ChainHolds'
BY DEF IInv, ChainHolds, First

\* Somebody joins at the end.
LEMMA ChainGrows ==
  ASSUME IInv, NEW x \in Calls \cup Embeds, x \notin InChain, chain' = Append(chain, x),
         InChain' = InChain \cup {x}, OnTheWire' = OnTheWire
  PROVE  ChainHolds' /\ chain' \in Seq(Calls \cup Embeds)
<1>1. chain \in Seq(Calls \cup Embeds) /\ ToSet(chain) = InChain /\ IsInjective(chain)
  BY DEF IInv, TypeOK, ChainHolds
<1>2. /\ chain' \in Seq(Calls \cup Embeds) /\ ToSet(chain') = InChain'
      /\ IsInjective(chain') /\ chain' # <<>>
      /\ chain # <<>> => Head(chain') = Head(chain)
  BY <1>1, AppendToSet
<1>3. \A y \in OnTheWire' : chain' # <<>> /\ y = Head(chain')
  BY <1>2 DEF IInv, ChainHolds
<1> QED BY <1>2, <1>3 DEF ChainHolds

\* Who sent leaves, and nobody sends.
LEMMA ChainShrinks ==
  ASSUME IInv, NEW x \in OnTheWire, chain' = Tail(chain),
         InChain' = InChain \ {x}, \A y \in OnTheWire' : y \in OnTheWire \ {x}
  PROVE  ChainHolds' /\ chain' \in Seq(Calls \cup Embeds)
<1>1. /\ chain \in Seq(Calls \cup Embeds) /\ ToSet(chain) = InChain /\ IsInjective(chain)
      /\ chain # <<>> /\ \A y \in OnTheWire : y = Head(chain)
  BY DEF IInv, TypeOK, ChainHolds
<1>2. OnTheWire' = {} /\ x = Head(chain)
  BY <1>1
<1>3. chain' \in Seq(Calls \cup Embeds) /\ ToSet(chain') = InChain' /\ IsInjective(chain')
  BY <1>1, <1>2, TailToSet
<1> QED BY <1>2, <1>3 DEF ChainHolds

-----------------------------------------------------------------------------
(* The inductive step.                                                     *)

LEMMA InitIInv == Init => IInv
<1> SUFFICES ASSUME Init PROVE IInv
  OBVIOUS
<1>1. ToSet(<<>>) = {} /\ IsInjective(<<>>)
  BY DEF ToSet, IsInjective
<1>2. Served = {} /\ OnTheWire = {} /\ InChain = {}
  BY DEF Init, Served, OnTheWire, InChain
<1>3. TypeOK
  <2>1. queue \in Seq(Calls) /\ chain \in Seq(Calls \cup Embeds)
    BY DEF Init
  <2>2. running \in BOOLEAN /\ late \in BOOLEAN
    BY DEF Init
  <2>3. tries \in [Calls -> 0..MaxTries] /\ troubles \in 0..MaxTroubles
    BY GeneratorAssumption DEF Init
  <2> QED BY <2>1, <2>2, <2>3 DEF Init, TypeOK
<1>4. QueueHolds
  BY <1>1, <1>2 DEF Init, QueueHolds
<1>5. ChainHolds
  BY <1>1, <1>2 DEF Init, ChainHolds
<1>6. LockHolds
  BY DEF Init, LockHolds, UnderWay
<1> QED BY <1>3, <1>4, <1>5, <1>6 DEF IInv

\* What the invariant says of the types, as facts to cite.
LEMMA Types ==
  ASSUME IInv
  PROVE  /\ call \in [Calls -> States] /\ embed \in [Embeds -> {"idle", "mutex", "sent", "hung"}]
         /\ tries \in [Calls -> 0..MaxTries] /\ chain \in Seq(Calls \cup Embeds)
         /\ queue \in Seq(Calls) /\ MaxTries \in Nat \ {0} /\ Calls \cap Embeds = {}
BY GeneratorAssumption DEF IInv, TypeOK, States

\* A step of the bounds and the file lock keeps their types.
RestTypes == file \in {"free", "server", "other"} /\ late \in BOOLEAN /\ troubles \in 0..MaxTroubles

LEMMA RestStep == IInv /\ [Next]_vars => RestTypes'
<1> SUFFICES ASSUME IInv, [Next]_vars PROVE RestTypes'
  OBVIOUS
<1>1. troubles' \in 0..MaxTroubles
  <2>1. troubles' = troubles \/ Trouble
    BY DEF Next, Serve, Settling, vars, Call, LockTaken, LockBusy, Send, PauseEnds, Answered,
           Transient, Fails, BreaksOff, EmbedCall, EmbedSend, EmbedSettles, EmbedBreaksOff,
           OtherTakes, OtherLeaves, GetsLate, Restart
  <2> QED BY <2>1, GeneratorAssumption DEF IInv, TypeOK, Trouble
<1>2. file' \in {file, "free", "server", "other"}
  BY DEF Next, Serve, Settling, vars, Call, LockTaken, LockBusy, Send, PauseEnds, Answered,
         Transient, Fails, BreaksOff, EmbedCall, EmbedSend, EmbedSettles, EmbedBreaksOff,
         OtherTakes, OtherLeaves, GetsLate, Restart, Settle
<1>3. late' \in {late, TRUE, FALSE}
  BY DEF Next, Serve, Settling, vars, Call, LockTaken, LockBusy, Send, PauseEnds, Answered,
         Transient, Fails, BreaksOff, EmbedCall, EmbedSend, EmbedSettles, EmbedBreaksOff,
         OtherTakes, OtherLeaves, GetsLate, Restart, Settle
<1>4. file' \in {"free", "server", "other"} /\ late' \in BOOLEAN
  BY <1>2, <1>3 DEF IInv, TypeOK
<1> QED BY <1>1, <1>4 DEF RestTypes

\* What is left to show of a step.
Rest ==
  /\ QueueHolds' /\ ChainHolds' /\ LockHolds'
  /\ queue' \in Seq(Calls) /\ running' \in BOOLEAN /\ tries' \in [Calls -> 0..MaxTries]
  /\ call' \in [Calls -> States] /\ embed' \in [Embeds -> {"idle", "mutex", "sent", "hung"}]
  /\ chain' \in Seq(Calls \cup Embeds)

LEMMA CallStep == ASSUME IInv, NEW c \in Calls, Call(c) PROVE Rest
<1>1. /\ QueueHolds'
      /\ queue' \in Seq(Calls) /\ running' \in BOOLEAN /\ tries' \in [Calls -> 0..MaxTries]
      /\ call' \in [Calls -> States]
      /\ \A d \in Calls : \/ call'[d] = call[d]
                          \/ call[d] \notin AtWork /\ call'[d] \in {"queued", "lock"}
  BY CallKeeps
<1>2. UNCHANGED <<embed, chain, file, late>>
  BY DEF Call
<1>3. InChain' = InChain /\ OnTheWire' = OnTheWire
  BY <1>1, <1>2 DEF InChain, OnTheWire, AtWork
<1>4. ChainHolds'
  BY <1>2, <1>3, ChainStays
<1>5. \A d \in Calls : /\ call'[d] = "hung" <=> call[d] = "hung"
                       /\ call'[d] \in {"mutex", "sent", "delay"} => call'[d] = call[d]
  BY <1>1 DEF AtWork
<1>6. LockHolds'
  BY <1>2, <1>5 DEF IInv, LockHolds, UnderWay
<1> QED BY <1>1, <1>2, <1>4, <1>6, Types DEF Rest

\* The item gives the lock back and the next one begins.
LEMMA SettleStep ==
  ASSUME IInv, NEW c \in Calls, call[c] = "sent", NEW as \in {"done", "failed"},
         Settle(c, as), chain' = Tail(chain), UNCHANGED embed
  PROVE  Rest
<1>1. /\ QueueHolds'
      /\ queue' \in Seq(Calls) /\ running' \in BOOLEAN /\ tries' \in [Calls -> 0..MaxTries]
      /\ call' \in [Calls -> States] /\ call'[c] = as
      /\ \A d \in Calls \ {c} : \/ call'[d] = call[d]
                                \/ call[d] \notin AtWork /\ call'[d] \in {"queued", "lock"}
      /\ \A d \in Calls : call'[d] \notin AtWork \ {"lock"}
  BY SettleKeeps DEF Settle, AtWork
<1>2. c \in OnTheWire /\ c \notin Embeds
  BY Types DEF OnTheWire
<1>3. InChain' = InChain \ {c}
  BY <1>1, <1>2 DEF InChain, AtWork
<1>4. \A y \in OnTheWire' : y \in OnTheWire \ {c}
  BY <1>1, <1>2 DEF OnTheWire, AtWork
<1>5. ChainHolds' /\ chain' \in Seq(Calls \cup Embeds)
  BY <1>2, <1>3, <1>4, ChainShrinks
<1>6. \A d \in Calls : call'[d] \notin {"mutex", "sent", "delay", "hung"}
  BY <1>1 DEF Settle, AtWork
<1>7. LockHolds'
  BY <1>6 DEF LockHolds, UnderWay
<1> QED BY <1>1, <1>5, <1>7, Types DEF Rest

\* The item is given up because someone else has the lock.
LEMMA LockBusyStep == ASSUME IInv, NEW c \in Calls, LockBusy(c) PROVE Rest
<1>1. call[c] = "lock" /\ UNCHANGED <<embed, chain, file, late>>
  BY DEF LockBusy
<1>2. /\ QueueHolds'
      /\ queue' \in Seq(Calls) /\ running' \in BOOLEAN /\ tries' \in [Calls -> 0..MaxTries]
      /\ call' \in [Calls -> States] /\ call'[c] = "failed"
      /\ \A d \in Calls \ {c} : \/ call'[d] = call[d]
                                \/ call[d] \notin AtWork /\ call'[d] \in {"queued", "lock"}
      /\ \A d \in Calls : call'[d] \notin AtWork \ {"lock"}
  BY <1>1, SettleKeeps DEF LockBusy, AtWork
<1>3. \A d \in Calls : call[d] \in {"mutex", "sent", "hung"} <=> call'[d] \in {"mutex", "sent", "hung"}
  BY <1>1, <1>2 DEF AtWork
<1>4. InChain' = InChain /\ \A d \in Calls : call'[d] \notin {"sent", "hung", "mutex", "delay"}
  BY <1>1, <1>2, <1>3 DEF InChain, AtWork
<1>5. \A x \in OnTheWire' : x \in OnTheWire
  BY <1>1, <1>4 DEF OnTheWire
<1>6. ChainHolds'
  BY <1>1, <1>4, <1>5, ChainStays
<1>7. LockHolds'
  BY <1>1, <1>4 DEF IInv, LockHolds, UnderWay
<1> QED BY <1>1, <1>2, <1>6, <1>7, Types DEF Rest

\* The lock is got, or a pause is over: the item queues for the mutex.
LEMMA JoinStep ==
  ASSUME IInv, NEW c \in Calls, LockTaken(c) \/ PauseEnds(c) PROVE Rest
<1>1. /\ call[c] \in {"lock", "delay"} /\ call' = [call EXCEPT ![c] = "mutex"]
      /\ chain' = Append(chain, c) /\ UNCHANGED <<queue, running, tries, embed, late>>
  BY DEF LockTaken, PauseEnds
<1>2. file' = "server" \/ (call[c] = "delay" /\ file' = file)
  BY DEF LockTaken, PauseEnds
<1>3. \A d \in Calls : call'[d] = IF d = c THEN "mutex" ELSE call[d]
  BY <1>1, Types
<1>4. QueueHolds' /\ call' \in [Calls -> States]
  <2>1. tries[c] < MaxTries
    BY <1>1 DEF IInv, QueueHolds
  <2> QED BY <1>1, <2>1, Types, MoveKeeps DEF AtWork
<1>5. c \notin InChain /\ InChain' = InChain \cup {c} /\ OnTheWire' = OnTheWire
  BY <1>1, <1>3, Types DEF InChain, OnTheWire
<1>6. ChainHolds' /\ chain' \in Seq(Calls \cup Embeds)
  BY <1>1, <1>5, ChainGrows
<1>7. LockHolds'
  BY <1>1, <1>2, <1>3 DEF IInv, LockHolds, UnderWay
<1>8. running' \in BOOLEAN
  BY <1>1 DEF IInv, TypeOK
<1> QED BY <1>1, <1>4, <1>6, <1>7, <1>8, Types DEF Rest

\* The request goes out, or its response breaks off.
LEMMA SendStep == ASSUME IInv, NEW c \in Calls, Send(c) \/ BreaksOff(c) PROVE Rest
<1>1. \/ call[c] = "mutex" /\ First(c) /\ call' = [call EXCEPT ![c] = "sent"]
      \/ call[c] = "sent" /\ call' = [call EXCEPT ![c] = "hung"]
  BY DEF Send, BreaksOff
<1>2. UNCHANGED <<queue, running, embed, chain, file, late>>
  BY DEF Send, BreaksOff
<1>3. /\ tries' \in [Calls -> 0..MaxTries]
      /\ \A d \in Calls \ {c} : tries'[d] = tries[d]
  <2>1. CASE Send(c)
    <3>1. tries[c] < MaxTries /\ tries' = [tries EXCEPT ![c] = tries[c] + 1]
      BY <2>1 DEF Send, IInv, QueueHolds
    <3> QED BY <3>1, Types
  <2>2. CASE BreaksOff(c)
    BY <2>2, Types DEF BreaksOff
  <2> QED BY <2>1, <2>2
<1>4. QueueHolds' /\ call' \in [Calls -> States]
  BY <1>1, <1>2, <1>3, MoveKeeps DEF AtWork
<1>5. \A d \in Calls : call'[d] = IF d = c THEN call'[c] ELSE call[d]
  BY <1>1, Types
<1>6. call[c] \in {"mutex", "sent"} /\ call'[c] \in {"sent", "hung"}
  BY <1>1, Types
<1>7. InChain' = InChain
  BY <1>2, <1>5, <1>6 DEF InChain
<1>8. \A x \in OnTheWire' : x \in OnTheWire \/ First(x)
  BY <1>1, <1>2, <1>5, Types DEF OnTheWire
<1>9. ChainHolds'
  BY <1>2, <1>7, <1>8, ChainStays
<1>10. LockHolds'
  BY <1>2, <1>6 DEF IInv, LockHolds, UnderWay
<1>11. running' \in BOOLEAN
  BY <1>2 DEF IInv, TypeOK
<1> QED BY <1>2, <1>3, <1>4, <1>9, <1>10, <1>11, Types DEF Rest

\* A transient error with a try left: the mutex is given back, the lock is not.
LEMMA DelayStep ==
  ASSUME IInv, NEW c \in Calls, call[c] = "sent", tries[c] < MaxTries,
         call' = [call EXCEPT ![c] = "delay"], chain' = Tail(chain),
         UNCHANGED <<queue, running, tries, embed, file, late>>
  PROVE  Rest
<1>1. QueueHolds' /\ call' \in [Calls -> States]
  BY Types, MoveKeeps DEF AtWork
<1>2. \A d \in Calls : call'[d] = IF d = c THEN "delay" ELSE call[d]
  BY Types
<1>3. c \in OnTheWire /\ c \notin Embeds
  BY Types DEF OnTheWire
<1>4. InChain' = InChain \ {c} /\ \A y \in OnTheWire' : y \in OnTheWire \ {c}
  BY <1>2, <1>3 DEF InChain, OnTheWire
<1>5. ChainHolds' /\ chain' \in Seq(Calls \cup Embeds)
  BY <1>3, <1>4, ChainShrinks
<1>6. LockHolds'
  BY <1>2 DEF IInv, LockHolds, UnderWay
<1>7. running' \in BOOLEAN
  BY DEF IInv, TypeOK
<1> QED BY <1>1, <1>5, <1>6, <1>7, Types DEF Rest

\* The embedding requests, which share the mutex and nothing else.
LEMMA EmbedStep ==
  ASSUME IInv, NEW e \in Embeds,
         EmbedCall(e) \/ EmbedSend(e) \/ EmbedSettles(e) \/ EmbedBreaksOff(e)
  PROVE  Rest
<1>1. UNCHANGED <<queue, running, call, tries, file, late>>
  BY DEF EmbedCall, EmbedSend, EmbedSettles, EmbedBreaksOff
<1>2. QueueHolds' /\ running' \in BOOLEAN
  BY <1>1 DEF IInv, TypeOK, QueueHolds, Served
<1>3. e \notin Calls
  BY Types
<1>4. CASE EmbedCall(e)
  <2>1. embed[e] = "idle" /\ embed' = [embed EXCEPT ![e] = "mutex"] /\ chain' = Append(chain, e)
    BY <1>4 DEF EmbedCall
  <2>2. \A f \in Embeds : embed'[f] = IF f = e THEN "mutex" ELSE embed[f]
    BY <2>1, Types
  <2>3. e \notin InChain /\ InChain' = InChain \cup {e} /\ OnTheWire' = OnTheWire
    BY <1>1, <1>3, <2>1, <2>2 DEF InChain, OnTheWire
  <2>4. ChainHolds' /\ chain' \in Seq(Calls \cup Embeds)
    BY <2>1, <2>3, ChainGrows
  <2>5. LockHolds'
    BY <1>1, <2>1, <2>2 DEF IInv, LockHolds, UnderWay
  <2> QED BY <1>1, <1>2, <2>1, <2>4, <2>5, Types DEF Rest
<1>5. CASE EmbedSend(e) \/ EmbedBreaksOff(e)
  <2>1. /\ \/ embed[e] = "mutex" /\ First(e) /\ embed' = [embed EXCEPT ![e] = "sent"]
           \/ embed[e] = "sent" /\ embed' = [embed EXCEPT ![e] = "hung"]
        /\ UNCHANGED chain
    BY <1>5 DEF EmbedSend, EmbedBreaksOff
  <2>2. \A f \in Embeds : embed'[f] = IF f = e THEN embed'[e] ELSE embed[f]
    BY <2>1, Types
  <2>3. embed[e] \in {"mutex", "sent"} /\ embed'[e] \in {"sent", "hung"}
    BY <2>1, Types
  <2>4. InChain' = InChain
    BY <1>1, <2>2, <2>3 DEF InChain
  <2>5. \A x \in OnTheWire' : x \in OnTheWire \/ First(x)
    BY <1>1, <2>1, <2>2, Types DEF OnTheWire
  <2>6. ChainHolds'
    BY <2>1, <2>4, <2>5, ChainStays
  <2>7. LockHolds'
    BY <1>1 DEF IInv, LockHolds, UnderWay
  <2> QED BY <1>1, <1>2, <2>1, <2>6, <2>7, Types DEF Rest
<1>6. CASE EmbedSettles(e)
  <2>1. embed[e] = "sent" /\ embed' = [embed EXCEPT ![e] = "idle"] /\ chain' = Tail(chain)
    BY <1>6 DEF EmbedSettles
  <2>2. \A f \in Embeds : embed'[f] = IF f = e THEN "idle" ELSE embed[f]
    BY <2>1, Types
  <2>3. e \in OnTheWire /\ InChain' = InChain \ {e} /\ \A y \in OnTheWire' : y \in OnTheWire \ {e}
    BY <1>1, <1>3, <2>1, <2>2 DEF InChain, OnTheWire
  <2>4. ChainHolds' /\ chain' \in Seq(Calls \cup Embeds)
    BY <2>1, <2>3, ChainShrinks
  <2>5. LockHolds'
    BY <1>1, <2>1, <2>2 DEF IInv, LockHolds, UnderWay
  <2> QED BY <1>1, <1>2, <2>1, <2>4, <2>5, Types DEF Rest
<1> QED BY <1>4, <1>5, <1>6

\* The others at the lock, and the time it is held.
LEMMA OthersStep ==
  ASSUME IInv, UNCHANGED <<queue, running, call, tries, embed, chain>>,
         UNCHANGED <<file, late>> \/ OtherTakes \/ OtherLeaves \/ GetsLate
  PROVE  Rest
<1>1. QueueHolds' /\ running' \in BOOLEAN
  BY DEF IInv, TypeOK, QueueHolds, Served
<1>2. ChainHolds'
  BY DEF IInv, ChainHolds, InChain, OnTheWire
<1>3. LockHolds'
  <2>1. CASE UNCHANGED <<file, late>> BY <2>1 DEF IInv, LockHolds, UnderWay
  <2>2. CASE OtherTakes BY <2>2 DEF OtherTakes, IInv, LockHolds, UnderWay
  <2>3. CASE OtherLeaves BY <2>3 DEF OtherLeaves, IInv, LockHolds, UnderWay
  <2>4. CASE GetsLate BY <2>4 DEF GetsLate, IInv, LockHolds, UnderWay
  <2> QED BY <2>1, <2>2, <2>3, <2>4
<1> QED BY <1>1, <1>2, <1>3, Types DEF Rest

\* A server that starts again has nothing waiting.
LEMMA RestartStep == ASSUME IInv, Restart PROVE Rest
<1>1. /\ queue' = <<>> /\ chain' = <<>> /\ tries' = [c \in Calls |-> 0]
      /\ embed' = [e \in Embeds |-> "idle"]
      /\ call' = [c \in Calls |-> IF call[c] \in {"idle", "done", "failed"} THEN call[c] ELSE "idle"]
  BY DEF Restart
<1>2. running' = FALSE /\ late' = FALSE
  BY DEF Restart
<1>3. \A c \in Calls : call'[c] \in {"idle", "done", "failed"}
  BY <1>1
<1>4. Served' = {} /\ InChain' = {} /\ OnTheWire' = {} /\ {c \in Calls : call'[c] = "queued"} = {}
  BY <1>1, <1>3 DEF Served, InChain, OnTheWire
<1>5. ToSet(<<>>) = {} /\ IsInjective(<<>>)
  BY DEF ToSet, IsInjective
<1>6. QueueHolds'
  BY <1>1, <1>2, <1>3, <1>4, <1>5 DEF QueueHolds
<1>7. ChainHolds'
  BY <1>1, <1>4, <1>5 DEF ChainHolds
<1>8. LockHolds'
  BY <1>2, <1>3 DEF LockHolds, UnderWay
<1>9. call' \in [Calls -> States] /\ embed' \in [Embeds -> {"idle", "mutex", "sent", "hung"}]
  BY <1>1 DEF States
<1>10. /\ queue' \in Seq(Calls) /\ chain' \in Seq(Calls \cup Embeds)
       /\ tries' \in [Calls -> 0..MaxTries]
  BY <1>1, Types
<1>11. running' \in BOOLEAN
  BY <1>2
<1> QED BY <1>6, <1>7, <1>8, <1>9, <1>10, <1>11 DEF Rest

LEMMA Step == IInv /\ [Next]_vars => IInv'
<1> SUFFICES ASSUME IInv, [Next]_vars PROVE IInv'
  OBVIOUS
<1>1. ASSUME NEW c \in Calls, Call(c) \/ Serve(c) \/ Settling(c) PROVE Rest
  <2>1. CASE Call(c) BY <2>1, CallStep
  <2>2. CASE LockTaken(c) \/ PauseEnds(c) BY <2>2, JoinStep
  <2>3. CASE LockBusy(c) BY <2>3, LockBusyStep
  <2>4. CASE Send(c) \/ BreaksOff(c) BY <2>4, SendStep
  <2>5. CASE Answered(c) BY <2>5, SettleStep DEF Answered
  <2>6. CASE Transient(c)
    <3>1. CASE tries[c] < MaxTries BY <2>6, <3>1, DelayStep DEF Transient
    <3>2. CASE ~(tries[c] < MaxTries) BY <2>6, <3>2, SettleStep DEF Transient
    <3> QED BY <3>1, <3>2
  <2>7. CASE Fails(c) BY <2>7, SettleStep DEF Fails
  <2> QED BY <1>1, <2>1, <2>2, <2>3, <2>4, <2>5, <2>6, <2>7 DEF Serve, Settling
<1>2. ASSUME NEW e \in Embeds,
             EmbedCall(e) \/ EmbedSend(e) \/ EmbedSettles(e) \/ EmbedBreaksOff(e)
      PROVE  Rest
  BY <1>2, EmbedStep
<1>3. ASSUME OtherTakes \/ OtherLeaves \/ GetsLate PROVE Rest
  BY <1>3, OthersStep DEF OtherTakes, OtherLeaves, GetsLate
<1>4. ASSUME Restart PROVE Rest
  BY <1>4, RestartStep
<1>5. ASSUME UNCHANGED vars PROVE Rest
  BY <1>5, OthersStep DEF vars
<1>6. Rest
  BY <1>1, <1>2, <1>3, <1>4, <1>5 DEF Next
<1>7. TypeOK'
  BY <1>6, RestStep DEF Rest, RestTypes, TypeOK, States
<1> QED BY <1>6, <1>7 DEF Rest, IInv

\* The invariant of the generator queue.
THEOREM Invariant == Spec => []IInv
BY InitIInv, Step, PTL DEF Spec

-----------------------------------------------------------------------------
(* What it gives.                                                          *)

LEMMA AtMostOne ==
  ASSUME NEW S, \A x, y \in S : x = y
  PROVE  Cardinality(S) <= 1
<1>1. CASE S = {} BY <1>1, FS_EmptySet
<1>2. CASE S # {}
  <2>1. PICK x : S = {x}
    BY <1>2
  <2> QED BY <2>1, FS_Singleton
<1> QED BY <1>1, <1>2

\* _mlxDrain and the mutex: at most one request is under way, over pauses,
\* retries, embeddings and restarts, and no call is dropped or doubled.
THEOREM OneAlways == Spec => []OneAtATime
<1>1. IInv => OneAtATime
  <2> SUFFICES ASSUME IInv PROVE OneAtATime
    OBVIOUS
  <2>1. \A x, y \in OnTheWire : x = y
    BY DEF IInv, ChainHolds
  <2>2. \A x, y \in Served : x = y
    BY DEF IInv, QueueHolds
  <2>3. Cardinality(OnTheWire) <= 1
    BY <2>1, AtMostOne
  <2>4. Cardinality(Served) <= 1
    BY <2>2, AtMostOne
  <2> QED BY <2>3, <2>4 DEF IInv, QueueHolds, ChainHolds, OneAtATime
<1> QED BY <1>1, Invariant, PTL

\* The file lock: while another process has it no request of the server is
\* under way unless something hangs.
THEOREM ApartAlways == Spec => []ApartFromOthers
<1>1. IInv => ApartFromOthers
  BY DEF IInv, LockHolds, ApartFromOthers, UnderWay
<1> QED BY <1>1, Invariant, PTL

\* The item the loop begins has the highest priority of the queue.
LEMMA BeginsTop ==
  ASSUME NEW q \in Seq(Calls), IsInjective(q), NEW cs \in [Calls -> States], GoOn(q, cs),
         NEW c \in Calls \ Top, call'[c] \in AtWork, cs[c] \notin AtWork
  PROVE  \A t \in Top : t \notin ToSet(q)
<1>1. q # <<>>
  BY DEF GoOn
<1> DEFINE h == Head(ByPriority(q))
<1>2. call' = [cs EXCEPT ![h] = "lock"]
  BY <1>1 DEF GoOn
<1>3. \A d \in ToSet(q) : Priority(h) <= Priority(d)
  BY <1>1, SortKeeps
<1> HIDE DEF h
<1>4. h = c
  BY <1>2
<1> QED BY <1>3, <1>4 DEF Priority

\* MLX_PRIORITY: an item of low priority is begun only when none of high
\* priority waits.
THEOREM TopFirstAlways == Spec => TopFirst
<1> DEFINE Goes == \A c \in Calls \ Top : c \in Served' /\ c \notin Served =>
                      \A t \in Top : call[t] # "queued"
<1>1. IInv /\ [Next]_vars => Goes
  <2> SUFFICES ASSUME IInv, [Next]_vars, NEW c \in Calls \ Top, c \in Served', c \notin Served
               PROVE  \A t \in Top : call[t] # "queued"
    OBVIOUS
  <2>1. call'[c] \in AtWork /\ call[c] \notin AtWork
    BY DEF Served, AtWork
  <2>2. \A t \in Top : t \in Calls
    BY GeneratorAssumption
  <2>3. ASSUME NEW d \in Calls, Call(d) PROVE \A t \in Top : call[t] # "queued"
    <3> DEFINE q == Append(queue, d)
               cs == [call EXCEPT ![d] = "queued"]
    <3>1. d \notin ToSet(queue)
      BY <2>3 DEF Call, IInv, QueueHolds
    <3>2. q \in Seq(Calls) /\ IsInjective(q) /\ ToSet(q) = ToSet(queue) \cup {d}
      BY <3>1, Types, AppendToSet DEF IInv, QueueHolds
    <3>3. cs \in [Calls -> States] /\ cs[c] \notin AtWork
      BY <2>1, Types DEF States, AtWork
    <3>4. ~running
      BY <2>1, <2>3, Types DEF Call, AtWork
    <3>5. GoOn(q, cs)
      BY <2>3, <3>4 DEF Call
    <3> HIDE DEF q, cs
    <3>6. \A t \in Top : t \notin ToSet(q)
      BY <2>1, <3>2, <3>3, <3>5, BeginsTop
    <3> QED BY <2>2, <3>2, <3>6 DEF IInv, QueueHolds
  <2>4. ASSUME NEW d \in Calls, NEW as \in {"done", "failed"},
               GoOn(queue, [call EXCEPT ![d] = as])
        PROVE  \A t \in Top : call[t] # "queued"
    <3> DEFINE cs == [call EXCEPT ![d] = as]
    <3>1. cs \in [Calls -> States] /\ cs[c] \notin AtWork
      BY <2>1, Types DEF States, AtWork
    <3>2. GoOn(queue, cs)
      BY <2>4
    <3> HIDE DEF cs
    <3>3. \A t \in Top : t \notin ToSet(queue)
      BY <2>1, <3>1, <3>2, Types, BeginsTop DEF IInv, QueueHolds
    <3> QED BY <2>2, <3>3 DEF IInv, QueueHolds
  <2>5. ASSUME NEW d \in Calls, \/ LockTaken(d) \/ PauseEnds(d) \/ Send(d) \/ BreaksOff(d)
                                \/ call[d] = "sent" /\ call' = [call EXCEPT ![d] = "delay"]
        PROVE  FALSE
    BY <2>1, <2>5, Types DEF LockTaken, PauseEnds, Send, BreaksOff, AtWork
  <2>6. ASSUME NEW d \in Calls, Call(d) \/ Serve(d) \/ Settling(d)
        PROVE  \A t \in Top : call[t] # "queued"
    BY <2>3, <2>4, <2>5, <2>6
    DEF Serve, Settling, LockBusy, Answered, Transient, Fails, Settle
  <2>7. CASE Restart
    BY <2>1, <2>7 DEF Restart, AtWork
  <2>8. CASE call' = call
    BY <2>1, <2>8
  <2> QED BY <2>6, <2>7, <2>8
      DEF Next, EmbedCall, EmbedSend, EmbedSettles, EmbedBreaksOff, OtherTakes, OtherLeaves,
          GetsLate, vars
<1>2. [][Goes]_vars => TopFirst
  BY PTL DEF TopFirst
<1> QED BY <1>1, <1>2, Invariant, PTL DEF Spec

-----------------------------------------------------------------------------
(* The embeddings of the rows.                                             *)

\* A table of vectors in which each is of its row.
Owned(table) == \A i \in DOMAIN table : table[i] # Embed!None => table[i].of = i

\* The types, the rows there can be, and the vectors of the three tables.
VectorInv ==
    /\ last \in 0..MaxId
    /\ Embed!Rows \subseteq Embed!Ids /\ DOMAIN ssd \subseteq Embed!Ids /\ DOMAIN vec = Embed!Ids
    /\ Owned(emb) /\ Owned(ssd) /\ Owned(vec)
    /\ loop.at = "asks" => Len(loop.ids) \in Nat

\* None is a vector of no row.
LEMMA NoVector == ASSUME NEW i \in Embed!Ids PROVE [of |-> i, dim |-> model] # Embed!None
BY DEF Embed!None, Embed!Ids

\* There is nothing in the tables at first.
LEMMA InitVector == Embed!EmbeddingAssumption /\ Embed!Init => VectorInv
<1> SUFFICES ASSUME Embed!EmbeddingAssumption, Embed!Init PROVE VectorInv
  OBVIOUS
<1>1. /\ DOMAIN emb = {} /\ DOMAIN ssd = {}
      /\ DOMAIN vec = Embed!Ids /\ \A i \in Embed!Ids : vec[i] = Embed!None
  BY DEF Embed!Init
<1>2. loop.at = "off" /\ last = 0 /\ MaxId \in Nat
  BY DEF Embed!Init, Embed!Off, Embed!EmbeddingAssumption
<1> QED BY <1>1, <1>2 DEF VectorInv, Owned, Embed!Rows

\* A new row has no vector and disturbs no other.
LEMMA WithNone ==
    ASSUME NEW table, Owned(table), DOMAIN table \subseteq Embed!Ids, NEW i \in Embed!Ids
    PROVE  /\ Owned(Embed!With(table, i, Embed!None))
           /\ DOMAIN Embed!With(table, i, Embed!None) \subseteq Embed!Ids
BY DEF Owned, Embed!With

\* What is written where got has something stays owned, if got is.
LEMMA WriteKeeps ==
    ASSUME VectorInv, NEW got, Embed!Write(got),
           \A i \in Embed!Ids : got[i] # Embed!None => got[i].of = i
    PROVE  /\ Embed!Rows' = Embed!Rows /\ DOMAIN ssd' = DOMAIN ssd /\ DOMAIN vec' = Embed!Ids
           /\ Owned(emb)' /\ Owned(ssd)' /\ Owned(vec)'
<1>1. emb' = [i \in Embed!Rows |-> IF got[i] # Embed!None THEN got[i] ELSE emb[i]]
  BY DEF Embed!Write
<1>2. \/ ssd' = [i \in DOMAIN ssd |-> IF got[i] # Embed!None THEN got[i] ELSE ssd[i]]
      \/ ssd' = ssd
  BY DEF Embed!Write
<1>3. \/ vec' = [i \in Embed!Ids |-> IF got[i] # Embed!None /\ got[i].dim = dim /\ dim = Embed!TableDim
                                     THEN got[i] ELSE vec[i]]
      \/ vec' = vec
  BY DEF Embed!Write, Embed!Indexed
<1>4. Embed!Rows' = Embed!Rows /\ Owned(emb)'
  BY <1>1 DEF VectorInv, Owned, Embed!Rows
<1>5. DOMAIN ssd' = DOMAIN ssd /\ Owned(ssd)'
  BY <1>2 DEF VectorInv, Owned
<1>6. DOMAIN vec' = Embed!Ids /\ Owned(vec)'
  BY <1>3 DEF VectorInv, Owned
<1> QED BY <1>4, <1>5, <1>6

\* What vecSync copies is of the row it is copied from.
LEMMA SyncedOwned ==
    ASSUME VectorInv, NEW d PROVE Owned(Embed!Synced(d)) /\ DOMAIN Embed!Synced(d) = Embed!Ids
<1> DEFINE ids == Embed!First({i \in Embed!Rows : emb[i] # Embed!None /\ vec[i] = Embed!None}, SyncBatch)
<1>1. \A i \in ids : i \in Embed!Rows /\ emb[i] # Embed!None
  BY DEF Embed!First
<1>2. Embed!Synced(d) = [i \in Embed!Ids |-> IF i \in ids /\ emb[i].dim = d /\ d = Embed!TableDim
                                             THEN emb[i] ELSE vec[i]]
  BY DEF Embed!Synced
<1> HIDE DEF ids
<1> QED BY <1>1, <1>2 DEF VectorInv, Owned, Embed!Rows

\* The length of a list given by its elements.
LEMMA LengthOf ==
    ASSUME NEW n \in Nat, NEW f, f = [k \in 1..n |-> f[k]]
    PROVE  f \in Seq({f[k] : k \in 1..n}) /\ Len(f) = n
<1> DEFINE S == {f[k] : k \in 1..n}
<1>1. f \in [1..n -> S]
  OBVIOUS
<1>2. f \in Seq(S)
  BY <1>1, SeqDef
<1>3. Len(f) \in Nat /\ DOMAIN f = 1..Len(f)
  BY <1>2, LenProperties
<1>4. 1..Len(f) = 1..n
  BY <1>1, <1>3
<1>5. Len(f) = n
  BY <1>3, <1>4
<1> QED BY <1>2, <1>5

\* An answer with one vector left out is not as long as its batch.
LEMMA ShorterAnswer ==
    ASSUME NEW n \in Nat, NEW whole, whole = [k \in 1..n |-> whole[k]], NEW k \in 1..n
    PROVE  Len(Embed!RemoveAt(whole, k)) = n - 1
<1> DEFINE S == {whole[i] : i \in 1..n}
<1>1. whole \in Seq(S) /\ Len(whole) = n
  BY LengthOf
<1> HIDE DEF S
<1>2. SubSeq(whole, 1, k - 1) \in Seq(S) /\ Len(SubSeq(whole, 1, k - 1)) = k - 1
  BY <1>1, SubSeqProperties
<1>3. SubSeq(whole, k + 1, n) \in Seq(S) /\ Len(SubSeq(whole, k + 1, n)) = n - k
  BY <1>1, SubSeqProperties
<1>4. Len(SubSeq(whole, 1, k - 1) \o SubSeq(whole, k + 1, n)) = (k - 1) + (n - k)
  BY <1>2, <1>3, ConcatProperties
<1> QED BY <1>1, <1>4 DEF Embed!RemoveAt

\* The answer that is accepted has the k-th vector for the k-th row.
LEMMA AnsweredKeeps ==
    ASSUME VectorInv, loop.at = "asks",
           NEW answer, Embed!Accepts(answer, loop.ids),
           LET whole == [k \in 1..Len(loop.ids) |-> Embed!Made(loop.ids[k])]
           IN  answer \in {whole} \cup {Embed!RemoveAt(whole, k) : k \in 1..Len(whole)}
    PROVE  \A i \in Embed!Ids :
             Embed!Matched(answer, loop.ids)[i] # Embed!None => Embed!Matched(answer, loop.ids)[i].of = i
<1> DEFINE whole == [k \in 1..Len(loop.ids) |-> Embed!Made(loop.ids[k])]
<1>1. Len(loop.ids) \in Nat
  BY DEF VectorInv
<1>2. Len(whole) = Len(loop.ids)
  BY <1>1, LengthOf
<1>3. answer = whole
  <2>1. \A k \in 1..Len(whole) : Len(Embed!RemoveAt(whole, k)) = Len(loop.ids) - 1
    BY <1>1, <1>2, ShorterAnswer
  <2>2. Len(answer) = Len(loop.ids)
    BY DEF Embed!Accepts
  <2>3. answer = whole \/ \E k \in 1..Len(whole) : answer = Embed!RemoveAt(whole, k)
    OBVIOUS
  <2> HIDE DEF whole
  <2> QED BY <1>1, <2>1, <2>2, <2>3
<1>4. ASSUME NEW i \in Embed!Ids, Embed!Matched(answer, loop.ids)[i] # Embed!None
      PROVE  Embed!Matched(answer, loop.ids)[i].of = i
  <2> DEFINE k == CHOOSE kk \in 1..Len(loop.ids) : loop.ids[kk] = i
  <2>1. \E kk \in 1..Len(loop.ids) : loop.ids[kk] = i
    BY <1>4 DEF Embed!Matched
  <2>2. k \in 1..Len(loop.ids) /\ loop.ids[k] = i
    BY <2>1
  <2>3. Embed!Matched(answer, loop.ids)[i] = answer[k]
    BY <1>4 DEF Embed!Matched
  <2> HIDE DEF k
  <2>4. answer[k] = Embed!Made(i)
    BY <1>3, <2>2
  <2> QED BY <1>4, <2>3, <2>4 DEF Embed!Made
<1> QED BY <1>4

\* The instance has a name of its own for it.
LEMMA SameCardinality == \A S : Embed!Cardinality(S) = Cardinality(S)
BY DEF Embed!Cardinality, Cardinality

\* A batch has a length.
LEMMA BatchLength ==
    ASSUME Embed!EmbeddingAssumption, VectorInv, Embed!LoopAsks
    PROVE  Len(loop'.ids) \in Nat
<1> DEFINE n == IF Batch < Embed!Cardinality(Embed!Backlog) THEN Batch ELSE Embed!Cardinality(Embed!Backlog)
           ids == Embed!Newest(Embed!Backlog, n)
<1>1. n \in Nat
  <2>1. IsFiniteSet(Embed!Backlog)
    <3>1. IsFiniteSet(Embed!Ids)
      BY FS_Interval DEF Embed!Ids, Embed!EmbeddingAssumption
    <3> QED BY <3>1, FS_Subset DEF Embed!Backlog, VectorInv
  <2>2. Embed!Cardinality(Embed!Backlog) \in Nat
    BY <2>1, FS_CardinalityType, SameCardinality
  <2> QED BY <2>2 DEF Embed!EmbeddingAssumption
<1>2. loop'.ids = ids
  <2>1. loop' = Embed!Asking(ids)
    BY DEF Embed!LoopAsks
  <2> HIDE DEF ids
  <2> QED BY <2>1 DEF Embed!Asking
<1> HIDE DEF n
<1>3. ids = [k \in 1..n |-> ids[k]]
  BY DEF Embed!Newest
<1> HIDE DEF ids
<1>4. Len(ids) = n
  BY <1>1, <1>3, LengthOf
<1> QED BY <1>1, <1>2, <1>4

\* Every step keeps it.
LEMMA VectorStep == Embed!EmbeddingAssumption /\ VectorInv /\ [Embed!Next]_Embed!vars => VectorInv'
<1> SUFFICES ASSUME Embed!EmbeddingAssumption, VectorInv, [Embed!Next]_Embed!vars PROVE VectorInv'
  OBVIOUS
<1> USE DEF Embed!tables, Embed!probe, Embed!world
<1>0. CASE UNCHANGED <<Embed!tables, loop>>
  BY <1>0 DEF VectorInv, Owned, Embed!Rows
<1>1. ASSUME UNCHANGED Embed!tables, loop'.at # "asks" PROVE VectorInv'
  BY <1>1 DEF VectorInv, Owned, Embed!Rows
<1>2. CASE Embed!Store
  <2>1. last' \in Embed!Ids /\ last' \in 0..MaxId /\ emb' = Embed!With(emb, last', Embed!None)
        /\ (ssd' = Embed!With(ssd, last', Embed!None) \/ ssd' = ssd) /\ UNCHANGED <<vec, loop>>
    BY <1>2 DEF Embed!Store, VectorInv, Embed!Ids, Embed!EmbeddingAssumption
  <2>2. Owned(emb)' /\ Embed!Rows' \subseteq Embed!Ids
    BY <2>1, WithNone DEF VectorInv, Embed!Rows
  <2>3. Owned(ssd)' /\ DOMAIN ssd' \subseteq Embed!Ids
    BY <2>1, WithNone DEF VectorInv
  <2> QED BY <2>1, <2>2, <2>3 DEF VectorInv, Owned
<1>3. ASSUME NEW i \in Embed!Ids, Embed!Promote(i) PROVE VectorInv'
  <2>1. last' \in Embed!Ids /\ last' \in 0..MaxId /\ emb' = Embed!With(emb, last', Embed!None)
        /\ UNCHANGED <<ssd, vec, loop>>
    BY <1>3 DEF Embed!Promote, VectorInv, Embed!Ids, Embed!EmbeddingAssumption
  <2>2. Owned(emb)' /\ Embed!Rows' \subseteq Embed!Ids
    BY <2>1, WithNone DEF VectorInv, Embed!Rows
  <2> QED BY <2>1, <2>2 DEF VectorInv, Owned
<1>4. ASSUME NEW i \in Embed!Ids, Embed!Delete(i) PROVE VectorInv'
  <2>1. emb' = [j \in Embed!Rows \ {i} |-> emb[j]] /\ UNCHANGED <<last, ssd, vec, loop>>
    BY <1>4 DEF Embed!Delete
  <2> QED BY <2>1 DEF VectorInv, Owned, Embed!Rows
<1>5. CASE Embed!CatchUp
  <2> DEFINE gap == {i \in Embed!Rows : i > Embed!Max(DOMAIN ssd \cup {0})}
  <2>1. /\ ssd' = [i \in DOMAIN ssd \cup gap |-> IF i \in gap THEN emb[i] ELSE ssd[i]]
        /\ UNCHANGED <<last, emb, vec, loop>>
    BY <1>5 DEF Embed!CatchUp
  <2>2. gap \subseteq Embed!Rows
    OBVIOUS
  <2> HIDE DEF gap
  <2> QED BY <2>1, <2>2 DEF VectorInv, Owned, Embed!Rows
<1>6. CASE Embed!InlineAnswers
  <2> DEFINE h == Head(inline)  got == [Embed!Nothing EXCEPT ![h] = Embed!Made(h)]
  <2>1. Embed!Write(got) /\ UNCHANGED <<last, loop>>
    BY <1>6 DEF Embed!InlineAnswers
  <2>2. \A i \in Embed!Ids : got[i] # Embed!None => got[i].of = i
    BY DEF Embed!Nothing, Embed!Made
  <2> HIDE DEF got
  <2> QED BY <2>1, <2>2, WriteKeeps DEF VectorInv
<1>7. CASE Embed!LoopAnswered
  <2>1. loop.at = "asks" /\ UNCHANGED last /\ loop'.at # "asks"
    BY <1>7 DEF Embed!LoopAnswered, Embed!Looking
  <2>2. CASE UNCHANGED <<emb, ssd, vec>>
    BY <2>1, <2>2 DEF VectorInv, Owned, Embed!Rows
  <2>3. CASE ~UNCHANGED <<emb, ssd, vec>>
    <3>1. PICK answer : /\ LET whole == [k \in 1..Len(loop.ids) |-> Embed!Made(loop.ids[k])]
                           IN  answer \in {whole} \cup {Embed!RemoveAt(whole, k) : k \in 1..Len(whole)}
                        /\ Embed!Accepts(answer, loop.ids) /\ Embed!Write(Embed!Matched(answer, loop.ids))
      BY <1>7, <2>3 DEF Embed!LoopAnswered
    <3>2. \A i \in Embed!Ids :
            Embed!Matched(answer, loop.ids)[i] # Embed!None => Embed!Matched(answer, loop.ids)[i].of = i
      BY <2>1, <3>1, AnsweredKeeps
    <3> QED BY <2>1, <3>1, <3>2, WriteKeeps DEF VectorInv
  <2> QED BY <2>2, <2>3
<1>8. CASE Embed!LoopAsks
  BY <1>8, BatchLength DEF Embed!LoopAsks, VectorInv, Owned, Embed!Rows
<1>9. CASE Embed!VecSync
  BY <1>9, SyncedOwned DEF Embed!VecSync, VectorInv, Embed!Rows
<1>10. CASE Embed!SsdSync
  <2> DEFINE ids == Embed!First({i \in Embed!Rows : emb[i] # Embed!None}, SsdBatch)
  <2>1. /\ ssd' = [i \in DOMAIN ssd |-> IF ssd[i] = Embed!None /\ i \in ids THEN emb[i] ELSE ssd[i]]
        /\ UNCHANGED <<last, emb, vec, loop>>
    BY <1>10 DEF Embed!SsdSync
  <2>2. \A i \in ids : i \in Embed!Rows
    BY DEF Embed!First
  <2> HIDE DEF ids
  <2> QED BY <2>1, <2>2 DEF VectorInv, Owned, Embed!Rows
<1>11. CASE Embed!Restart
  <2>1. vec' = Embed!Synced(dim') /\ UNCHANGED <<last, emb, ssd>> /\ loop'.at # "asks"
    BY <1>11 DEF Embed!Restart, Embed!Off
  <2>2. Owned(vec)' /\ DOMAIN vec' = Embed!Ids
    BY <2>1, SyncedOwned DEF Owned
  <2> QED BY <2>1, <2>2 DEF VectorInv, Owned, Embed!Rows
<1>12. CASE \/ Embed!InlineFails \/ Embed!InlineBreaksOff \/ Embed!LoopProbes \/ Embed!CycleProbes
            \/ Embed!Goes \/ Embed!Comes \/ Embed!NewModel
  BY <1>0, <1>12
     DEF Embed!InlineFails, Embed!InlineBreaksOff, Embed!LoopProbes, Embed!CycleProbes,
         Embed!Goes, Embed!Comes, Embed!NewModel
<1>13. CASE Embed!LoopStart \/ Embed!LoopFails \/ Embed!LoopBreaksOff
  BY <1>1, <1>13
     DEF Embed!LoopStart, Embed!LoopFails, Embed!LoopBreaksOff, Embed!Looking, Embed!Hung
<1> QED BY <1>0, <1>2, <1>3, <1>4, <1>5, <1>6, <1>7, <1>8, <1>9, <1>10, <1>11, <1>12, <1>13
        DEF Embed!Next, Embed!vars

\* It says what the property says.
LEMMA VectorGives == VectorInv => Embed!OwnVector
BY DEF VectorInv, Owned, Embed!OwnVector, Embed!Rows

\* A step of the whole is a step of the embeddings or changes nothing of them.
LEMMA EmbedSteps == [PartNext]_all => [Embed!Next]_Embed!vars
BY DEF PartNext, all, embedVars, Embed!vars, Embed!tables, Embed!probe, Embed!world

\* startEmbedLoop, the store handler, vecSync and syncEmbeddingsToSsd: every
\* vector in the primary, the archive and the index is of the row that has it,
\* for every batch size, whatever answers fall short, fail or come late.
THEOREM OwnAlways == PartSpec => []OwnVector
<1>1. PartInit => VectorInv
  <2>1. CASE Embed!Init
    BY <2>1, InitVector, ModelsAssumption
  <2>2. ASSUME PartInit, ~Embed!Init PROVE VectorInv
    <3>1. /\ DOMAIN emb = {} /\ DOMAIN ssd = {} /\ vec = Embed!Nothing /\ last = 0
          /\ loop.at = "hung" /\ MaxId \in Nat
      BY <2>2, ModelsAssumption DEF PartInit, Embed!Hung, Embed!EmbeddingAssumption
    <3> QED BY <3>1 DEF VectorInv, Owned, Embed!Rows, Embed!Nothing
  <2> QED BY <2>1, <2>2
<1>2. VectorInv /\ [PartNext]_all => VectorInv'
  BY VectorStep, EmbedSteps, ModelsAssumption
<1>3. VectorInv => OwnVector
  BY VectorGives DEF OwnVector
<1> QED BY <1>1, <1>2, <1>3, PTL DEF PartSpec
=============================================================================
