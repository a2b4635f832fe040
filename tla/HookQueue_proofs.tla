-------------------------- MODULE HookQueue_proofs --------------------------
(***************************************************************************)
(* Proofs about HookQueue, for every set of entries, any number of         *)
(* drainers and every bound: what can lose an entry, and, step by step,    *)
(* that the queue implements the safety part of Delivery.                  *)
(***************************************************************************)
EXTENDS HookQueue, TLAPS

LineSet == [entry : sent, attempts : 0..MaxAttempts - 1]
DrainerStates == [at : {"idle", "unlink", "post"}, lines : Seq(LineSet), back : Seq(LineSet)]

\* What is in the files and in the drainers was recorded, and a drainer at rest
\* holds nothing.
Shape ==
    /\ sent \subseteq Entries /\ store \subseteq sent
    /\ queue \in Seq(LineSet)
    /\ dead \in Seq(sent) /\ replayed \in 0..Len(dead)
    /\ drain \in [Drainers -> DrainerStates]
    /\ \A d \in Drainers : drain[d].at = "idle" => drain[d] = Idle
    /\ spent \in [fails : Nat, faults : Nat]

-----------------------------------------------------------------------------
(* The entries of a sequence of lines.                                     *)

LEMMA SeqMono == ASSUME NEW S, NEW T, S \subseteq T, NEW s \in Seq(S) PROVE s \in Seq(T)
OBVIOUS

LEMMA EntriesOfEmpty == EntriesOf(<<>>) = {}
BY DEF EntriesOf

LEMMA EntriesOfConcat ==
  ASSUME NEW S, NEW s \in Seq(S), NEW t \in Seq(S)
  PROVE  s \o t \in Seq(S) /\ EntriesOf(s \o t) = EntriesOf(s) \cup EntriesOf(t)
<1>1. /\ Len(s) \in Nat /\ Len(t) \in Nat /\ s \o t \in Seq(S)
      /\ DOMAIN s = 1..Len(s) /\ DOMAIN t = 1..Len(t) /\ DOMAIN (s \o t) = 1..(Len(s) + Len(t))
      /\ \A i \in 1..Len(s) : (s \o t)[i] = s[i]
      /\ \A i \in 1..Len(t) : (s \o t)[Len(s) + i] = t[i]
  OBVIOUS
<1>2. EntriesOf(s) \subseteq EntriesOf(s \o t)
  BY <1>1 DEF EntriesOf
<1>3. EntriesOf(t) \subseteq EntriesOf(s \o t)
  <2> SUFFICES ASSUME NEW i \in 1..Len(t) PROVE t[i].entry \in EntriesOf(s \o t)
    BY <1>1 DEF EntriesOf
  <2>1. Len(s) + i \in DOMAIN (s \o t)
    BY <1>1
  <2> QED BY <1>1, <2>1 DEF EntriesOf
<1>4. ASSUME NEW i \in DOMAIN (s \o t) PROVE (s \o t)[i].entry \in EntriesOf(s) \cup EntriesOf(t)
  <2>1. CASE i \in 1..Len(s) BY <1>1, <2>1 DEF EntriesOf
  <2>2. CASE i \notin 1..Len(s)
    <3>1. i - Len(s) \in 1..Len(t) /\ i = Len(s) + (i - Len(s))
      BY <1>1, <2>2
    <3> QED BY <1>1, <3>1 DEF EntriesOf
  <2> QED BY <2>1, <2>2
<1>5. EntriesOf(s \o t) \subseteq EntriesOf(s) \cup EntriesOf(t)
  BY <1>4 DEF EntriesOf
<1> QED BY <1>1, <1>2, <1>3, <1>5

LEMMA EntriesOfTail ==
  ASSUME NEW S, NEW s \in Seq(S), s # <<>>
  PROVE  /\ Tail(s) \in Seq(S) /\ Head(s) \in S
         /\ EntriesOf(s) = {Head(s).entry} \cup EntriesOf(Tail(s))
<1>1. /\ Len(s) \in Nat \ {0} /\ DOMAIN s = 1..Len(s)
      /\ Tail(s) \in Seq(S) /\ Head(s) = s[1] /\ Head(s) \in S
      /\ DOMAIN Tail(s) = 1..(Len(s) - 1)
      /\ \A i \in 1..(Len(s) - 1) : Tail(s)[i] = s[i + 1]
  OBVIOUS
<1>2. {Head(s).entry} \cup EntriesOf(Tail(s)) \subseteq EntriesOf(s)
  BY <1>1 DEF EntriesOf
<1>3. ASSUME NEW i \in DOMAIN s PROVE s[i].entry \in {Head(s).entry} \cup EntriesOf(Tail(s))
  <2>1. CASE i = 1 BY <1>1, <2>1
  <2>2. CASE i # 1
    <3>1. i - 1 \in 1..(Len(s) - 1) /\ (i - 1) + 1 = i
      BY <1>1, <2>2
    <3> QED BY <1>1, <3>1 DEF EntriesOf
  <2> QED BY <2>1, <2>2
<1>4. EntriesOf(s) \subseteq {Head(s).entry} \cup EntriesOf(Tail(s))
  BY <1>3 DEF EntriesOf
<1> QED BY <1>1, <1>2, <1>4

LEMMA EntriesOfAppend ==
  ASSUME NEW S, NEW s \in Seq(S), NEW x \in S
  PROVE  Append(s, x) \in Seq(S) /\ EntriesOf(Append(s, x)) = EntriesOf(s) \cup {x.entry}
<1>1. /\ Len(s) \in Nat /\ Append(s, x) \in Seq(S) /\ DOMAIN s = 1..Len(s)
      /\ DOMAIN Append(s, x) = 1..(Len(s) + 1)
      /\ \A i \in 1..(Len(s) + 1) : Append(s, x)[i] = IF i = Len(s) + 1 THEN x ELSE s[i]
  OBVIOUS
<1>2. \A y \in EntriesOf(s) \cup {x.entry} : y \in EntriesOf(Append(s, x))
  BY <1>1 DEF EntriesOf
<1>3. \A y \in EntriesOf(Append(s, x)) : y \in EntriesOf(s) \cup {x.entry}
  BY <1>1 DEF EntriesOf
<1> QED BY <1>1, <1>2, <1>3

\* An answer queues nothing, a missing one queues one or two lines.
LEMMA OutcomesAre ==
  ASSUME NEW e, NEW o \in Outcomes(e)
  PROVE  /\ o.ok => o.copies = 0
         /\ ~o.ok => o.copies \in {1, 2}
         /\ o.copies \in {0, 1, 2}
         /\ o.stored \in BOOLEAN
         /\ o.ok \in BOOLEAN
<1>1. CASE o = [ok |-> TRUE, stored |-> TRUE, copies |-> 0] BY <1>1
<1>2. CASE o = [ok |-> TRUE, stored |-> FALSE, copies |-> 0] BY <1>2
<1>3. CASE o = [ok |-> FALSE, stored |-> FALSE, copies |-> 1] BY <1>3
<1>4. ASSUME NEW b \in BOOLEAN, o = [ok |-> FALSE, stored |-> b, copies |-> 2]
      PROVE  ~o.ok /\ o.copies = 2 /\ o.stored \in BOOLEAN /\ o.ok \in BOOLEAN
  BY <1>4
<1> QED BY <1>1, <1>2, <1>3, <1>4 DEF Outcomes

\* What a post of e queues: nothing, or e once or twice.
LEMMA EntriesOfFresh ==
  ASSUME HookQueueAssumption, NEW S, NEW e \in S, NEW o \in Outcomes(e)
  PROVE  /\ Fresh(e, o) \in Seq([entry : S, attempts : 0..MaxAttempts - 1])
         /\ EntriesOf(Fresh(e, o)) = IF o.ok THEN {} ELSE {e}
         /\ o.stored \in BOOLEAN
<1>1. /\ o.ok => o.copies = 0
      /\ ~o.ok => o.copies \in {1, 2}
      /\ o.copies \in {0, 1, 2}
      /\ o.stored \in BOOLEAN
  BY OutcomesAre
<1>2. Line(e, 0) \in [entry : S, attempts : 0..MaxAttempts - 1] /\ Line(e, 0).entry = e
  <2>1. 0 \in 0..MaxAttempts - 1
    BY DEF HookQueueAssumption
  <2> QED BY <2>1 DEF Line
<1>3. Fresh(e, o) \in Seq([entry : S, attempts : 0..MaxAttempts - 1])
  <2> DEFINE T == [entry : S, attempts : 0..MaxAttempts - 1]
  <2>1. [i \in 1..o.copies |-> Line(e, 0)] \in [1..o.copies -> T] /\ o.copies \in Nat
    BY <1>1, <1>2
  <2> HIDE DEF T
  <2>2. [i \in 1..o.copies |-> Line(e, 0)] \in Seq(T)
    BY <2>1
  <2> QED BY <2>2 DEF Fresh, T
<1>4. EntriesOf(Fresh(e, o)) = {Line(e, 0).entry : i \in 1..o.copies}
  BY <1>1 DEF Fresh, EntriesOf
<1>5. CASE o.ok BY <1>1, <1>3, <1>4, <1>5
<1>6. CASE ~o.ok
  <2>1. 1 \in 1..o.copies
    BY <1>1, <1>6
  <2>2. EntriesOf(Fresh(e, o)) = {e}
    BY <1>2, <1>4, <2>1
  <2> QED BY <1>1, <1>3, <1>6, <2>2
<1> QED BY <1>5, <1>6

-----------------------------------------------------------------------------
(* What each step does to the entries, wherever they are.                  *)

\* Every step that leaves what was sent alone keeps the shape, if the sequences
\* and counters it changes keep theirs.
LEMMA ShapeStays ==
  ASSUME Shape, sent' = sent, store' \subseteq sent, queue' \in Seq(LineSet),
         dead' \in Seq(sent), replayed' \in 0..Len(dead'),
         drain' \in [Drainers -> DrainerStates],
         \A d \in Drainers : drain'[d].at = "idle" => drain'[d] = Idle,
         spent' \in [fails : Nat, faults : Nat]
  PROVE  Shape'
BY DEF Shape, LineSet, DrainerStates

\* A failed post or a fault is counted, and nothing else is.
LEMMA SpendType ==
  ASSUME spent \in [fails : Nat, faults : Nat], NEW what \in {"fails", "faults"}, NEW max,
         Spend(what, max)
  PROVE  /\ spent' \in [fails : Nat, faults : Nat]
         /\ what = "faults" => spent'.faults > spent.faults
<1>1. spent' = [spent EXCEPT ![what] = spent[what] + 1]
  BY DEF Spend
<1>2. CASE what = "fails" BY <1>1, <1>2
<1>3. CASE what = "faults" BY <1>1, <1>3
<1> QED BY <1>2, <1>3

\* post(): the server has the entry or not; without an answer it is queued
\* again, and an answer that stored nothing was a fault.
LEMMA PostedEffect ==
  ASSUME Shape, NEW e, NEW o \in Outcomes(e), Posted(e, o)
  PROVE  /\ store' \in {store, store \cup {e}}
         /\ o.ok => e \in store' \/ spent'.faults > spent.faults
         /\ spent' \in [fails : Nat, faults : Nat]
<1>1. o.stored \in BOOLEAN /\ o.ok \in BOOLEAN
  BY OutcomesAre
<1>2. store' = IF o.stored THEN store \cup {e} ELSE store
  BY DEF Posted
<1>3. spent \in [fails : Nat, faults : Nat]
  BY DEF Shape
<1>4. CASE ~o.ok
  <2>1. Spend("fails", MaxFails)
    BY <1>4 DEF Posted
  <2> QED BY <1>2, <1>3, <1>4, <2>1, SpendType
<1>5. CASE o.ok /\ ~o.stored
  <2>1. Spend("faults", MaxFaults)
    BY <1>5 DEF Posted
  <2> QED BY <1>2, <1>3, <2>1, SpendType
<1>6. CASE o.ok /\ o.stored
  <2>1. spent' = spent
    BY <1>6 DEF Posted
  <2> QED BY <1>2, <1>3, <1>6, <2>1
<1> QED BY <1>1, <1>4, <1>5, <1>6

LEMMA RecordEffect ==
  ASSUME HookQueueAssumption, Shape, NEW e \in Entries, Record(e)
  PROVE  /\ Shape'
         /\ e \notin sent /\ sent' = sent \cup {e} /\ store' \in {store, store \cup {e}}
         /\ Waiting' \in {Waiting, Waiting \cup {e}} /\ Aside' = Aside
<1>1. PICK o \in Outcomes(e) : Posted(e, o) /\ queue' = queue \o Fresh(e, o)
  BY DEF Record
<1>2. /\ e \notin sent /\ sent' = sent \cup {e}
      /\ UNCHANGED <<staging, dead, replayed, drain>>
  BY DEF Record, gate
<1>3. store' \in {store, store \cup {e}} /\ spent' \in [fails : Nat, faults : Nat]
  BY <1>1, PostedEffect
<1>4. LineSet \subseteq LineSet'
  BY <1>2 DEF LineSet
<1>5. /\ Fresh(e, o) \in Seq(LineSet') /\ EntriesOf(Fresh(e, o)) \in {{}, {e}}
  BY <1>2, EntriesOfFresh DEF LineSet
<1>6. queue \in Seq(LineSet')
  BY <1>4, SeqMono DEF Shape
<1>7. queue' \in Seq(LineSet') /\ EntriesOf(queue') = EntriesOf(queue) \cup EntriesOf(Fresh(e, o))
  BY <1>1, <1>5, <1>6, EntriesOfConcat
<1>8. drain' \in [Drainers -> DrainerStates']
  <2> SUFFICES ASSUME NEW d \in Drainers PROVE drain[d] \in DrainerStates'
    BY <1>2 DEF Shape
  <2>1. drain[d] \in DrainerStates
    BY DEF Shape
  <2>2. drain[d].lines \in Seq(LineSet') /\ drain[d].back \in Seq(LineSet')
    BY <1>4, <2>1, SeqMono DEF DrainerStates
  <2> QED BY <2>1, <2>2 DEF DrainerStates
<1>9. dead' \in Seq(sent') /\ replayed' \in 0..Len(dead')
  <2>1. dead \in Seq(sent')
    BY <1>2, SeqMono DEF Shape
  <2> QED BY <1>2, <2>1 DEF Shape
<1>10. Shape'
  BY <1>2, <1>3, <1>7, <1>8, <1>9 DEF Shape, Idle
<1>11. Aside' = Aside
  BY <1>2 DEF Aside
<1>12. Waiting' \in {Waiting, Waiting \cup {e}}
  <2>1. Waiting' = Waiting \cup EntriesOf(Fresh(e, o))
    BY <1>2, <1>7 DEF Waiting, InDrain
  <2> QED BY <1>5, <2>1
<1> QED BY <1>2, <1>3, <1>10, <1>11, <1>12

\* A step of one drainer touches what that drainer holds.
LEMMA DrainerMoves ==
  ASSUME Shape, NEW d \in Drainers, NEW r \in DrainerStates, drain' = [drain EXCEPT ![d] = r],
         r.at = "idle" => r = Idle
  PROVE  /\ drain' \in [Drainers -> DrainerStates]
         /\ \A c \in Drainers : drain'[c].at = "idle" => drain'[c] = Idle
         /\ Waiting \cup EntriesOf(queue') \cup EntriesOf(r.lines) \cup EntriesOf(r.back)
              = Waiting' \cup EntriesOf(queue) \cup InDrain(d)
         /\ EntriesOf(r.lines) \cup EntriesOf(r.back) \cup EntriesOf(queue') \subseteq Waiting'
         /\ EntriesOf(queue) \cup InDrain(d) \subseteq Waiting
<1>1. /\ drain' \in [Drainers -> DrainerStates]
      /\ drain'[d] = r /\ \A c \in Drainers \ {d} : drain'[c] = drain[c]
  BY DEF Shape
<1>2. \A c \in Drainers : drain'[c].at = "idle" => drain'[c] = Idle
  BY <1>1 DEF Shape, Idle
<1>3. InDrain(d)' = EntriesOf(r.lines) \cup EntriesOf(r.back)
  BY <1>1 DEF InDrain
<1>4. \A c \in Drainers \ {d} : InDrain(c)' = InDrain(c)
  BY <1>1 DEF InDrain
<1>5. \A x : x \in Waiting <=> x \in EntriesOf(queue) \/ \E c \in Drainers : x \in InDrain(c)
  BY DEF Waiting
<1>6. \A x : x \in Waiting' <=> x \in EntriesOf(queue)' \/ \E c \in Drainers : x \in InDrain(c)'
  BY DEF Waiting
<1>7. EntriesOf(queue)' = EntriesOf(queue')
  BY DEF EntriesOf
<1> HIDE DEF InDrain
<1> QED BY <1>1, <1>2, <1>3, <1>4, <1>5, <1>6, <1>7

\* A drainer's record with new lines.
LEMMA NewLines ==
  ASSUME NEW x \in DrainerStates, NEW l, NEW b
  PROVE  [x EXCEPT !.lines = l, !.back = b] = [at |-> x.at, lines |-> l, back |-> b]
<1> PICK a, l0, b0 : x = [at |-> a, lines |-> l0, back |-> b0]
  BY DEF DrainerStates
<1>1. [x EXCEPT !.lines = l] = [at |-> a, lines |-> l, back |-> b0]
  OBVIOUS
<1>2. [[at |-> a, lines |-> l, back |-> b0] EXCEPT !.back = b] = [at |-> a, lines |-> l, back |-> b]
  OBVIOUS
<1>3. [x EXCEPT !.lines = l, !.back = b] = [[x EXCEPT !.lines = l] EXCEPT !.back = b]
  OBVIOUS
<1> QED BY <1>1, <1>2, <1>3

LEMMA ReadEffect ==
  ASSUME HookQueueAssumption, Shape, NEW d \in Drainers, Read(d)
  PROVE  Shape' /\ Waiting' = Waiting /\ UNCHANGED <<sent, store, dead, replayed>>
<1> DEFINE r == [at |-> "unlink", lines |-> queue, back |-> <<>>]
<1>1. drain[d] = Idle /\ r \in DrainerStates
  BY DEF Read, Shape, DrainerStates
<1>2. drain' = [drain EXCEPT ![d] = r] /\ UNCHANGED <<sent, store, queue, dead, replayed, spent>>
  BY DEF Read, files
<1>3. InDrain(d) = {} /\ EntriesOf(r.lines) = EntriesOf(queue) /\ EntriesOf(r.back) = {}
  BY <1>1, EntriesOfEmpty DEF InDrain, Idle
<1>4. r.at # "idle"
  OBVIOUS
<1> HIDE DEF r
<1>5. /\ drain' \in [Drainers -> DrainerStates]
      /\ \A c \in Drainers : drain'[c].at = "idle" => drain'[c] = Idle
      /\ Waiting \cup EntriesOf(queue) \cup EntriesOf(r.lines) \cup EntriesOf(r.back)
           = Waiting' \cup EntriesOf(queue) \cup InDrain(d)
      /\ EntriesOf(queue) \subseteq Waiting' /\ EntriesOf(queue) \subseteq Waiting
  BY <1>1, <1>2, <1>4, DrainerMoves
<1>6. Waiting' = Waiting
  BY <1>3, <1>5
<1>7. Shape'
  BY <1>2, <1>5, ShapeStays DEF Shape
<1> QED BY <1>2, <1>6, <1>7

LEMMA UnlinkEffect ==
  ASSUME HookQueueAssumption, Shape, NEW d \in Drainers, Unlink(d)
  PROVE  /\ Shape' /\ UNCHANGED <<sent, store, dead, replayed>>
         /\ Waiting' \subseteq Waiting /\ Waiting \ Waiting' \subseteq Appended(d)
<1> DEFINE r == [at |-> "post", lines |-> drain[d].lines, back |-> drain[d].back]
<1>1. drain[d] \in DrainerStates /\ r \in DrainerStates
  BY DEF Shape, DrainerStates
<1>2. UNCHANGED <<sent, store, dead, replayed, spent>> /\ queue' = <<>>
  BY DEF Unlink
<1>3. drain' = [drain EXCEPT ![d] = r]
  <2>1. drain' = [drain EXCEPT ![d] = [drain[d] EXCEPT !.at = "post"]]
    BY DEF Unlink
  <2>2. [drain[d] EXCEPT !.at = "post"] = r
    BY <1>1 DEF DrainerStates
  <2> QED BY <2>1, <2>2
<1>4. EntriesOf(r.lines) \cup EntriesOf(r.back) = InDrain(d) /\ r.at # "idle"
  BY DEF InDrain
<1>5. EntriesOf(drain[d].lines) \subseteq InDrain(d)
  BY DEF InDrain
<1> HIDE DEF r
<1>6. /\ drain' \in [Drainers -> DrainerStates]
      /\ \A c \in Drainers : drain'[c].at = "idle" => drain'[c] = Idle
      /\ Waiting \cup EntriesOf(queue') \cup EntriesOf(r.lines) \cup EntriesOf(r.back)
           = Waiting' \cup EntriesOf(queue) \cup InDrain(d)
      /\ EntriesOf(r.lines) \cup EntriesOf(r.back) \cup EntriesOf(queue') \subseteq Waiting'
      /\ EntriesOf(queue) \cup InDrain(d) \subseteq Waiting
  BY <1>1, <1>3, <1>4, DrainerMoves
<1>7. EntriesOf(queue') = {}
  BY <1>2, EntriesOfEmpty
<1>8. Waiting' \subseteq Waiting /\ Waiting \ Waiting' \subseteq Appended(d)
  BY <1>4, <1>5, <1>6, <1>7 DEF Appended
<1>9. Shape'
  BY <1>2, <1>6, ShapeStays DEF Shape
<1> QED BY <1>2, <1>8, <1>9

\* The line posted is stored, or waits again, or was a fault's.
LEMMA PostLineEffect ==
  ASSUME HookQueueAssumption, Shape, NEW d \in Drainers, PostLine(d)
  PROVE  /\ Shape' /\ UNCHANGED <<sent, replayed>>
         /\ \E e \in sent :
              /\ e \in Waiting /\ store' \in {store, store \cup {e}}
              /\ Waiting' \subseteq Waiting /\ Waiting \ {e} \subseteq Waiting'
              /\ e \in store' \cup Waiting' \/ spent'.faults > spent.faults
              /\ Aside \subseteq Aside' /\ Aside' \subseteq Aside \cup {e}
              /\ e \in Aside' => e \in Aside \cup Waiting'
<1> DEFINE line == Head(drain[d].lines)
           tries == line.attempts + 1
           e == line.entry
<1>1. drain[d] \in DrainerStates /\ drain[d].at = "post" /\ drain[d].lines # <<>>
  BY DEF PostLine, Shape
<1>2. /\ Tail(drain[d].lines) \in Seq(LineSet) /\ line \in LineSet
      /\ EntriesOf(drain[d].lines) = {e} \cup EntriesOf(Tail(drain[d].lines))
  BY <1>1, EntriesOfTail DEF DrainerStates
<1>3. PICK o \in Outcomes(e) :
        /\ Posted(e, o)
        /\ queue' = queue \o Fresh(e, o)
        /\ dead' = IF ~o.ok /\ tries >= MaxAttempts THEN Append(dead, e) ELSE dead
        /\ drain' = [drain EXCEPT ![d].lines = Tail(@),
                                  ![d].back  = IF ~o.ok /\ tries < MaxAttempts
                                               THEN Append(@, Line(e, tries)) ELSE @]
  BY DEF PostLine
<1> DEFINE back == IF ~o.ok /\ tries < MaxAttempts
                   THEN Append(drain[d].back, Line(e, tries)) ELSE drain[d].back
           r == [at |-> "post", lines |-> Tail(drain[d].lines), back |-> back]
<1>4. e \in sent /\ line.attempts \in 0..MaxAttempts - 1
  BY <1>2 DEF LineSet
<1>5. UNCHANGED <<sent, replayed>>
  BY DEF PostLine
<1>6. o.ok \in BOOLEAN /\ Fresh(e, o) \in Seq(LineSet) /\ EntriesOf(Fresh(e, o)) = IF o.ok THEN {} ELSE {e}
  BY <1>4, OutcomesAre, EntriesOfFresh DEF LineSet
<1>7. /\ queue' \in Seq(LineSet)
      /\ EntriesOf(queue') = EntriesOf(queue) \cup (IF o.ok THEN {} ELSE {e})
  BY <1>3, <1>6, EntriesOfConcat DEF Shape
<1>8. /\ store' \in {store, store \cup {e}}
      /\ o.ok => e \in store' \/ spent'.faults > spent.faults
      /\ spent' \in [fails : Nat, faults : Nat]
  BY <1>3, PostedEffect
<1>9. /\ back \in Seq(LineSet)
      /\ EntriesOf(drain[d].back) \subseteq EntriesOf(back)
      /\ EntriesOf(back) \subseteq EntriesOf(drain[d].back) \cup (IF o.ok THEN {} ELSE {e})
  <2>1. drain[d].back \in Seq(LineSet)
    BY <1>1 DEF DrainerStates
  <2>2. CASE ~o.ok /\ tries < MaxAttempts
    <3>1. Line(e, tries) \in LineSet /\ Line(e, tries).entry = e
      BY <1>4, <2>2, HookQueueAssumption DEF Line, LineSet
    <3>2. back = Append(drain[d].back, Line(e, tries))
      BY <2>2
    <3> HIDE DEF back
    <3> QED BY <2>1, <2>2, <3>1, <3>2, EntriesOfAppend
  <2>3. CASE ~(~o.ok /\ tries < MaxAttempts)
    BY <2>1, <2>3
  <2> QED BY <2>2, <2>3
<1>10. drain' = [drain EXCEPT ![d] = r]
  <2>1. drain' = [drain EXCEPT ![d] = [drain[d] EXCEPT !.lines = Tail(drain[d].lines), !.back = back]]
    <3> HIDE DEF tries, line, e
    <3>1. \A c \in Drainers :
             drain'[c] = IF c = d THEN [drain[c] EXCEPT !.lines = Tail(@), !.back = back] ELSE drain[c]
      BY <1>1, <1>3 DEF Shape
    <3> QED BY <1>3, <3>1 DEF Shape
  <2> HIDE DEF back
  <2>2. [drain[d] EXCEPT !.lines = Tail(drain[d].lines), !.back = back] = r
    BY <1>1, NewLines
  <2> QED BY <2>1, <2>2
<1>11. r \in DrainerStates /\ r.at # "idle" /\ r.lines = Tail(drain[d].lines) /\ r.back = back
  BY <1>2, <1>9 DEF DrainerStates
<1>12. /\ dead' \in Seq(sent) /\ replayed' \in 0..Len(dead')
       /\ Aside \subseteq Aside' /\ Aside' \subseteq Aside \cup {e}
       /\ Aside' # Aside => ~o.ok
  <2>1. CASE dead' = dead
    BY <1>5, <2>1 DEF Shape, Aside
  <2>2. CASE ~o.ok /\ dead' = Append(dead, e)
    <3>1. /\ dead \in Seq(sent) /\ Len(dead) \in Nat /\ replayed \in 0..Len(dead)
          /\ dead' \in Seq(sent) /\ Len(dead') = Len(dead) + 1 /\ replayed' = replayed
          /\ \A i \in 1..Len(dead) : dead'[i] = dead[i]
          /\ dead'[Len(dead) + 1] = e
      BY <1>4, <1>5, <2>2 DEF Shape
    <3>2. Aside \subseteq Aside'
      BY <3>1 DEF Aside
    <3>3. Aside' \subseteq Aside \cup {e}
      BY <3>1 DEF Aside
    <3> QED BY <2>2, <3>1, <3>2, <3>3
  <2> QED BY <1>3, <2>1, <2>2
<1> HIDE DEF r, back, e, line, tries
<1>13. /\ drain' \in [Drainers -> DrainerStates]
       /\ \A c \in Drainers : drain'[c].at = "idle" => drain'[c] = Idle
       /\ Waiting \cup EntriesOf(queue') \cup EntriesOf(r.lines) \cup EntriesOf(r.back)
            = Waiting' \cup EntriesOf(queue) \cup InDrain(d)
       /\ EntriesOf(r.lines) \cup EntriesOf(r.back) \cup EntriesOf(queue') \subseteq Waiting'
       /\ EntriesOf(queue) \cup InDrain(d) \subseteq Waiting
  BY <1>10, <1>11, DrainerMoves
<1>14. InDrain(d) = {e} \cup EntriesOf(Tail(drain[d].lines)) \cup EntriesOf(drain[d].back)
  BY <1>2 DEF InDrain
<1>15. e \in Waiting /\ Waiting' \subseteq Waiting /\ Waiting \ {e} \subseteq Waiting'
  BY <1>7, <1>9, <1>11, <1>13, <1>14
<1>16. ~o.ok => e \in Waiting'
  BY <1>7, <1>13
<1>17. Shape'
  <2>1. store' \subseteq sent
    BY <1>4, <1>8 DEF Shape
  <2> QED BY <1>5, <1>7, <1>8, <1>12, <1>13, <2>1, ShapeStays
<1>18. /\ e \in store' \cup Waiting' \/ spent'.faults > spent.faults
       /\ e \in Aside' => e \in Aside \cup Waiting'
  BY <1>6, <1>8, <1>12, <1>16
<1> QED BY <1>4, <1>5, <1>8, <1>12, <1>15, <1>17, <1>18

LEMMA WriteBackEffect ==
  ASSUME HookQueueAssumption, Shape, NEW d \in Drainers, WriteBack(d)
  PROVE  Shape' /\ Waiting' = Waiting /\ UNCHANGED <<sent, store, dead, replayed>>
<1>1. /\ drain[d] \in DrainerStates /\ drain[d].lines = <<>>
      /\ queue' = queue \o drain[d].back /\ drain' = [drain EXCEPT ![d] = Idle]
      /\ UNCHANGED <<sent, store, dead, replayed, spent>>
  BY DEF WriteBack, Shape
<1>2. Idle \in DrainerStates /\ EntriesOf(Idle.lines) = {} /\ EntriesOf(Idle.back) = {}
  BY EntriesOfEmpty DEF Idle, DrainerStates
<1>3. queue' \in Seq(LineSet) /\ EntriesOf(queue') = EntriesOf(queue) \cup EntriesOf(drain[d].back)
  BY <1>1, EntriesOfConcat DEF Shape, DrainerStates
<1>4. InDrain(d) = EntriesOf(drain[d].back)
  BY <1>1, EntriesOfEmpty DEF InDrain
<1>5. /\ drain' \in [Drainers -> DrainerStates]
      /\ \A c \in Drainers : drain'[c].at = "idle" => drain'[c] = Idle
      /\ Waiting \cup EntriesOf(queue') \cup EntriesOf(Idle.lines) \cup EntriesOf(Idle.back)
           = Waiting' \cup EntriesOf(queue) \cup InDrain(d)
      /\ EntriesOf(queue') \subseteq Waiting'
      /\ EntriesOf(queue) \cup InDrain(d) \subseteq Waiting
  BY <1>1, <1>2, DrainerMoves
<1>6. Waiting' = Waiting
  BY <1>2, <1>3, <1>4, <1>5
<1>7. Shape'
  BY <1>1, <1>3, <1>5, ShapeStays DEF Shape
<1> QED BY <1>1, <1>6, <1>7

LEMMA KilledEffect ==
  ASSUME HookQueueAssumption, Shape, NEW d \in Drainers, Killed(d)
  PROVE  /\ Shape' /\ UNCHANGED <<sent, store, dead, replayed>>
         /\ Waiting' \subseteq Waiting /\ spent'.faults > spent.faults
<1>1. /\ drain' = [drain EXCEPT ![d] = Idle] /\ Spend("faults", MaxFaults)
      /\ UNCHANGED <<sent, store, queue, dead, replayed>>
  BY DEF Killed, files
<1>2. Idle \in DrainerStates /\ EntriesOf(Idle.lines) = {} /\ EntriesOf(Idle.back) = {}
  BY EntriesOfEmpty DEF Idle, DrainerStates
<1>3. spent' \in [fails : Nat, faults : Nat] /\ spent'.faults > spent.faults
  BY <1>1, SpendType DEF Shape
<1>4. /\ drain' \in [Drainers -> DrainerStates]
      /\ \A c \in Drainers : drain'[c].at = "idle" => drain'[c] = Idle
      /\ Waiting \cup EntriesOf(queue') \cup EntriesOf(Idle.lines) \cup EntriesOf(Idle.back)
           = Waiting' \cup EntriesOf(queue) \cup InDrain(d)
      /\ EntriesOf(queue) \cup InDrain(d) \subseteq Waiting
  BY <1>1, <1>2, DrainerMoves
<1>5. Waiting' \subseteq Waiting
  BY <1>1, <1>2, <1>4
<1>6. Shape'
  BY <1>1, <1>3, <1>4, ShapeStays DEF Shape
<1> QED BY <1>1, <1>3, <1>5, <1>6

\* A line put aside is replayed: once more it is stored or not.
LEMMA ReplayEffect ==
  ASSUME HookQueueAssumption, Shape, ReplayLine
  PROVE  /\ Shape' /\ UNCHANGED sent /\ Waiting' = Waiting
         /\ \E e \in sent :
              /\ e \in Aside /\ store' \in {store, store \cup {e}}
              /\ Aside \subseteq Aside' \cup {e} /\ Aside' \subseteq Aside
<1> DEFINE e == dead[replayed + 1]
<1>1. /\ dead \in Seq(sent) /\ replayed \in 0..Len(dead) /\ replayed < Len(dead)
      /\ Len(dead) \in Nat
  BY DEF Shape, ReplayLine
<1>2. e \in sent
  BY <1>1
<1>3. /\ replayed' = replayed + 1 /\ UNCHANGED <<sent, queue, dead, drain>>
      /\ store' \in {store, store \cup {e}}
  BY DEF ReplayLine
<1>4. spent' \in [fails : Nat, faults : Nat]
  BY SpendType DEF ReplayLine, Shape
<1>5. replayed' \in 0..Len(dead')
  BY <1>1, <1>3
<1>6. Shape'
  <2>1. store' \subseteq sent
    BY <1>2, <1>3 DEF Shape
  <2> HIDE DEF e
  <2> QED BY <1>3, <1>4, <1>5, <2>1, ShapeStays DEF Shape
<1>7. Waiting' = Waiting
  BY <1>3 DEF Waiting, InDrain
<1>8. e \in Aside /\ Aside \subseteq Aside' \cup {e} /\ Aside' \subseteq Aside
  <2>1. replayed + 1 \in replayed + 1..Len(dead)
    BY <1>1
  <2>2. \A i \in replayed + 1..Len(dead) : i = replayed + 1 \/ i \in replayed + 1 + 1..Len(dead)
    BY <1>1
  <2>3. \A i \in replayed + 1 + 1..Len(dead) : i \in replayed + 1..Len(dead)
    BY <1>1
  <2> QED BY <1>3, <2>1, <2>2, <2>3 DEF Aside
<1> QED BY <1>2, <1>3, <1>6, <1>7, <1>8

\* The gate moves no entry; nor does a step that stutters.
LEMMA GateEffect ==
  ASSUME Shape, (\E s \in Usage : Tool(s) \/ GraceEnds(s) \/ FlagExpires(s)) \/ UNCHANGED vars
  PROVE  /\ Shape' /\ UNCHANGED <<sent, store, queue, dead, replayed, drain>>
         /\ Waiting' = Waiting /\ Aside' = Aside
<1>1. UNCHANGED <<sent, store, queue, dead, replayed, drain>>
  BY DEF Tool, GraceEnds, FlagExpires, vars, files
<1>2. spent' \in [fails : Nat, faults : Nat]
  <2>1. ASSUME NEW s \in Usage, Tool(s) PROVE spent' = spent \/ Spend("fails", MaxFails)
    BY <2>1 DEF Tool
  <2> QED BY <2>1, SpendType DEF Shape, GraceEnds, FlagExpires, vars
<1>3. Shape'
  BY <1>1, <1>2, ShapeStays DEF Shape
<1>4. Waiting' = Waiting
  BY <1>1 DEF Waiting, InDrain
<1>5. Aside' = Aside
  BY <1>1 DEF Aside
<1> QED BY <1>1, <1>3, <1>4, <1>5

LEMMA SameAside == ASSUME UNCHANGED <<dead, replayed>> PROVE Aside' = Aside
BY DEF Aside

LEMMA InitShape == Init => Shape
<1> SUFFICES ASSUME Init PROVE Shape
  OBVIOUS
<1>1. Idle \in DrainerStates
  BY DEF Idle, DrainerStates
<1> QED BY <1>1 DEF Init, Shape, LineSet

LEMMA ShapeStep == Shape /\ [Next]_vars => Shape'
<1> SUFFICES ASSUME Shape, [Next]_vars PROVE Shape'
  OBVIOUS
<1> USE HookQueueAssumption
<1>1. ASSUME NEW e \in Entries, Record(e) PROVE Shape' BY <1>1, RecordEffect
<1>2. ASSUME NEW d \in Drainers, Read(d) PROVE Shape' BY <1>2, ReadEffect
<1>3. ASSUME NEW d \in Drainers, Unlink(d) PROVE Shape' BY <1>3, UnlinkEffect
<1>4. ASSUME NEW d \in Drainers, PostLine(d) PROVE Shape' BY <1>4, PostLineEffect
<1>5. ASSUME NEW d \in Drainers, WriteBack(d) PROVE Shape' BY <1>5, WriteBackEffect
<1>6. ASSUME NEW d \in Drainers, Killed(d) PROVE Shape' BY <1>6, KilledEffect
<1>7. CASE ReplayLine BY <1>7, ReplayEffect
<1>8. CASE (\E s \in Usage : Tool(s) \/ GraceEnds(s) \/ FlagExpires(s)) \/ UNCHANGED vars
  BY <1>8, GateEffect
<1> QED BY <1>1, <1>2, <1>3, <1>4, <1>5, <1>6, <1>7, <1>8, Zenon DEF Next

\* Whatever the files and the drainers hold was recorded by a hook.
THEOREM Invariant == Spec => []Shape
  BY InitShape, ShapeStep, PTL DEF Spec

-----------------------------------------------------------------------------
(* What can lose an entry.                                                 *)

LEMMA LossStep ==
  ASSUME Shape, [Next]_vars, NEW e \in sent, e \in Kept, e \notin Kept'
  PROVE  \/ spent'.faults > spent.faults
         \/ \E d \in Drainers : Unlink(d) /\ e \in Appended(d)
         \/ ReplayLine
<1> DEFINE Loss == \/ spent'.faults > spent.faults
                   \/ \E d \in Drainers : Unlink(d) /\ e \in Appended(d)
                   \/ ReplayLine
<1> USE HookQueueAssumption
<1>0. /\ e \in store \/ e \in Waiting \/ e \in Aside
      /\ e \notin store' /\ e \notin Waiting' /\ e \notin Aside'
  BY DEF Kept
<1>1. ASSUME NEW f \in Entries, Record(f) PROVE FALSE
  BY <1>0, <1>1, RecordEffect
<1>2. ASSUME NEW d \in Drainers, Read(d) \/ WriteBack(d) PROVE FALSE
  BY <1>0, <1>2, ReadEffect, WriteBackEffect, SameAside
<1>3. ASSUME NEW d \in Drainers, Unlink(d) PROVE e \in Appended(d)
  BY <1>0, <1>3, UnlinkEffect, SameAside
<1>4. ASSUME NEW d \in Drainers, PostLine(d) PROVE spent'.faults > spent.faults
  <2>1. PICK f \in sent :
              /\ store' \in {store, store \cup {f}} /\ Waiting \ {f} \subseteq Waiting'
              /\ f \in store' \cup Waiting' \/ spent'.faults > spent.faults
              /\ Aside \subseteq Aside'
    BY <1>4, PostLineEffect
  <2>2. e = f
    BY <1>0, <2>1
  <2> QED BY <1>0, <2>1, <2>2
<1>5. ASSUME NEW d \in Drainers, Killed(d) PROVE spent'.faults > spent.faults
  BY <1>5, KilledEffect
<1>6. ASSUME (\E s \in Usage : Tool(s) \/ GraceEnds(s) \/ FlagExpires(s)) \/ UNCHANGED vars
      PROVE  FALSE
  <2>1. store' = store /\ Waiting' = Waiting /\ Aside' = Aside
    BY <1>6, GateEffect
  <2> QED BY <1>0, <2>1
<1> QED BY <1>1, <1>2, <1>3, <1>4, <1>5, <1>6, Zenon DEF Next

\* "No AI context is lost" but in the window between a drainer's read and its
\* unlink: while the server refuses nothing, no drainer is killed and nothing
\* put aside is replayed, every other step of any number of hooks and drainers
\* keeps every entry.
THEOREM LossesAre == Spec => LostOnlyBetweenReadAndUnlink
<1> DEFINE A == \A e \in sent : e \in Kept /\ e \notin Kept' =>
                   \/ spent'.faults > spent.faults
                   \/ \E d \in Drainers : Unlink(d) /\ e \in Appended(d)
                   \/ ReplayLine
<1>1. Shape /\ [Next]_vars => [A]_vars
  BY LossStep
<1>2. Spec => [][A]_vars
  BY <1>1, Invariant, PTL DEF Spec
<1> QED BY <1>2 DEF LostOnlyBetweenReadAndUnlink

-----------------------------------------------------------------------------
(* The queue implements Delivery, but for its liveness: every step is one   *)
(* of the promise's, or leaves what became of every entry as it was.       *)

Status == [e \in Entries |-> StatusOf(e)]

\* What StatusOf says, for an entry known to be somewhere.
StatusFits ==
    \A e \in Entries :
        /\ e \notin sent => StatusOf(e) = "unsent"
        /\ e \in store => StatusOf(e) = "stored"
        /\ e \in sent /\ e \notin store /\ e \in Waiting => StatusOf(e) = "waiting"
        /\ e \notin store /\ e \notin Waiting /\ e \in Aside => StatusOf(e) = "aside"
        /\ e \in sent /\ e \notin store /\ e \notin Waiting /\ e \notin Aside
              => StatusOf(e) = "lost"

LEMMA AsideSent == ASSUME Shape PROVE Aside \subseteq sent
<1>1. /\ dead \in Seq(sent) /\ replayed \in Nat /\ Len(dead) \in Nat
  BY DEF Shape
<1>2. \A i \in replayed + 1..Len(dead) : dead[i] \in sent
  BY <1>1
<1> QED BY <1>2 DEF Aside

LEMMA StatusHolds == Shape => StatusFits
<1> SUFFICES ASSUME Shape, NEW e \in Entries
             PROVE  /\ e \notin sent => StatusOf(e) = "unsent"
                    /\ e \in store => StatusOf(e) = "stored"
                    /\ e \in sent /\ e \notin store /\ e \in Waiting => StatusOf(e) = "waiting"
                    /\ e \notin store /\ e \notin Waiting /\ e \in Aside => StatusOf(e) = "aside"
                    /\ e \in sent /\ e \notin store /\ e \notin Waiting /\ e \notin Aside
                          => StatusOf(e) = "lost"
  BY DEF StatusFits
<1>1. store \subseteq sent /\ Aside \subseteq sent
  BY AsideSent DEF Shape
<1> QED BY <1>1 DEF StatusOf

LEMMA StatusHoldsNext == Shape' => StatusFits'
BY StatusHolds, PTL

\* An entry the step does not touch stays what it is.
LEMMA SameStatus ==
  ASSUME StatusFits, StatusFits', NEW e \in Entries,
         e \in sent' <=> e \in sent, e \in store' <=> e \in store,
         e \in Waiting' <=> e \in Waiting, e \in Aside' <=> e \in Aside,
         Shape
  PROVE  StatusOf(e)' = StatusOf(e)
<1>1. store \subseteq sent
  BY DEF Shape
<1>2. CASE e \notin sent BY <1>2 DEF StatusFits
<1>3. CASE e \in store BY <1>3 DEF StatusFits
<1>4. CASE e \in sent /\ e \notin store /\ e \in Waiting BY <1>4 DEF StatusFits
<1>5. CASE e \notin store /\ e \notin Waiting /\ e \in Aside BY <1>5 DEF StatusFits
<1>6. CASE e \in sent /\ e \notin store /\ e \notin Waiting /\ e \notin Aside
  BY <1>6 DEF StatusFits
<1> QED BY <1>2, <1>3, <1>4, <1>5, <1>6

\* The promise's moves, in terms of StatusOf.
LEMMA MoveOf ==
  ASSUME NEW e \in Entries, NEW from, NEW to, StatusOf(e) = from, StatusOf(e)' = to,
         \A x \in Entries \ {e} : StatusOf(x)' = StatusOf(x)
  PROVE  Promise!Move(e, from, to)
<1> HIDE DEF StatusOf
<1>1. [x \in Entries |-> StatusOf(x)][e] = from
  OBVIOUS
<1>2. [x \in Entries |-> StatusOf(x)]' = [[x \in Entries |-> StatusOf(x)] EXCEPT ![e] = to]
  OBVIOUS
<1> QED BY <1>1, <1>2 DEF Promise!Move

LEMMA DropOf ==
  ASSUME NEW es \in SUBSET Entries, es # {},
         \A x \in es : StatusOf(x) = "waiting" /\ StatusOf(x)' \in {"aside", "lost"},
         \A x \in Entries \ es : StatusOf(x)' = StatusOf(x)
  PROVE  Promise!Drop(es)
<1> HIDE DEF StatusOf
<1> DEFINE to == [x \in es |-> StatusOf(x)']
<1>1. to \in [es -> {"aside", "lost"}]
  OBVIOUS
<1>2. \A x \in es : [y \in Entries |-> StatusOf(y)][x] = "waiting"
  OBVIOUS
<1>3. [x \in Entries |-> StatusOf(x)]'
        = [x \in Entries |-> IF x \in es THEN to[x] ELSE [y \in Entries |-> StatusOf(y)][x]]
  OBVIOUS
<1> HIDE DEF to
<1> QED BY <1>1, <1>2, <1>3 DEF Promise!Drop

LEMMA StutterOf ==
  ASSUME \A x \in Entries : StatusOf(x)' = StatusOf(x)
  PROVE  Status' = Status
BY DEF Status

\* One entry changes: from what it was to what it is, or nothing does.
LEMMA OneChanges ==
  ASSUME Shape, StatusFits, StatusFits', NEW e \in Entries,
         \A x \in Entries \ {e} : /\ x \in sent' <=> x \in sent
                                  /\ x \in store' <=> x \in store
                                  /\ x \in Waiting' <=> x \in Waiting
                                  /\ x \in Aside' <=> x \in Aside
  PROVE  /\ \A x \in Entries \ {e} : StatusOf(x)' = StatusOf(x)
         /\ StatusOf(e)' = StatusOf(e) => Status' = Status
<1>1. \A x \in Entries \ {e} : StatusOf(x)' = StatusOf(x)
  BY SameStatus
<1> QED BY <1>1, StutterOf

LEMMA SendStep ==
  ASSUME Shape, Shape', StatusFits, StatusFits', NEW e \in Entries, Record(e)
  PROVE  Promise!Send(e)
<1>1. /\ e \notin sent /\ sent' = sent \cup {e} /\ store' \in {store, store \cup {e}}
      /\ Waiting' \in {Waiting, Waiting \cup {e}} /\ Aside' = Aside
  BY HookQueueAssumption, RecordEffect
<1>2. \A x \in Entries \ {e} : StatusOf(x)' = StatusOf(x)
  BY <1>1, OneChanges
<1>3. StatusOf(e) = "unsent"
  BY <1>1 DEF StatusFits
<1>4. e \in sent' /\ e \notin Aside'
  BY <1>1, AsideSent
<1>5. StatusOf(e)' \in {"stored", "waiting", "lost"}
  BY <1>4 DEF StatusFits
<1>6. Promise!Move(e, "unsent", StatusOf(e)')
  BY <1>2, <1>3, MoveOf
<1> QED BY <1>5, <1>6 DEF Promise!Send

\* Steps that at most take entries from those that wait.
LEMMA DropStep ==
  ASSUME Shape, Shape', StatusFits, StatusFits',
         UNCHANGED sent, UNCHANGED store, Aside' = Aside, Waiting' \subseteq Waiting
  PROVE  Promise!Next \/ Status' = Status
<1> DEFINE es == {x \in Entries : x \in sent /\ x \notin store /\ x \in Waiting /\ x \notin Waiting'}
<1>1. \A x \in Entries \ es : StatusOf(x)' = StatusOf(x)
  <2> SUFFICES ASSUME NEW x \in Entries \ es PROVE StatusOf(x)' = StatusOf(x)
    OBVIOUS
  <2>1. CASE x \in Waiting' <=> x \in Waiting
    BY <2>1, SameStatus
  <2>2. CASE x \in store
    BY <2>2 DEF StatusFits
  <2>3. CASE x \notin sent
    BY <2>3 DEF StatusFits
  <2> QED BY <2>1, <2>2, <2>3
<1>2. \A x \in es : StatusOf(x) = "waiting" /\ StatusOf(x)' \in {"aside", "lost"}
  BY DEF StatusFits
<1>3. CASE es = {}
  BY <1>1, <1>3, StutterOf
<1>4. CASE es # {}
  <2>1. es \in SUBSET Entries
    OBVIOUS
  <2> HIDE DEF es
  <2>2. Promise!Drop(es)
    BY <1>1, <1>2, <1>4, <2>1, DropOf
  <2> QED BY <2>1, <2>2 DEF Promise!Next
<1> QED BY <1>3, <1>4

LEMMA PostStep ==
  ASSUME Shape, Shape', StatusFits, StatusFits', NEW d \in Drainers, PostLine(d)
  PROVE  Promise!Next \/ Status' = Status
<1>1. PICK e \in sent :
        /\ e \in Waiting /\ store' \in {store, store \cup {e}}
        /\ Waiting' \subseteq Waiting /\ Waiting \ {e} \subseteq Waiting'
        /\ Aside \subseteq Aside' /\ Aside' \subseteq Aside \cup {e}
        /\ UNCHANGED sent
  BY HookQueueAssumption, PostLineEffect
<1>2. e \in Entries
  BY DEF Shape
<1>3. /\ \A x \in Entries \ {e} : StatusOf(x)' = StatusOf(x)
      /\ StatusOf(e)' = StatusOf(e) => Status' = Status
  BY <1>1, <1>2, OneChanges
<1>4. CASE e \in store
  BY <1>1, <1>2, <1>3, <1>4 DEF StatusFits
<1>5. CASE e \notin store
  <2>1. StatusOf(e) = "waiting"
    BY <1>1, <1>2, <1>5 DEF StatusFits
  <2>2. CASE e \in store'
    <3>1. StatusOf(e)' = "stored"
      BY <1>2, <2>2 DEF StatusFits
    <3>2. Promise!Deliver(e)
      BY <1>2, <1>3, <2>1, <3>1, MoveOf DEF Promise!Deliver
    <3> QED BY <1>2, <3>2 DEF Promise!Next
  <2>3. CASE e \notin store' /\ e \in Waiting'
    BY <1>1, <1>2, <1>3, <2>1, <2>3 DEF StatusFits
  <2>4. CASE e \notin store' /\ e \notin Waiting'
    <3>1. StatusOf(e)' \in {"aside", "lost"}
      BY <1>1, <1>2, <2>4 DEF StatusFits
    <3>2. Promise!Drop({e})
      BY <1>2, <1>3, <2>1, <3>1, DropOf
    <3> QED BY <1>2, <3>2 DEF Promise!Next
  <2> QED BY <2>2, <2>3, <2>4
<1> QED BY <1>4, <1>5

LEMMA ReplayStep ==
  ASSUME Shape, Shape', StatusFits, StatusFits', ReplayLine
  PROVE  Promise!Next \/ Status' = Status
<1>1. PICK e \in sent :
        /\ e \in Aside /\ store' \in {store, store \cup {e}} /\ Waiting' = Waiting
        /\ Aside \subseteq Aside' \cup {e} /\ Aside' \subseteq Aside
        /\ UNCHANGED sent
  BY HookQueueAssumption, ReplayEffect
<1>2. e \in Entries
  BY DEF Shape
<1>3. /\ \A x \in Entries \ {e} : StatusOf(x)' = StatusOf(x)
      /\ StatusOf(e)' = StatusOf(e) => Status' = Status
  BY <1>1, <1>2, OneChanges
<1>4. CASE e \in store
  BY <1>1, <1>2, <1>3, <1>4 DEF StatusFits
<1>5. CASE e \notin store /\ e \in Waiting
  <2>1. StatusOf(e) = "waiting"
    BY <1>1, <1>2, <1>5 DEF StatusFits
  <2>2. CASE e \in store'
    <3>1. StatusOf(e)' = "stored"
      BY <1>2, <2>2 DEF StatusFits
    <3>2. Promise!Deliver(e)
      BY <1>2, <1>3, <2>1, <3>1, MoveOf DEF Promise!Deliver
    <3> QED BY <1>2, <3>2 DEF Promise!Next
  <2>3. CASE e \notin store'
    BY <1>1, <1>2, <1>3, <1>5, <2>1, <2>3 DEF StatusFits
  <2> QED BY <2>2, <2>3
<1>6. CASE e \notin store /\ e \notin Waiting
  <2>1. StatusOf(e) = "aside"
    BY <1>1, <1>2, <1>6 DEF StatusFits
  <2>2. CASE e \notin store' /\ e \in Aside'
    BY <1>1, <1>2, <1>3, <1>6, <2>1, <2>2 DEF StatusFits
  <2>3. CASE e \in store' \/ e \notin Aside'
    <3>1. StatusOf(e)' \in {"stored", "lost"}
      BY <1>1, <1>2, <1>6, <2>3 DEF StatusFits
    <3>2. Promise!Move(e, "aside", StatusOf(e)')
      BY <1>2, <1>3, <2>1, MoveOf
    <3>3. Promise!Replay(e)
      BY <3>1, <3>2 DEF Promise!Replay
    <3> QED BY <1>2, <3>3 DEF Promise!Next
  <2> QED BY <2>2, <2>3
<1> QED BY <1>4, <1>5, <1>6

LEMMA PromiseStep ==
  ASSUME Shape, Shape', StatusFits, StatusFits', [Next]_vars
  PROVE  Promise!Next \/ Status' = Status
<1> USE HookQueueAssumption
<1>1. ASSUME NEW e \in Entries, Record(e) PROVE Promise!Next
  BY <1>1, SendStep DEF Promise!Next
<1>2. ASSUME NEW d \in Drainers, Read(d) \/ WriteBack(d)
      PROVE  Promise!Next \/ Status' = Status
  <2>1. UNCHANGED <<sent, store, dead, replayed>> /\ Waiting' = Waiting
    BY <1>2, ReadEffect, WriteBackEffect
  <2> QED BY <2>1, SameAside, DropStep
<1>3. ASSUME NEW d \in Drainers, Unlink(d) \/ Killed(d)
      PROVE  Promise!Next \/ Status' = Status
  <2>1. UNCHANGED <<sent, store, dead, replayed>> /\ Waiting' \subseteq Waiting
    BY <1>3, UnlinkEffect, KilledEffect
  <2> QED BY <2>1, SameAside, DropStep
<1>4. ASSUME NEW d \in Drainers, PostLine(d) PROVE Promise!Next \/ Status' = Status
  BY <1>4, PostStep
<1>5. CASE ReplayLine BY <1>5, ReplayStep
<1>6. CASE (\E s \in Usage : Tool(s) \/ GraceEnds(s) \/ FlagExpires(s)) \/ UNCHANGED vars
  <2>1. UNCHANGED <<sent, store>> /\ Waiting' = Waiting /\ Aside' = Aside
    BY <1>6, GateEffect
  <2> QED BY <2>1, DropStep
<1> QED BY <1>1, <1>2, <1>3, <1>4, <1>5, <1>6, Zenon DEF Next

LEMMA PromiseInit == Init => Promise!Init
<1> SUFFICES ASSUME Init PROVE Promise!Init
  OBVIOUS
<1>1. \A e \in Entries : StatusOf(e) = "unsent"
  BY InitShape, StatusHolds DEF Init, StatusFits
<1> QED BY <1>1 DEF Promise!Init

\* The queue keeps the promise's safety part: what is stored stays stored, what
\* is lost never comes back, an entry is put aside or lost only while it waits,
\* and every step of any number of hooks, drainers, crashes and replays is one
\* of the promise's steps.
THEOREM ImplementsDelivery == Spec => Promise!Init /\ [][Promise!Next]_Status
<1>1. Shape /\ [Next]_vars => Shape'
  BY ShapeStep
<1>2. Shape /\ Shape' /\ StatusFits /\ StatusFits' /\ [Next]_vars => [Promise!Next]_Status
  BY PromiseStep
<1> QED
  BY <1>1, <1>2, Invariant, StatusHolds, StatusHoldsNext, PromiseInit, PTL DEF Spec
=============================================================================
