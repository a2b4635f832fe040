---------------------------- MODULE Parts_proofs ----------------------------
(***************************************************************************)
(* Each property of module Parts, for every value of the constants.  A     *)
(* section per part: its inductive invariant, one lemma a fact of its      *)
(* operators, one that a step of the part keeps the invariant; the last    *)
(* section puts them together.                                             *)
(***************************************************************************)
EXTENDS Parts, TLAPS, SequenceTheorems, FiniteSetTheorems, WellFoundedInduction

\* A function on 1..n is a sequence.
LEMMA IsSeqOf == ASSUME NEW S, NEW n \in Nat, NEW f \in [1..n -> S] PROVE f \in Seq(S)
BY SeqDef

\* A set of naturals has a least element.
LEMMA Minimum ==
    ASSUME NEW S, S \subseteq Nat, S # {}
    PROVE  \E m \in S : \A b \in S : m <= b
<1> DEFINE R == {ss \in Nat \X Nat : ss[1] < ss[2]}
<1>1. IsWellFoundedOn(R, Nat)
  BY NatLessThanWellFounded DEF OpToRel
<1> HIDE DEF R
<1>2. PICK m \in S : \A b \in S : <<b, m>> \notin R
  BY <1>1, WFMin
<1>3. \A b \in S : m <= b
  <2> SUFFICES ASSUME NEW b \in S PROVE m <= b
    OBVIOUS
  <2>1. b \in Nat /\ m \in Nat /\ <<b, m>> \notin R
    BY <1>2
  <2> QED BY <2>1 DEF R
<1> QED BY <1>3

\* A sequence of whatever.
Listed(s) == \E S : s \in Seq(S)

LEMMA ListedAre ==
    ASSUME NEW s, Listed(s)
    PROVE  Len(s) \in Nat /\ DOMAIN s = 1..Len(s)
BY DEF Listed

LEMMA AppendedIs ==
    ASSUME NEW s, Listed(s), NEW e
    PROVE  /\ Listed(Append(s, e)) /\ DOMAIN Append(s, e) = 1..(Len(s) + 1)
           /\ \A i \in DOMAIN s : Append(s, e)[i] = s[i]
           /\ Append(s, e)[Len(s) + 1] = e
<1>1. PICK S : s \in Seq(S)
  BY DEF Listed
<1>2. s \in Seq(S \cup {e})
  BY <1>1
<1>3. Append(s, e) \in Seq(S \cup {e})
  BY <1>2
<1> QED BY <1>1, <1>2, <1>3 DEF Listed

LEMMA ChangedIs ==
    ASSUME NEW s, Listed(s), NEW i \in DOMAIN s, NEW e
    PROVE  /\ Listed([s EXCEPT ![i] = e]) /\ DOMAIN [s EXCEPT ![i] = e] = DOMAIN s
           /\ \A j \in DOMAIN s : [s EXCEPT ![i] = e][j] = IF j = i THEN e ELSE s[j]
<1>1. PICK S : s \in Seq(S)
  BY DEF Listed
<1>2. s \in [1..Len(s) -> S] /\ Len(s) \in Nat
  BY <1>1
<1>3. [s EXCEPT ![i] = e] \in [1..Len(s) -> S \cup {e}]
  BY <1>2
<1>4. [s EXCEPT ![i] = e] \in Seq(S \cup {e})
  BY <1>2, <1>3, IsSeqOf
<1> QED BY <1>2, <1>4 DEF Listed

-----------------------------------------------------------------------------
(* What the hooks of sessions record.                                      *)

\* Stored, on its way, or one of those the property leaves out.
Covered(m) == m \in kept \cup Text!InHand \cup Short \cup torn \cup lost

\* A reader that starts at x misses nothing that is before it.
CoveredTo(x) == \A m \in 1..MaxLines : 2 * m <= x => Covered(m)

\* A position in the middle of a line is where that line was found half written.
CutAt(x) == \A m \in 1..MaxLines : 2 * m - 1 = x => m \in torn

\* A hook process, and what it may be at.
TextReader == [at : {"idle", "position", "text", "save", "post", "count", "admit", "refused",
                     "throttle", "over"},
               from : 0..(2 * MaxLines), to : 0..(2 * MaxLines), batch : Seq(1..MaxLines),
               wrote : Nat, final : Nat, read : Nat, minute : 0..(MaxTime \div 2)]

\* The types, and a position is within the transcript.
HookShape ==
    /\ length \in 0..(2 * MaxLines) /\ position \in 0..(2 * MaxLines)
    /\ now \in 0..MaxTime /\ count \in [0..(MaxTime \div 2) -> Nat]
    /\ hook \in [Text!Processes -> TextReader]
    /\ \A h \in Text!Processes : hook[h].at \in {"idle", "position", "text"} => hook[h].batch = <<>>

\* Nothing before the stored position is missed, nor before a position a reader
\* has in hand.
ReadersSafe ==
    /\ CoveredTo(position) /\ CutAt(position)
    /\ \A h \in Text!Processes :
         /\ hook[h].at = "text" => CoveredTo(hook[h].from) /\ CutAt(hook[h].from)
         /\ hook[h].at = "save" => CoveredTo(hook[h].to)

\* The two together are inductive.
EventInv == HookShape /\ ReadersSafe

\* A line has two halves.
LEMMA Halves ==
    \A n \in Nat : Text!Line(n) \in Nat /\ 2 * Text!Line(n) <= n /\ n <= 2 * Text!Line(n) + 1
BY DEF Text!Line

\* What a reader has in hand when it has read from from to to.
LEMMA ParsedLines ==
    ASSUME Text!HookEventsAssumption, NEW from \in 0..(2 * MaxLines), NEW to \in 0..(2 * MaxLines)
    PROVE  /\ Text!Parsed(from, to) \in Seq(1..MaxLines)
           /\ \A m \in 1..MaxLines :
                2 * m <= to /\ ~(2 * m <= from) /\ 2 * m - 1 # from
                  => m \in Text!ToSet(Text!Parsed(from, to))
<1> DEFINE before == Text!Line(from + 1)
           list == Text!Parsed(from, to)
<1>1. /\ before \in Nat /\ 2 * before <= from + 1 /\ from <= 2 * before
      /\ Text!Line(to) \in Nat /\ 2 * Text!Line(to) <= to /\ to <= 2 * Text!Line(to) + 1
      /\ MaxLines \in Nat
  BY Halves DEF Text!HookEventsAssumption
<1>2. list = [i \in 1..(Text!Line(to) - before) |-> before + i]
  BY DEF Text!Parsed
<1> HIDE DEF before, list
<1>3. list \in Seq(1..MaxLines)
  <2> DEFINE n == IF Text!Line(to) >= before THEN Text!Line(to) - before ELSE 0
  <2>1. n \in Nat /\ 1..(Text!Line(to) - before) = 1..n
    BY <1>1
  <2>2. \A i \in 1..n : before + i \in 1..MaxLines
    BY <1>1
  <2>3. list \in [1..n -> 1..MaxLines]
    BY <1>2, <2>1, <2>2
  <2> HIDE DEF n
  <2> QED BY <2>1, <2>3, IsSeqOf
<1>4. ASSUME NEW m \in 1..MaxLines, 2 * m <= to, ~(2 * m <= from), 2 * m - 1 # from
      PROVE  m \in Text!ToSet(list)
  <2>1. m - before \in 1..(Text!Line(to) - before) /\ before + (m - before) = m
    BY <1>1, <1>4
  <2> QED BY <1>2, <2>1 DEF Text!ToSet
<1> QED BY <1>3, <1>4 DEF list

\* What is posted leaves the batch, and the rest stays.
LEMMA HeadAndTail ==
    ASSUME NEW S, NEW list \in Seq(S), list # <<>>
    PROVE  /\ Head(list) \in S /\ Tail(list) \in Seq(S)
           /\ \A x \in Text!ToSet(list) : x = Head(list) \/ x \in Text!ToSet(Tail(list))
<1>1. /\ Head(list) \in S /\ Tail(list) \in Seq(S) /\ Len(list) \in Nat
      /\ Len(Tail(list)) = Len(list) - 1 /\ Head(list) = list[1]
      /\ \A i \in 1..Len(Tail(list)) : Tail(list)[i] = list[i + 1]
  BY HeadTailProperties, LenProperties
<1>2. ASSUME NEW x \in Text!ToSet(list), x # Head(list) PROVE x \in Text!ToSet(Tail(list))
  <2>1. PICK i \in 1..Len(list) : list[i] = x
    BY LenProperties DEF Text!ToSet
  <2>2. i - 1 \in 1..Len(Tail(list)) /\ Tail(list)[i - 1] = x
    BY <1>1, <1>2, <2>1
  <2>3. DOMAIN Tail(list) = 1..Len(Tail(list))
    BY <1>1, LenProperties
  <2> QED BY <2>2, <2>3 DEF Text!ToSet
<1> QED BY <1>1, <1>2

\* No hook has read anything at first.
LEMMA InitEvents == Text!HookEventsAssumption /\ Text!Init => EventInv
<1> SUFFICES ASSUME Text!HookEventsAssumption, Text!Init PROVE EventInv
  OBVIOUS
<1>1. HookShape
  BY Halves DEF Text!HookEventsAssumption, Text!Init, HookShape, Text!New, TextReader
<1>2. ReadersSafe
  BY DEF Text!HookEventsAssumption, Text!Init, ReadersSafe, Text!New, CoveredTo, CutAt
<1> QED BY <1>1, <1>2 DEF EventInv

\* What a step of a hook leaves in its own record.
HookGoes(h, r) ==
    /\ Text!Becomes(h, r) /\ r \in TextReader
    /\ r.at \in {"idle", "position", "text"} => r.batch = <<>>
    /\ r.at = "text" => r.from = position
    /\ r.at = "save" => Text!ReadText(h) /\ r.to = length
    /\ \/ r.batch = hook[h].batch
       \/ Text!ReadText(h) /\ hook[h].at = "text" /\ r.batch = Text!Parsed(hook[h].from, length)
       \/ Text!Post(h) /\ hook[h].batch # <<>> /\ r.batch = Tail(hook[h].batch)

\* What a step makes of the process that takes it.
LEMMA HookMoves ==
    ASSUME Text!HookEventsAssumption, HookShape, NEW h \in Text!Processes, Text!Steps(h)
    PROVE  \E r : HookGoes(h, r)
<1> USE DEF HookShape, TextReader, HookGoes, Text!At, Text!Goes
<1>0. hook[h] \in TextReader
  OBVIOUS
<1>1. CASE Text!Fire(h)
  <2>1. PICK final \in {0, Text!Line(length)} :
          Text!Becomes(h, [hook[h] EXCEPT !.at = "position",
                                          !.final = IF h \in EndHooks THEN final ELSE 0])
    BY <1>1 DEF Text!Fire
  <2>2. final \in Nat /\ hook[h].at = "idle"
    BY <1>1, Halves DEF Text!Fire, Text!HookEventsAssumption
  <2> DEFINE r == [hook[h] EXCEPT !.at = "position",
                                  !.final = IF h \in EndHooks THEN final ELSE 0]
  <2>3. HookGoes(h, r)
    BY <1>0, <2>1, <2>2
  <2> QED BY <2>3
<1>2. CASE Text!ReadPosition(h)
  <2> DEFINE r == [hook[h] EXCEPT !.at = "text", !.from = position]
  <2>1. HookGoes(h, r)
    BY <1>0, <1>2 DEF Text!ReadPosition
  <2> QED BY <2>1
<1>3. CASE Text!ReadText(h)
  <2> DEFINE r == [hook[h] EXCEPT !.at = IF length > hook[h].from THEN "save" ELSE "post",
                                  !.to = length, !.batch = Text!Parsed(hook[h].from, length)]
  <2>1. hook[h].from \in 0..(2 * MaxLines) /\ length \in 0..(2 * MaxLines)
    OBVIOUS
  <2>2. Text!Parsed(hook[h].from, length) \in Seq(1..MaxLines)
    BY <2>1, ParsedLines
  <2>3. Text!Becomes(h, r) /\ hook[h].at = "text"
    BY <1>3 DEF Text!ReadText
  <2>4. r \in TextReader
    BY <1>0, <2>1, <2>2
  <2>5. r.at \in {"save", "post"} /\ r.to = length /\ r.batch = Text!Parsed(hook[h].from, length)
    BY <1>0
  <2> HIDE DEF r
  <2>6. HookGoes(h, r)
    BY <1>3, <2>3, <2>4, <2>5
  <2> QED BY <2>6
<1>4. CASE Text!Post(h)
  <2> DEFINE m == Head(hook[h].batch)
             rest == Tail(hook[h].batch)
             wrote == IF m \in Short THEN hook[h].wrote ELSE hook[h].wrote + 1
             r == [hook[h] EXCEPT !.batch = rest, !.wrote = wrote]
  <2>1. Text!Becomes(h, r) /\ hook[h].at = "post" /\ hook[h].batch # <<>>
    BY <1>4 DEF Text!Post
  <2>2. hook[h].batch \in Seq(1..MaxLines)
    OBVIOUS
  <2>3. rest \in Seq(1..MaxLines) /\ wrote \in Nat
    BY <1>0, <2>1, <2>2, HeadTailProperties
  <2> HIDE DEF rest, wrote
  <2>4. r \in TextReader /\ r.at = "post" /\ r.batch = rest
    BY <1>0, <2>1, <2>3
  <2> HIDE DEF r
  <2> USE DEF rest
  <2>5. HookGoes(h, r)
    BY <1>4, <2>1, <2>4
  <2> QED BY <2>5
<1>5. ASSUME NEW to \in {"post", "count", "throttle", "over"}, Text!Goes(h, to)
      PROVE  \E r : HookGoes(h, r)
  <2> DEFINE r == [hook[h] EXCEPT !.at = to]
  <2>1. HookGoes(h, r)
    BY <1>0, <1>5
  <2> QED BY <2>1
<1>6. CASE Text!ReadCount(h)
  <2> DEFINE r == [hook[h] EXCEPT !.at = IF count[Text!Minute] >= PerMinute THEN "refused" ELSE "admit",
                                  !.read = count[Text!Minute], !.minute = Text!Minute]
  <2>1. Text!Minute \in 0..(MaxTime \div 2)
    BY DEF Text!Minute, Text!HookEventsAssumption
  <2>2. count[Text!Minute] \in Nat
    BY <2>1
  <2>3. Text!Becomes(h, r)
    BY <1>6 DEF Text!ReadCount
  <2>4. r \in TextReader /\ r.at \in {"refused", "admit"} /\ r.batch = hook[h].batch
    BY <1>0, <2>1, <2>2
  <2> HIDE DEF r
  <2>5. HookGoes(h, r)
    BY <2>3, <2>4
  <2> QED BY <2>5
<1>7. CASE Text!SavePosition(h)
  BY <1>5, <1>7 DEF Text!SavePosition
<1>8. CASE Text!PostFinal(h)
  BY <1>5, <1>8 DEF Text!PostFinal
<1>9. CASE Text!WriteCount(h) \/ Text!Throttle(h) \/ Text!Killed(h)
  BY <1>5, <1>9 DEF Text!WriteCount, Text!Throttle, Text!Killed
<1> QED BY <1>1, <1>2, <1>3, <1>4, <1>6, <1>7, <1>8, <1>9 DEF Text!Steps

\* No other process's record changes.
LEMMA Becoming ==
    ASSUME HookShape, NEW h \in Text!Processes, NEW r, HookGoes(h, r)
    PROVE  /\ hook' \in [Text!Processes -> TextReader] /\ hook'[h] = r
           /\ \A g \in Text!Processes : g # h => hook'[g] = hook[g]
BY DEF HookShape, HookGoes, Text!Becomes

\* Every step keeps the types.
LEMMA HookShapeStep ==
    Text!HookEventsAssumption /\ HookShape /\ [Text!EventNext]_Text!vars => HookShape'
<1> SUFFICES ASSUME Text!HookEventsAssumption, HookShape, [Text!EventNext]_Text!vars
             PROVE  HookShape'
  OBVIOUS
<1>1. CASE Text!Speak \/ Text!Tick
  BY <1>1 DEF HookShape, Text!text, Text!rate, Text!Speak, Text!Tick, Text!HookEventsAssumption
<1>2. ASSUME NEW h \in Text!Processes, Text!Steps(h) PROVE HookShape'
  <2>1. PICK r : HookGoes(h, r)
    BY <1>2, HookMoves
  <2>2. hook[h].to \in 0..(2 * MaxLines) /\ hook[h].read \in Nat
        /\ hook[h].minute \in 0..(MaxTime \div 2)
    BY DEF HookShape, TextReader
  <2>3. length' = length /\ now' = now /\ position' \in {position, hook[h].to}
    BY <1>2
       DEF Text!Steps, Text!Fire, Text!ReadPosition, Text!ReadText, Text!SavePosition,
           Text!Saved, Text!Post, Text!PostFinal, Text!ReadCount, Text!WriteCount, Text!Throttle,
           Text!Killed, Text!text, Text!rate
  <2>4. count' = count \/ count' = [count EXCEPT ![hook[h].minute] = hook[h].read + 1]
    BY <1>2
       DEF Text!Steps, Text!Fire, Text!ReadPosition, Text!ReadText, Text!SavePosition, Text!Post,
           Text!PostFinal, Text!ReadCount, Text!WriteCount, Text!File, Text!Throttle,
           Text!Killed, Text!text, Text!rate
  <2>5. count' \in [0..(MaxTime \div 2) -> Nat]
    BY <2>2, <2>4 DEF HookShape
  <2> QED BY <2>1, <2>2, <2>3, <2>5, Becoming DEF HookShape, HookGoes
<1>3. CASE UNCHANGED Text!vars
  BY <1>3 DEF HookShape, Text!text, Text!rate, Text!vars
<1> QED BY <1>1, <1>2, <1>3 DEF Text!EventNext

\* No step makes a message uncovered.
LEMMA CoveredStays ==
    ASSUME Text!HookEventsAssumption, HookShape, [Text!EventNext]_Text!vars, NEW m, Covered(m)
    PROVE  Covered(m)'
<1>1. kept \subseteq kept' /\ torn \subseteq torn' /\ lost \subseteq lost'
  BY DEF Text!EventNext, Text!Steps, Text!Speak, Text!Tick, Text!Fire, Text!ReadPosition,
         Text!ReadText, Text!SavePosition, Text!Post, Text!PostFinal, Text!ReadCount,
         Text!WriteCount, Text!Throttle, Text!Killed, Text!vars, Text!text, Text!rate
<1> SUFFICES ASSUME NEW g \in Text!Processes, m \in Text!ToSet(hook[g].batch)
             PROVE  m \in kept' \cup Text!InHand' \cup Short
  BY <1>1 DEF Covered, Text!InHand
<1>2. ASSUME NEW b, hook'[g].batch = b, m \in Text!ToSet(b) PROVE m \in Text!InHand'
  BY <1>2 DEF Text!InHand
<1>3. CASE hook' = hook
  BY <1>2, <1>3
<1>4. ASSUME NEW h \in Text!Processes, Text!Steps(h) PROVE m \in kept' \cup Text!InHand' \cup Short
  <2>1. PICK r : HookGoes(h, r)
    BY <1>4, HookMoves
  <2>2. CASE h # g
    BY <1>2, <2>1, <2>2, Becoming
  <2>3. CASE h = g /\ r.batch = hook[g].batch
    BY <1>2, <2>1, <2>3, Becoming
  <2>4. CASE h = g /\ hook[g].at = "text"
    BY <2>4 DEF HookShape, Text!ToSet
  <2>5. CASE h = g /\ Text!Post(g) /\ hook[g].batch # <<>> /\ r.batch = Tail(hook[g].batch)
    <3>1. hook[g].batch \in Seq(1..MaxLines)
      BY DEF HookShape, TextReader
    <3>2. m = Head(hook[g].batch) \/ m \in Text!ToSet(Tail(hook[g].batch))
      BY <2>5, <3>1, HeadAndTail
    <3>3. hook'[g].batch = Tail(hook[g].batch)
      BY <2>1, <2>5, Becoming
    <3>4. Head(hook[g].batch) \in kept' \cup Short
      BY <2>5 DEF Text!Post
    <3> QED BY <1>2, <3>2, <3>3, <3>4
  <2> QED BY <2>1, <2>2, <2>3, <2>4, <2>5 DEF HookGoes
<1> QED BY <1>3, <1>4 DEF Text!EventNext, Text!Speak, Text!Tick, Text!vars

\* Every step keeps what was read covered.
LEMMA SafeStep ==
    ASSUME Text!HookEventsAssumption, EventInv, [Text!EventNext]_Text!vars PROVE ReadersSafe'
<1>0. HookShape' /\ HookShape
  BY HookShapeStep DEF EventInv
<1>1. torn \subseteq torn'
  BY DEF Text!EventNext, Text!Steps, Text!Speak, Text!Tick, Text!Fire, Text!ReadPosition,
         Text!ReadText, Text!SavePosition, Text!Post, Text!PostFinal, Text!ReadCount,
         Text!WriteCount, Text!Throttle, Text!Killed, Text!vars, Text!text, Text!rate
<1>2. \A x : (CoveredTo(x) => \A m \in 1..MaxLines : 2 * m <= x => Covered(m)')
             /\ (CutAt(x) => \A m \in 1..MaxLines : 2 * m - 1 = x => m \in torn')
  BY <1>0, <1>1, CoveredStays DEF CoveredTo, CutAt
<1>3. CoveredTo(position)' /\ CutAt(position)'
  <2>1. CASE position' = position
    BY <1>2, <2>1 DEF EventInv, ReadersSafe, CoveredTo, CutAt
  <2>2. ASSUME NEW h \in Text!Processes, Text!SavePosition(h)
        PROVE  CoveredTo(position)' /\ CutAt(position)'
    <3>1. /\ position' = hook[h].to /\ hook[h].at = "save"
          /\ torn' = torn \cup {m \in 1..MaxLines : 2 * m - 1 = hook[h].to}
      BY <2>2 DEF Text!SavePosition, Text!Saved, Text!At
    <3> QED BY <1>2, <3>1 DEF EventInv, ReadersSafe, CoveredTo, CutAt
  <2> QED BY <2>1, <2>2
             DEF Text!EventNext, Text!Steps, Text!Speak, Text!Tick, Text!Fire, Text!ReadPosition,
                 Text!ReadText, Text!Post, Text!PostFinal, Text!ReadCount, Text!WriteCount,
                 Text!Throttle, Text!Killed, Text!vars, Text!text, Text!rate
<1>4. ASSUME NEW g \in Text!Processes
      PROVE  /\ hook'[g].at = "text" => CoveredTo(hook[g].from)' /\ CutAt(hook[g].from)'
             /\ hook'[g].at = "save" => CoveredTo(hook[g].to)'
  <2>1. CASE hook'[g] = hook[g]
    BY <1>2, <2>1 DEF EventInv, ReadersSafe, CoveredTo, CutAt
  <2>2. ASSUME NEW r, HookGoes(g, r), hook'[g] = r, r.at = "text"
        PROVE  CoveredTo(hook[g].from)' /\ CutAt(hook[g].from)'
    <3>1. hook'[g].from = position
      BY <2>2 DEF HookGoes
    <3> QED BY <1>2, <3>1 DEF EventInv, ReadersSafe, CoveredTo, CutAt
  <2>3. ASSUME NEW r, HookGoes(g, r), hook'[g] = r, r.at = "save"
        PROVE  CoveredTo(hook[g].to)'
    <3>1. Text!ReadText(g) /\ hook'[g].to = length
      BY <2>3 DEF HookGoes
    <3>2. hook'[g].batch = Text!Parsed(hook[g].from, length)
      BY <3>1, <1>0 DEF Text!ReadText, Text!Becomes, HookShape, TextReader
    <3>3. Text!ToSet(hook'[g].batch) \subseteq Text!InHand'
      BY DEF Text!InHand
    <3>4. /\ hook[g].from \in 0..(2 * MaxLines) /\ length \in 0..(2 * MaxLines)
          /\ hook[g].at = "text"
      BY <1>0, <3>1 DEF HookShape, TextReader, Text!ReadText, Text!At
    <3>5. CoveredTo(hook[g].from) /\ CutAt(hook[g].from)
      BY <3>4 DEF EventInv, ReadersSafe
    <3> SUFFICES ASSUME NEW m \in 1..MaxLines, 2 * m <= length PROVE Covered(m)'
      BY <3>1 DEF CoveredTo
    <3>6. CASE 2 * m <= hook[g].from
      BY <1>2, <3>5, <3>6
    <3>7. CASE 2 * m - 1 = hook[g].from
      BY <1>2, <3>5, <3>7 DEF Covered
    <3>8. CASE ~(2 * m <= hook[g].from) /\ 2 * m - 1 # hook[g].from
      <4>1. m \in Text!ToSet(Text!Parsed(hook[g].from, length))
        BY <3>4, <3>8, ParsedLines
      <4> QED BY <3>2, <3>3, <4>1 DEF Covered
    <3> QED BY <3>6, <3>7, <3>8
  <2>4. CASE UNCHANGED hook
    BY <2>1, <2>4
  <2>5. ASSUME NEW h \in Text!Processes, Text!Steps(h)
        PROVE  hook'[g] = hook[g] \/ \E r : HookGoes(g, r) /\ hook'[g] = r
    <3>1. PICK r : HookGoes(h, r)
      BY <1>0, <2>5, HookMoves
    <3> QED BY <1>0, <3>1, Becoming
  <2> QED BY <2>1, <2>2, <2>3, <2>4, <2>5 DEF Text!EventNext, Text!Speak, Text!Tick, Text!vars
<1> QED BY <1>3, <1>4 DEF ReadersSafe

\* The stored position is one of those nothing is missed before.
LEMMA EventsGive == EventInv => Text!MessageKept
BY DEF EventInv, ReadersSafe, CoveredTo, Covered, Text!MessageKept

-----------------------------------------------------------------------------
(* The installer.                                                          *)

\* The lists a file that is there can hold, and those with the user's hook.
HookLists == Setup!Writings \cup {<<"ours">>}

\* What a hooks file can be.
HookFiles == {Setup!NoFile, Setup!Torn} \cup {Setup!File(is, has) : is \in {"json", "odd"}, has \in HookLists}

\* The files of hooks a target may have: one the user wrote has the user's hook
\* unless a run left it half written or copied over it, and ours at most once.
FilesInv ==
    /\ hooks = [t \in Merging |-> hooks[t]]
    /\ \A t \in Merging :
          /\ hooks[t] \in HookFiles
          /\ t \in owners \ (halved \cup unmerged) => hooks[t].has \in Setup!Writings

\* Two elements, one after the other.
LEMMA AppendOne ==
    ASSUME NEW a \in {"user", "ours"}, NEW b \in {"user", "ours"}
    PROVE  Append(<<a>>, b) = <<a, b>>
<1> DEFINE two == Append(<<a>>, b)
           both == <<a, b>>
<1>1. <<a>> \in Seq({"user", "ours"}) /\ Len(<<a>>) = 1 /\ <<a>>[1] = a
  OBVIOUS
<1>2. /\ two \in Seq({"user", "ours"})
      /\ Len(two) = 2 /\ two[1] = a /\ two[2] = b
  BY <1>1, AppendProperties
<1> HIDE DEF two
<1>3. both \in Seq({"user", "ours"}) /\ Len(both) = 2 /\ both[1] = a /\ both[2] = b
  OBVIOUS
<1> HIDE DEF both
<1>4. Len(two) = Len(both) /\ \A i \in 1..Len(two) : two[i] = both[i]
  BY <1>2, <1>3
<1>5. two = both
  BY <1>2, <1>3, <1>4, SeqEqual
<1> QED BY <1>5 DEF two, both

\* The merge of each list.
LEMMA MergedLists ==
    /\ Setup!Merged(<<"ours">>) = <<"ours">>
    /\ Setup!Merged(<<"user">>) = <<"user", "ours">>
    /\ Setup!Merged(<<"user", "ours">>) = <<"user", "ours">>
    /\ Setup!Merged(<<"ours", "user">>) = <<"ours", "user">>
<1>1. Setup!Contains(<<"ours">>, "ours")
  BY <<"ours">>[1] = "ours" DEF Setup!Contains
<1>2. ~Setup!Contains(<<"user">>, "ours")
  BY \A i \in 1..1 : <<"user">>[i] = "user" DEF Setup!Contains
<1>3. Setup!Contains(<<"user", "ours">>, "ours")
  BY <<"user", "ours">>[2] = "ours" DEF Setup!Contains
<1>4. Setup!Contains(<<"ours", "user">>, "ours")
  BY <<"ours", "user">>[1] = "ours" DEF Setup!Contains
<1> QED BY <1>1, <1>2, <1>3, <1>4, AppendOne DEF Setup!Merged

\* What the merge of a file that parses, or of none, leaves.
LEMMA NewHooksAre ==
    ASSUME NEW t, hooks[t] \in HookFiles, hooks[t].is \in {"json", "none"}
    PROVE  /\ Setup!NewHooks(t) \in HookFiles
           /\ hooks[t].has \in Setup!Writings => Setup!NewHooks(t).has \in Setup!Writings
<1>1. CASE hooks[t] = Setup!NoFile
  BY <1>1, MergedLists, <<>> # <<"user">>, <<>> # <<"user", "ours">>, <<>> # <<"ours", "user">>
     DEF Setup!NewHooks, HookFiles, HookLists, Setup!NoFile, Setup!File, Setup!Writings
<1>2. CASE hooks[t] # Setup!NoFile
  <2>1. hooks[t].has \in HookLists
    BY <1>2 DEF HookFiles, Setup!Torn, Setup!NoFile, Setup!File
  <2>2. Setup!NewHooks(t) = Setup!File("json", Setup!Merged(hooks[t].has))
    BY <1>2 DEF Setup!NewHooks
  <2>3. /\ Setup!Merged(hooks[t].has) \in HookLists
        /\ hooks[t].has \in Setup!Writings => Setup!Merged(hooks[t].has) \in Setup!Writings
    BY <2>1, MergedLists DEF HookLists, Setup!Writings
  <2> QED BY <2>2, <2>3 DEF HookFiles, Setup!File
<1> QED BY <1>1, <1>2

\* Every step of a run, and of the user, leaves one of them.
LEMMA FilesStep == FilesInv /\ [Setup!InstallNext]_Setup!vars => FilesInv'
<1> SUFFICES ASSUME FilesInv, [Setup!InstallNext]_Setup!vars PROVE FilesInv'
  OBVIOUS
<1>1. CASE Setup!Hook
  <2> DEFINE t == run.to
  <2>1. CASE t \in Merging /\ Setup!Merge(t)
    <3>1. /\ hooks' = [hooks EXCEPT ![t] = Setup!NewHooks(t)]
          /\ UNCHANGED <<owners, halved, unmerged>> /\ hooks[t].is \in {"json", "none"}
      BY <2>1 DEF Setup!Merge, Setup!hist
    <3>2. /\ Setup!NewHooks(t) \in HookFiles
          /\ hooks[t].has \in Setup!Writings => Setup!NewHooks(t).has \in Setup!Writings
      BY <2>1, <3>1, NewHooksAre DEF FilesInv
    <3> HIDE DEF t
    <3> QED BY <2>1, <3>1, <3>2 DEF FilesInv
  <2>2. CASE t \in Merging /\ Setup!CopyOver(t)
    <3>1. /\ hooks' = [hooks EXCEPT ![t] = Setup!File("json", <<"ours">>)]
          /\ unmerged' = unmerged \cup {t} /\ UNCHANGED <<owners, halved>>
      BY <2>2 DEF Setup!CopyOver
    <3>2. Setup!File("json", <<"ours">>) \in HookFiles
      BY DEF HookFiles, HookLists
    <3> HIDE DEF t
    <3> QED BY <2>2, <3>1, <3>2 DEF FilesInv
  <2>3. CASE UNCHANGED <<hooks, Setup!hist>>
    BY <2>3 DEF Setup!hist, FilesInv
  <2> QED BY <1>1, <2>1, <2>2, <2>3 DEF Setup!Hook
<1>2. ASSUME NEW t \in Merging, Setup!UserWrites(t) PROVE FilesInv'
  <2>1. PICK is \in {"json", "odd"}, has \in Setup!Writings :
          hooks' = [hooks EXCEPT ![t] = Setup!File(is, has)]
    BY <1>2 DEF Setup!UserWrites
  <2>2. /\ owners' = owners \cup {t} /\ halved' = halved \ {t} /\ unmerged' = unmerged \ {t}
    BY <1>2 DEF Setup!UserWrites
  <2>3. Setup!File(is, has) \in HookFiles
    <3>1. has \in HookLists
      BY DEF HookLists
    <3> QED BY <3>1 DEF HookFiles
  <2>4. Setup!File(is, has).has = has
    BY DEF Setup!File
  <2> QED BY <1>2, <2>1, <2>2, <2>3, <2>4 DEF FilesInv
<1>3. CASE Setup!Ends
  <2>1. UNCHANGED <<owners, unmerged>>
    BY <1>3 DEF Setup!Ends
  <2>2. CASE UNCHANGED <<hooks, halved>>
    BY <2>1, <2>2 DEF FilesInv
  <2>3. CASE /\ run.to \in Merging /\ hooks' = [hooks EXCEPT ![run.to] = Setup!Torn]
             /\ halved' = halved \cup {run.to}
    BY <2>1, <2>3 DEF FilesInv, HookFiles
  <2> QED BY <1>3, <2>2, <2>3 DEF Setup!Ends
<1>4. CASE UNCHANGED <<hooks, owners, halved, unmerged>>
  BY <1>4 DEF FilesInv
<1> QED BY <1>1, <1>2, <1>3, <1>4
           DEF Setup!InstallNext, Setup!NewVersion, Setup!UserEdits, Setup!Begin, Setup!Copy,
               Setup!Copied, Setup!Record, Setup!vars, Setup!hist

\* None of them has our hook twice.
LEMMA FilesGive == FilesInv => Setup!HooksKept
<1> SUFFICES ASSUME FilesInv, NEW t \in Merging
             PROVE  /\ \A i, k \in DOMAIN hooks[t].has :
                         hooks[t].has[i] = "ours" /\ hooks[t].has[k] = "ours" => i = k
                    /\ t \in owners \ (halved \cup unmerged) => Setup!Contains(hooks[t].has, "user")
  BY DEF Setup!HooksKept
<1> DEFINE has == hooks[t].has
<1>1. has \in {<<>>, <<"ours">>, <<"user">>, <<"user", "ours">>, <<"ours", "user">>}
  BY DEF FilesInv, HookFiles, HookLists, Setup!NoFile, Setup!Torn, Setup!File, Setup!Writings
<1>2. \A i, k \in DOMAIN has : has[i] = "ours" /\ has[k] = "ours" => i = k
  <2> HIDE DEF has
  <2>1. CASE has = <<>>
    BY <2>1
  <2>2. CASE has = <<"ours">>
    BY <2>2
  <2>3. CASE has = <<"user">>
    BY <2>3
  <2>4. CASE has = <<"user", "ours">>
    BY <2>4
  <2>5. CASE has = <<"ours", "user">>
    BY <2>5
  <2> QED BY <1>1, <2>1, <2>2, <2>3, <2>4, <2>5
<1>3. ASSUME t \in owners \ (halved \cup unmerged) PROVE Setup!Contains(has, "user")
  <2>1. has \in {<<"user">>, <<"user", "ours">>, <<"ours", "user">>}
    BY <1>3 DEF FilesInv, Setup!Writings
  <2> HIDE DEF has
  <2>2. \E i \in 1..Len(has) : has[i] = "user"
    <3>1. CASE has \in {<<"user">>, <<"user", "ours">>}
      <4>1. 1 \in 1..Len(has) /\ has[1] = "user"
        BY <3>1
      <4> QED BY <4>1
    <3>2. CASE has = <<"ours", "user">>
      <4>1. 2 \in 1..Len(has) /\ has[2] = "user"
        BY <3>2
      <4> QED BY <4>1
    <3> QED BY <2>1, <3>1, <3>2
  <2> QED BY <2>2 DEF Setup!Contains
<1> QED BY <1>2, <1>3

\* Before the first run there is no file, or the user's.
LEMMA InitFiles == Setup!Init => FilesInv
<1> SUFFICES ASSUME Setup!Init PROVE FilesInv
  OBVIOUS
<1>1. /\ hooks \in [Merging -> {Setup!NoFile, Setup!File("json", <<"user">>), Setup!File("odd", <<"user">>)}]
      /\ \A t \in owners : t \in Merging /\ hooks[t] # Setup!NoFile
  BY DEF Setup!Init
<1>2. Setup!File("json", <<"user">>) \in HookFiles /\ Setup!File("odd", <<"user">>) \in HookFiles
  BY DEF HookFiles, HookLists, Setup!Writings
<1>3. \A is : Setup!File(is, <<"user">>).has = <<"user">>
  BY DEF Setup!File
<1> QED BY <1>1, <1>2, <1>3 DEF FilesInv, HookFiles, Setup!Writings

-----------------------------------------------------------------------------
(* Backups.                                                                *)

\* GoodCopySurvives is not inductive: a rotation replaces a good .bak by a main
\* that SQLite accepts.  What is preserved says where the good copy is.
MainOrBak == ~damaged => Copies!Good(main) \/ (main = Copies!Absent /\ Copies!Good(bak))

\* What a file can be; tmp is never the file of 0 bytes that a cut-off shutdown
\* leaves, and in the middle of a rotation it has been verified.
CopiesShape ==
  /\ mode \in {"up", "saving", "closing", "down", "boot"}
  /\ pc \in [Copies!Jobs -> {"idle", "body", "copying", "rotated"}]
  /\ turn \in Copies!Jobs \cup {Nobody}
  /\ tmp \in {Copies!Absent, Copies!Whole, Copies!Torn} \cup {Copies!OpenBy(j) : j \in Copies!Jobs}
  /\ turn # Nobody => mode = "up" /\ pc[turn] = "rotated" /\ Copies!Verified(tmp)

\* One /admin/backup at a time, and the writer of tmp is still copying.
OneAdmin ==
  /\ \A j \in Admins : pc[j] \in {"copying", "rotated"} => inFlight
  /\ \A j, k \in Admins :
       pc[j] \in {"copying", "rotated"} /\ pc[k] \in {"copying", "rotated"} => j = k
  /\ \A j \in Copies!Jobs : tmp = Copies!OpenBy(j) => pc[j] = "copying"

\* A stopped server remembers no verdict.
NoVerdictWhileDown == mode \in {"down", "boot"} => verdict = "none"

\* Inductive together.
CopiesInv == CopiesShape /\ OneAdmin /\ MainOrBak /\ NoVerdictWhileDown /\ Copies!CachedVerdictHolds

\* At first main is whole, and nothing is under way.
LEMMA InitCopies == ASSUME Copies!BackupAssumption, Copies!Init PROVE CopiesInv
BY DEF Copies!BackupAssumption, Copies!Jobs, Copies!Init, CopiesInv, CopiesShape, OneAdmin,
       MainOrBak, NoVerdictWhileDown, Copies!CachedVerdictHolds, Copies!Absent, Copies!Whole,
       Copies!Torn, Copies!OpenBy, Copies!Good, Copies!Verified

\* The kinds of files, told apart.
LEMMA Kinds ==
  /\ Copies!Good(Copies!Whole) /\ ~Copies!Good(Copies!Absent) /\ ~Copies!Good(Copies!Torn)
       /\ ~Copies!Good(Copies!Empty)
  /\ \A j : ~Copies!Good(Copies!OpenBy(j))
       /\ Copies!OpenBy(j) \notin {Copies!Absent, Copies!Whole, Copies!Torn, Copies!Empty}
  /\ \A j, k : Copies!OpenBy(j) = Copies!OpenBy(k) => j = k
  /\ Copies!Verified(Copies!Whole) /\ ~Copies!Verified(Copies!Absent)
       /\ ~Copies!Verified(Copies!Torn)
  /\ \A j : Copies!Verified(Copies!OpenBy(j)) /\ Copies!OpenBy(j).kind = "open"
       /\ Copies!OpenBy(j).by = j
  /\ Copies!Absent # Copies!Whole /\ Copies!Absent # Copies!Torn /\ Copies!Whole # Copies!Torn
BY DEF Copies!Good, Copies!Verified, Copies!Whole, Copies!Absent, Copies!Torn, Copies!Empty,
       Copies!OpenBy

\* What a job's file becomes when its copy ends, by its kind before.
LEMMA LandedKinds ==
  /\ \A f, j : Copies!Good(f) =>
         Copies!Landed(f, j) = f /\ Copies!Broken(f, j) = f /\ Copies!Kept(f) = f
  /\ \A f, j : f = Copies!Absent =>
         Copies!Landed(f, j) = Copies!Absent /\ Copies!Broken(f, j) = Copies!Absent
           /\ Copies!Kept(f) = Copies!Absent
  /\ \A f, j : Copies!Good(Copies!Landed(f, j)) => Copies!Good(f) \/ f = Copies!OpenBy(j)
  /\ \A f, j : f.kind \in {"whole", "none"} => Copies!Landed(f, j).kind \in {"whole", "none"}
                                               /\ Copies!Broken(f, j).kind \in {"whole", "none"}
BY DEF Copies!Good, Copies!Landed, Copies!Broken, Copies!Kept, Copies!OpenBy, Copies!Absent,
       Copies!Whole, Copies!Torn


\* A whole copy stays under main, or under .bak while main is moved away.
LEMMA MainOrBakStep == MainOrBak /\ [Copies!Next]_Copies!vars => MainOrBak'
<1> SUFFICES ASSUME MainOrBak, [Copies!Next]_Copies!vars PROVE MainOrBak'
  OBVIOUS
<1> USE Kinds, LandedKinds DEF MainOrBak, Copies!files, Copies!jobs
<1>1. CASE Copies!Log \/ Copies!Throttled \/ Copies!IntegrityCheck \/ Copies!VerdictExpires
  BY <1>1 DEF Copies!Log, Copies!Throttled, Copies!IntegrityCheck, Copies!VerdictExpires
<1>2. CASE Copies!Signal \/ Copies!Saved
  BY <1>2 DEF Copies!Signal, Copies!Saved
<1>3. CASE Copies!Stop
  BY <1>3 DEF Copies!Stop
<1>4. CASE Copies!Boot \/ Copies!RotateLog \/ Copies!Booted
  BY <1>4 DEF Copies!Boot, Copies!RotateLog, Copies!Booted
<1>5. ASSUME NEW j \in Copies!Jobs, Copies!Prune(j) \/ Copies!Request(j) \/ Copies!StartCopy(j)
      PROVE  MainOrBak'
  BY <1>5 DEF Copies!Prune, Copies!Request, Copies!StartCopy, Copies!Transfer
<1>6. ASSUME NEW j \in Copies!Jobs, Copies!CopyDone(j) PROVE MainOrBak'
  BY <1>6
     DEF Copies!CopyDone, Copies!NextBak, Copies!Verified, Copies!Good, Copies!Absent,
         Copies!Landed, Copies!OpenBy, Copies!Whole
<1>7. ASSUME NEW j \in Copies!Jobs, Copies!Rename(j) \/ Copies!RenameFails(j) PROVE MainOrBak'
  BY <1>7 DEF Copies!Rename, Copies!RenameFails, Copies!Rejected
<1>8. ASSUME NEW j \in Copies!Jobs, Copies!CopyFails(j) \/ Copies!FallBack(j) PROVE MainOrBak'
  BY <1>8 DEF Copies!CopyFails, Copies!FallBack, Copies!Rejected
<1>9. CASE UNCHANGED Copies!vars
  BY <1>9 DEF Copies!vars
<1> QED BY <1>1, <1>2, <1>3, <1>4, <1>5, <1>6, <1>7, <1>8, <1>9 DEF Copies!Next, Copies!Progress

\* Every step keeps the shape of the state.
LEMMA CopiesShapeStep ==
    Copies!BackupAssumption /\ CopiesShape /\ [Copies!Next]_Copies!vars => CopiesShape'
<1> SUFFICES ASSUME Copies!BackupAssumption, CopiesShape, [Copies!Next]_Copies!vars
             PROVE  CopiesShape'
  OBVIOUS
<1> USE Kinds DEF Copies!BackupAssumption, Copies!Jobs, CopiesShape, Copies!files, Copies!jobs,
        Copies!Loop, Copies!Goto
<1>1. CASE Copies!Log \/ Copies!Throttled \/ Copies!IntegrityCheck \/ Copies!VerdictExpires
  BY <1>1 DEF Copies!Log, Copies!Throttled, Copies!IntegrityCheck, Copies!VerdictExpires
<1>2. CASE Copies!Signal \/ Copies!Saved
  BY <1>2 DEF Copies!Signal, Copies!Saved
<1>3. CASE Copies!Stop
  <2>1. Copies!Kept(tmp) \in {Copies!Absent, Copies!Whole, Copies!Torn}
    BY DEF Copies!Kept, Copies!Absent, Copies!Whole, Copies!Torn, Copies!OpenBy
  <2> QED BY <1>3, <2>1 DEF Copies!Stop
<1>4. CASE Copies!Boot \/ Copies!RotateLog \/ Copies!Booted
  <2>1. /\ mode \in {"down", "boot"} /\ mode' \in {"boot", "up"}
        /\ UNCHANGED <<pc, turn>>
        /\ tmp' = tmp \/ tmp' = Copies!Absent
    BY <1>4 DEF Copies!Boot, Copies!RotateLog, Copies!Booted
  <2>2. turn = Nobody
    BY <2>1
  <2> QED BY <2>1, <2>2
<1>5. ASSUME NEW j \in Copies!Jobs, Copies!Prune(j) \/ Copies!Request(j) \/ Copies!StartCopy(j)
      PROVE  CopiesShape'
  BY <1>5 DEF Copies!Prune, Copies!Request, Copies!StartCopy, Copies!Transfer
<1>6. ASSUME NEW j \in Copies!Jobs, Copies!CopyDone(j) PROVE CopiesShape'
  <2>1. Copies!Landed(tmp, j) \in {Copies!Absent, Copies!Whole, Copies!Torn} \cup {Copies!OpenBy(k) : k \in Copies!Jobs}
    BY DEF Copies!Landed
  <2> QED BY <1>6, <2>1 DEF Copies!CopyDone, Copies!Rejected
<1>7. ASSUME NEW j \in Copies!Jobs, Copies!Rename(j) \/ Copies!RenameFails(j) PROVE CopiesShape'
  BY <1>7 DEF Copies!Rename, Copies!RenameFails, Copies!Rejected
<1>8. ASSUME NEW j \in Copies!Jobs, Copies!CopyFails(j) \/ Copies!FallBack(j) PROVE CopiesShape'
  BY <1>8 DEF Copies!CopyFails, Copies!FallBack, Copies!Rejected
<1>9. CASE UNCHANGED Copies!vars
  BY <1>9 DEF Copies!vars
<1> QED BY <1>1, <1>2, <1>3, <1>4, <1>5, <1>6, <1>7, <1>8, <1>9 DEF Copies!Next, Copies!Progress

\* The flag keeps two /admin/backup apart, through every way one ends.
LEMMA OneAdminStep ==
    Copies!BackupAssumption /\ CopiesShape /\ OneAdmin /\ [Copies!Next]_Copies!vars => OneAdmin'
<1> SUFFICES ASSUME Copies!BackupAssumption, CopiesShape, OneAdmin, [Copies!Next]_Copies!vars
             PROVE  OneAdmin'
  OBVIOUS
<1> USE Kinds DEF Copies!BackupAssumption, Copies!Jobs, CopiesShape, OneAdmin, Copies!files,
        Copies!jobs, Copies!Loop, Copies!Goto
<1>1. CASE Copies!Log \/ Copies!Throttled \/ Copies!IntegrityCheck \/ Copies!VerdictExpires
  BY <1>1 DEF Copies!Log, Copies!Throttled, Copies!IntegrityCheck, Copies!VerdictExpires
<1>2. CASE Copies!Signal \/ Copies!Saved
  BY <1>2 DEF Copies!Signal, Copies!Saved
<1>3. CASE Copies!Stop
  <2>1. \A j \in Copies!Jobs : Copies!Kept(tmp) # Copies!OpenBy(j)
    BY DEF Copies!Kept, Copies!Absent, Copies!Whole, Copies!Torn, Copies!OpenBy
  <2> QED BY <1>3, <2>1 DEF Copies!Stop
<1>4. CASE Copies!Boot \/ Copies!RotateLog \/ Copies!Booted
  BY <1>4 DEF Copies!Boot, Copies!RotateLog, Copies!Booted
<1>5. ASSUME NEW j \in Copies!Jobs, Copies!Prune(j) \/ Copies!Request(j) PROVE OneAdmin'
  BY <1>5 DEF Copies!Prune, Copies!Request, Copies!Transfer
<1>6. ASSUME NEW j \in Copies!Jobs, Copies!StartCopy(j) PROVE OneAdmin'
  BY <1>6 DEF Copies!StartCopy, Copies!Transfer
<1>7. ASSUME NEW j \in Copies!Jobs, Copies!CopyDone(j) PROVE OneAdmin'
  <2>1. \A k \in Copies!Jobs : Copies!Landed(tmp, j) = Copies!OpenBy(k) =>
            k # j /\ tmp = Copies!OpenBy(k)
    BY DEF Copies!Landed
  <2>2. pc[j] = "copying"
    BY <1>7 DEF Copies!CopyDone
  <2>3. CASE Copies!Verified(Copies!Landed(tmp, j))
    <3>1. /\ tmp' = Copies!Landed(tmp, j)
          /\ pc' = [pc EXCEPT ![j] = "rotated"]
          /\ inFlight' = inFlight
      BY <1>7, <2>3 DEF Copies!CopyDone
    <3> QED BY <2>1, <2>2, <3>1
  <2>4. CASE ~Copies!Verified(Copies!Landed(tmp, j))
    <3>1. Copies!Rejected(j)
      BY <1>7, <2>4 DEF Copies!CopyDone
    <3> QED BY <2>2, <3>1 DEF Copies!Rejected, Copies!Release
  <2> QED BY <2>3, <2>4
<1>8. ASSUME NEW j \in Copies!Jobs, Copies!Rename(j) \/ Copies!RenameFails(j) PROVE OneAdmin'
  BY <1>8 DEF Copies!Rename, Copies!RenameFails, Copies!Rejected, Copies!Release
<1>9. ASSUME NEW j \in Copies!Jobs, Copies!CopyFails(j) \/ Copies!FallBack(j) PROVE OneAdmin'
  BY <1>9 DEF Copies!CopyFails, Copies!FallBack, Copies!Rejected, Copies!Release
<1>10. CASE UNCHANGED Copies!vars
  BY <1>10 DEF Copies!vars
<1> QED BY <1>1, <1>2, <1>3, <1>4, <1>5, <1>6, <1>7, <1>8, <1>9, <1>10
           DEF Copies!Next, Copies!Progress

\* The cached verdict is dropped by the end of the process, and otherwise stays
\* true of main.
LEMMA VerdictStep ==
  Copies!BackupAssumption /\ CopiesInv /\ [Copies!Next]_Copies!vars =>
      NoVerdictWhileDown' /\ Copies!CachedVerdictHolds'
<1> SUFFICES ASSUME Copies!BackupAssumption, CopiesInv, [Copies!Next]_Copies!vars
             PROVE  NoVerdictWhileDown' /\ Copies!CachedVerdictHolds'
  OBVIOUS
<1> USE DEF CopiesInv, NoVerdictWhileDown, Copies!CachedVerdictHolds, Copies!files, Copies!jobs,
        Copies!Loop
<1> DEFINE Goal == NoVerdictWhileDown' /\ Copies!CachedVerdictHolds'
<1>1. CASE Copies!Log \/ Copies!Throttled \/ Copies!VerdictExpires
  BY <1>1 DEF Copies!Log, Copies!Throttled, Copies!VerdictExpires
<1>2. CASE Copies!IntegrityCheck
  BY <1>2 DEF Copies!IntegrityCheck, Copies!Good
<1>3. CASE Copies!Signal \/ Copies!Saved
  BY <1>3 DEF Copies!Signal, Copies!Saved
<1>4. CASE Copies!Stop \/ Copies!Boot \/ Copies!RotateLog \/ Copies!Booted
  BY <1>4 DEF Copies!Stop, Copies!Boot, Copies!RotateLog, Copies!Booted
<1>5. ASSUME NEW j \in Copies!Jobs, Copies!Prune(j) \/ Copies!Request(j) \/ Copies!StartCopy(j)
      PROVE  Goal
  BY <1>5 DEF Copies!Prune, Copies!Request, Copies!StartCopy, Copies!Transfer
<1>6. ASSUME NEW j \in Copies!Jobs, Copies!CopyDone(j) PROVE Goal
  <2>1. mode' = mode /\ mode = "up" /\ UNCHANGED <<verdict, overlap>>
    BY <1>6 DEF Copies!CopyDone
  <2>2. main' = Copies!Absent \/ main' = Copies!Landed(main, j)
    BY <1>6 DEF Copies!CopyDone
  <2> QED BY <2>1, <2>2, LandedKinds DEF Copies!Absent
<1>7. ASSUME NEW j \in Copies!Jobs, Copies!Rename(j) PROVE Goal
  <2>1. turn = j /\ mode' = mode /\ mode = "up" /\ main' = tmp /\ verdict' = verdict
        /\ overlap' = (overlap \/ tmp.kind = "open")
    BY <1>7 DEF Copies!Rename
  <2>2. tmp = Copies!Whole \/ tmp.kind = "open"
    BY <2>1, Kinds DEF CopiesShape, Copies!BackupAssumption, Copies!Jobs
  <2>3. ~overlap' => ~overlap /\ tmp.kind # "open"
    BY <2>1, Zenon
  <2> QED BY <2>1, <2>2, <2>3 DEF Copies!Whole
<1>8. ASSUME NEW j \in Copies!Jobs, Copies!RenameFails(j) PROVE Goal
  BY <1>8 DEF Copies!RenameFails
<1>9. ASSUME NEW j \in Copies!Jobs, Copies!CopyFails(j) \/ Copies!FallBack(j) PROVE Goal
  <2>1. mode' = mode /\ mode \in {"up", "closing"} /\ UNCHANGED <<verdict, overlap>>
    BY <1>9 DEF Copies!CopyFails, Copies!FallBack
  <2>2. main' = Copies!Whole \/ main' = Copies!Broken(main, j)
    BY <1>9 DEF Copies!CopyFails, Copies!FallBack
  <2> QED BY <2>1, <2>2, LandedKinds DEF Copies!Whole
<1>10. CASE UNCHANGED Copies!vars
  BY <1>10 DEF Copies!vars
<1> QED BY <1>1, <1>2, <1>3, <1>4, <1>5, <1>6, <1>7, <1>8, <1>9, <1>10
           DEF Copies!Next, Copies!Progress

-----------------------------------------------------------------------------
(* Responses to anomalies.                                                 *)

\* Rows waiting are counted by age.
AgesShape ==
    /\ waiting \in [Odd!Ages -> 0..MaxRows] /\ fresh \subseteq 0..Window
    /\ restarted \in 0..Odd!Old /\ embedded \in BOOLEAN

\* After a restart the loop has either a row to take that is younger, or taken
\* one.
RowIsThere ==
    restarted # Odd!Old =>
        \/ ~embedded /\ \E a \in 0..restarted : waiting[a] > 0
        \/ embedded /\ \E a \in fresh : a <= restarted

\* Inductive: the history variable stays false.
AnomalyInv == AgesShape /\ RowIsThere /\ ~again

\* The row the loop takes next is the youngest that waits.
LEMMA Youngest ==
    ASSUME Odd!AnomaliesAssumption, AgesShape, NEW a \in Odd!Ages, waiting[a] > 0
    PROVE  /\ Odd!NextAge \in Odd!Ages /\ waiting[Odd!NextAge] > 0
           /\ \A b \in Odd!Ages : waiting[b] > 0 => Odd!NextAge <= b
<1> DEFINE S == {b \in Odd!Ages : waiting[b] > 0}
<1>1. S \subseteq Nat /\ S # {}
  BY DEF Odd!Ages, Odd!Old, Odd!AnomaliesAssumption
<1> HIDE DEF S
<1>3. \E m \in S : \A b \in S : m <= b
  BY <1>1, Minimum
<1>4. Odd!NextAge \in S /\ \A b \in S : Odd!NextAge <= b
  <2>1. Odd!NextAge = CHOOSE x \in S : \A y \in S : x <= y
    BY DEF Odd!NextAge, Odd!Min, S
  <2> QED BY <1>3, <2>1
<1> QED BY <1>4 DEF S

\* Nothing has been restarted at first.
LEMMA InitAnomalies == Odd!AnomaliesAssumption /\ Odd!Init => AnomalyInv
<1> SUFFICES ASSUME Odd!AnomaliesAssumption, Odd!Init PROVE AnomalyInv
  OBVIOUS
<1>1. Window \in Nat /\ Odd!Old = Window + 1 /\ MaxRows \in Nat
  BY DEF Odd!AnomaliesAssumption, Odd!Old
<1>2. waiting \in [Odd!Ages -> 0..MaxRows] /\ fresh \subseteq 0..Window /\ restarted \in 0..Odd!Old
  BY <1>1 DEF Odd!Init
<1>3. restarted = Odd!Old /\ embedded = FALSE /\ again = FALSE
  BY DEF Odd!Init
<1> QED BY <1>2, <1>3 DEF AnomalyInv, AgesShape, RowIsThere

\* One more row is of age 0 and empties no age.
LEMMA MoreRows ==
    ASSUME Odd!AnomaliesAssumption, AgesShape
    PROVE  /\ Odd!OneMore \in [Odd!Ages -> 0..MaxRows] /\ Odd!OneMore[0] > 0
           /\ \A a \in Odd!Ages : waiting[a] > 0 => Odd!OneMore[a] > 0
BY DEF Odd!AnomaliesAssumption, AgesShape, Odd!OneMore, Odd!Ages, Odd!Old, Odd!Least

\* Every step keeps it.
LEMMA AnomalyStep ==
    Odd!AnomaliesAssumption /\ AnomalyInv /\ [Odd!AnomaliesNext]_Odd!vars => AnomalyInv'
<1> SUFFICES ASSUME Odd!AnomaliesAssumption, AnomalyInv, [Odd!AnomaliesNext]_Odd!vars
             PROVE  AnomalyInv'
  OBVIOUS
<1> USE DEF AnomalyInv, AgesShape, RowIsThere, Odd!rows, Odd!seen
<1>0. Window \in Nat /\ Odd!Old = Window + 1 /\ Odd!Ages = 0..(Window + 1) /\ MaxRows \in Nat
  BY DEF Odd!AnomaliesAssumption, Odd!Old, Odd!Ages
<1>1. CASE UNCHANGED <<waiting, fresh, Odd!seen>>
  BY <1>1
<1>2. CASE waiting' = Odd!OneMore /\ UNCHANGED <<fresh, Odd!seen>>
  BY <1>0, <1>2, MoreRows
<1>3. CASE Odd!Embeds
  <2>1. PICK a \in Odd!Ages : waiting[a] > 0
    BY <1>3 DEF Odd!Embeds
  <2>2. /\ Odd!NextAge \in Odd!Ages /\ waiting[Odd!NextAge] > 0
        /\ \A b \in Odd!Ages : waiting[b] > 0 => Odd!NextAge <= b
    BY <2>1, Youngest
  <2>3. fresh' = fresh \cup ({Odd!NextAge} \ {Odd!Old}) /\ embedded' = TRUE
          /\ UNCHANGED <<restarted, again>>
    BY <1>3 DEF Odd!Embeds
  <2>4. waiting' = waiting \/ waiting' = [waiting EXCEPT ![Odd!NextAge] = @ - 1]
    BY <1>3 DEF Odd!Embeds
  <2> HIDE DEF RowIsThere
  <2>5. waiting' \in [Odd!Ages -> 0..MaxRows]
    BY <1>0, <2>2, <2>4
  <2>6. RowIsThere'
    BY <1>0, <2>2, <2>3 DEF RowIsThere
  <2> QED BY <1>0, <2>2, <2>3, <2>5, <2>6
<1>4. CASE Odd!Tick
  <2>1. /\ fresh' = {a + 1 : a \in fresh} \ {Odd!Old}
        /\ restarted' = Odd!Least(restarted + 1, Odd!Old)
        /\ UNCHANGED <<embedded, again>>
        /\ waiting' = [a \in Odd!Ages |-> CASE a = 0   -> 0
                                        [] a = Odd!Old -> Odd!Least(waiting[Window] + waiting[Odd!Old], MaxRows)
                                        [] OTHER   -> waiting[a - 1]]
    BY <1>4 DEF Odd!Tick
  <2>2. waiting' \in [Odd!Ages -> 0..MaxRows]
    BY <1>0, <2>1 DEF Odd!Least
  <2>3. \A a \in 0..Window : a + 1 # Odd!Old => waiting'[a + 1] = waiting[a]
    BY <1>0, <2>1
  <2>4. fresh' \subseteq 0..Window /\ restarted' \in 0..Odd!Old
    BY <1>0, <2>1 DEF Odd!Least
  <2>5. RowIsThere'
    <3> SUFFICES ASSUME restarted' # Odd!Old PROVE RowIsThere'
      OBVIOUS
    <3>1. restarted' = restarted + 1 /\ restarted + 1 <= Window
      BY <1>0, <2>1 DEF Odd!Least
    <3>2. CASE ~embedded
      <4>1. PICK a \in 0..restarted : waiting[a] > 0
        BY <1>0, <3>1, <3>2
      <4>2. a + 1 \in 0..restarted' /\ waiting'[a + 1] > 0
        BY <1>0, <2>3, <3>1, <4>1
      <4> QED BY <2>1, <3>2, <4>2
    <3>3. CASE embedded
      <4>1. PICK a \in fresh : a <= restarted
        BY <1>0, <3>1, <3>3
      <4>2. a + 1 \in fresh' /\ a + 1 <= restarted'
        BY <1>0, <2>1, <3>1, <4>1
      <4> QED BY <2>1, <3>3, <4>2
    <3> QED BY <3>2, <3>3
  <2> QED BY <2>1, <2>2, <2>4, <2>5
<1>5. ASSUME NEW alerts, NEW failed \in BOOLEAN, NEW recorded \in BOOLEAN,
             Odd!Alert(alerts, failed, recorded), UNCHANGED fresh,
             "stall" \in alerts => Odd!Stalled
      PROVE  AnomalyInv'
  <2>1. PICK tried \in Odd!Tried(alerts) :
          /\ failed => "stall" \in tried
          /\ IF failed THEN Odd!TimesOut
                       ELSE IF "stall" \in tried THEN Odd!Kickstart(recorded) ELSE Odd!NoRestart
          /\ Odd!Audit(IF failed THEN tried \ {"stall"} ELSE tried, recorded)
    BY <1>5 DEF Odd!Alert
  <2>2. waiting' = waiting \/ waiting' = Odd!OneMore
    BY <2>1 DEF Odd!Audit
  <2>3. CASE failed \/ "stall" \notin tried
    <3>1. UNCHANGED Odd!seen
      BY <2>1, <2>3 DEF Odd!TimesOut, Odd!NoRestart
    <3> QED BY <1>1, <1>2, <1>5, <2>2, <3>1
  <2>4. CASE ~failed /\ "stall" \in tried /\ ~recorded
    <3>1. /\ UNCHANGED <<waiting, restarted, embedded>>
          /\ again' = (again \/ (restarted < Window /\ embedded))
      BY <2>1, <2>4 DEF Odd!Audit, Odd!Kickstart
    <3>2. fresh = {}
      BY <1>5, <2>4 DEF Odd!Tried, Odd!Stalled
    <3>3. ~(restarted < Window /\ embedded)
      BY <1>0, <3>2
    <3>4. ~again'
      BY <3>1, <3>3, Zenon
    <3> QED BY <1>5, <3>1, <3>4
  <2>5. CASE ~failed /\ "stall" \in tried /\ recorded
    <3>1. waiting' = Odd!OneMore /\ restarted' = 0 /\ embedded' = FALSE
          /\ again' = (again \/ (restarted < Window /\ embedded))
      BY <2>1, <2>5 DEF Odd!Audit, Odd!Kickstart
    <3>2. fresh = {}
      BY <1>5, <2>5 DEF Odd!Tried, Odd!Stalled
    <3>3. ~(restarted < Window /\ embedded)
      BY <1>0, <3>2
    <3>4. Odd!OneMore \in [Odd!Ages -> 0..MaxRows] /\ Odd!OneMore[0] > 0
      BY MoreRows
    <3> HIDE DEF RowIsThere
    <3>5. RowIsThere'
      <4>1. 0 \in 0..restarted' /\ waiting'[0] > 0 /\ ~embedded'
        BY <3>1, <3>4
      <4> QED BY <4>1 DEF RowIsThere
    <3>6. AgesShape'
      <4>1. restarted' \in 0..Odd!Old
        BY <1>0, <3>1
      <4> QED BY <1>5, <3>1, <3>4, <4>1
    <3>7. ~again'
      BY <3>1, <3>3, Zenon
    <3> QED BY <3>5, <3>6, <3>7
  <2> QED BY <2>3, <2>4, <2>5
<1>6. CASE Odd!Detect
  <2>1. PICK others \in {{}} \cup {{k} : k \in Odd!Others}, failed, recorded \in BOOLEAN :
          LET alerts == others \cup (IF Odd!Stalled THEN {"stall"} ELSE {}) IN
          IF alerts = {} THEN UNCHANGED <<waiting, Odd!seen>> ELSE Odd!Alert(alerts, failed, recorded)
    BY <1>6, Zenon DEF Odd!Detect, Odd!seen
  <2> DEFINE alerts == others \cup (IF Odd!Stalled THEN {"stall"} ELSE {})
  <2>2. "stall" \in alerts => Odd!Stalled
    BY DEF Odd!Others
  <2>3. UNCHANGED fresh
    BY <1>6 DEF Odd!Detect
  <2> QED BY <1>1, <1>5, <2>1, <2>2, <2>3
<1> QED BY <1>1, <1>2, <1>3, <1>4, <1>6
           DEF Odd!AnomaliesNext, Odd!Stored, Odd!StoredQuiet, Odd!Sticks, Odd!ServerRestarts,
               Odd!vars

-----------------------------------------------------------------------------
(* The approval of changes.                                                *)

\* Files and their texts.
Contents == [Files -> Patch!Text]

\* Where an approval stands.
Standing == {"branch", "write", "test", "undo", "leave", "delete", "commit", "return", "merge",
             "drop", "reload"}
Steps == {Patch!Free} \cup [at : Standing, patch : Patches, original : Patch!Text]

\* The branch checked out, at every place an approval stands.
Places ==
    /\ Listed(log) /\ \A i \in DOMAIN log : log[i].files \in Contents
    /\ Patch!Main \in DOMAIN tip /\ head \in DOMAIN tip
    /\ tip = [b \in DOMAIN tip |-> tip[b]] /\ \A b \in DOMAIN tip : tip[b] \in DOMAIN log
    /\ work \in Contents
    /\ step \in Steps
    /\ step.at \in {"write", "test", "undo", "leave", "commit", "return"} => head = step.patch
    /\ step.at = "merge" => step.patch \in DOMAIN tip
    /\ step.at \in {"merge", "drop", "delete", "reload"} => head = Patch!Main

\* Unless a file was left untested, or git made one: what is committed parses,
\* and so do the files, but for the one under test, and what was read of it.
AllSound ==
    ~cut /\ ~untested =>
        /\ \A i \in DOMAIN log, f \in Files : log[i].files[f] \in Sound
        /\ \A f \in Files : work[f] \in Sound \/ (step.at \in {"test", "undo"} /\ f = FileOf[step.patch])
        /\ step.at \in {"branch", "write", "test", "undo"} => step.original \in Sound

\* The two together are inductive.
PatchInv == Places /\ AllSound

\* Main has what parses at first.
LEMMA InitPatch == Patch!PatchFlowAssumption /\ Patch!Init => PatchInv
<1> SUFFICES ASSUME Patch!PatchFlowAssumption, Patch!Init PROVE PatchInv
  OBVIOUS
<1>1. Patch!Clean \in Contents /\ \A f \in Files : Patch!Clean[f] \in Sound
  BY DEF Patch!Clean, Contents, Patch!Text, Patch!PatchFlowAssumption
<1> DEFINE first == [files |-> Patch!Clean, past |-> {}]
<1>2. log \in Seq({first}) /\ DOMAIN log = {1} /\ log[1] = first
  BY DEF Patch!Init
<1>3. first.files = Patch!Clean
  OBVIOUS
<1> HIDE DEF first
<1>4. Listed(log) /\ \A i \in DOMAIN log : log[i].files = Patch!Clean
  BY <1>2, <1>3 DEF Listed
<1> QED BY <1>1, <1>2, <1>4 DEF Patch!Init, PatchInv, Places, AllSound, Patch!Free, Steps

\* An approval that goes on.
LEMMA ApprovalGoesOn ==
    ASSUME Places, step.at \in Standing, NEW place \in Standing, Patch!Goes(place)
    PROVE  /\ step' \in Steps /\ step'.at = place
           /\ step'.patch = step.patch /\ step'.original = step.original
           /\ step.patch \in Patches /\ step.original \in Patch!Text
BY DEF Places, Steps, Standing, Patch!Goes, Patch!Free

\* What the branches have, and what a checkout leaves.
LEMMA Checkouts ==
    ASSUME PatchInv, NEW b \in DOMAIN tip
    PROVE  /\ Patch!Tip(b) \in Contents /\ Patch!Tip(head) \in Contents
           /\ Patch!CheckedOut(b) \in Contents
           /\ \A f \in Files : Patch!CheckedOut(b)[f] \in {work[f], Patch!Tip(b)[f]}
           /\ ~cut /\ ~untested => \A f \in Files : Patch!Tip(b)[f] \in Sound
<1>1. Patch!Tip(b) \in Contents /\ Patch!Tip(head) \in Contents
  BY DEF PatchInv, Places, Patch!Tip
<1>2. /\ Patch!CheckedOut(b) \in Contents
      /\ \A f \in Files : Patch!CheckedOut(b)[f] \in {work[f], Patch!Tip(b)[f]}
  BY <1>1 DEF PatchInv, Places, Patch!CheckedOut, Contents
<1>3. ~cut /\ ~untested => \A f \in Files : Patch!Tip(b)[f] \in Sound
  BY DEF PatchInv, Places, AllSound, Patch!Tip
<1> QED BY <1>1, <1>2, <1>3

\* The file of the patch, and the others, after a write.
LEMMA WriteFacts ==
    ASSUME Patch!PatchFlowAssumption, Places, step.patch \in Patches, NEW text \in Patch!Text,
           Patch!Writes(text)
    PROVE  /\ work' \in Contents /\ work'[FileOf[step.patch]] = text
           /\ \A f \in Files : f # FileOf[step.patch] => work'[f] = work[f]
BY DEF Patch!PatchFlowAssumption, Places, Patch!Writes, Contents

\* A commit more.
LEMMA CommitFacts ==
    ASSUME Places, NEW files \in Contents, NEW past, Patch!Commits(files, past)
    PROVE  /\ Listed(log') /\ DOMAIN log' = DOMAIN log \cup {Len(log) + 1}
           /\ log'[Len(log) + 1].files = files
           /\ \A i \in DOMAIN log : log'[i] = log[i]
           /\ \A i \in DOMAIN log' : log'[i].files \in Contents
<1> DEFINE e == [files |-> files, past |-> past]
<1>1. log' = Append(log, e) /\ Listed(log) /\ e.files = files
  BY DEF Patch!Commits, Places
<1> HIDE DEF e
<1>2. /\ Listed(log') /\ DOMAIN log' = 1..(Len(log) + 1) /\ log'[Len(log) + 1] = e
      /\ \A i \in DOMAIN log : log'[i] = log[i]
  BY <1>1, AppendedIs
<1>3. DOMAIN log' = DOMAIN log \cup {Len(log) + 1}
  BY <1>1, <1>2, ListedAre
<1>4. \A i \in DOMAIN log' : log'[i].files \in Contents
  BY <1>1, <1>2, <1>3 DEF Places
<1> QED BY <1>1, <1>2, <1>3, <1>4

\* What git makes of two branches: where only one has changed a file, its text.
LEMMA CombinedFacts ==
    ASSUME NEW base, NEW ours \in Contents, NEW theirs \in Contents,
           NEW clash \in SUBSET Patch!BothChanged(base, ours, theirs)
    PROVE  /\ Patch!Combined(base, ours, theirs, clash) \in Contents
           /\ Patch!BothChanged(base, ours, theirs) = {} =>
                \A f \in Files : Patch!Combined(base, ours, theirs, clash)[f] \in {ours[f], theirs[f]}
<1> DEFINE c == Patch!Combined(base, ours, theirs, clash)
<1>1. ASSUME NEW f \in Files PROVE c[f] \in Patch!Text
  BY DEF Patch!Combined, Contents, Patch!Text
<1>2. c \in Contents
  BY <1>1 DEF Patch!Combined, Contents
<1>3. ASSUME Patch!BothChanged(base, ours, theirs) = {}, NEW f \in Files
      PROVE  c[f] \in {ours[f], theirs[f]}
  <2>1. f \notin clash /\ ~(base[f] # ours[f] /\ base[f] # theirs[f] /\ ours[f] # theirs[f])
    BY <1>3 DEF Patch!BothChanged
  <2> QED BY <2>1 DEF Patch!Combined
<1> QED BY <1>2, <1>3

\* An approval that ends leaves nothing to go by.
LEMMA ApprovalEnds ==
    ASSUME Places, step' = Patch!Free, UNCHANGED <<log, tip, head>>, work' \in Contents,
           ~cut' /\ ~untested' => ~cut /\ ~untested /\ AllSound /\ \A f \in Files : work'[f] \in Sound
    PROVE  PatchInv'
BY DEF Patch!Free, PatchInv, Places, AllSound, Steps

\* Merging two branches keeps it.
LEMMA MergeStep == Patch!PatchFlowAssumption /\ PatchInv /\ Patch!Merge => PatchInv'
<1> SUFFICES ASSUME Patch!PatchFlowAssumption, PatchInv, Patch!Merge PROVE PatchInv'
  OBVIOUS
<1> DEFINE p == step.patch
           base == Patch!Base(Patch!Main, p)
           ours == Patch!Tip(Patch!Main)
           theirs == Patch!Tip(p)
           both == Patch!BothChanged(base, ours, theirs)
<1>1. /\ step.at = "merge" /\ step.at \in Standing /\ p \in DOMAIN tip /\ Patch!Main \in DOMAIN tip
      /\ head = Patch!Main /\ UNCHANGED <<head, cut>>
  BY DEF Patch!Merge, PatchInv, Places, Standing
<1>2. ours \in Contents /\ theirs \in Contents
      /\ (~cut /\ ~untested => \A f \in Files : ours[f] \in Sound /\ theirs[f] \in Sound)
  BY <1>1, Checkouts
<1>3. "drop" \in Standing
  BY DEF Standing
<1>4. CASE /\ tip' = [tip EXCEPT ![Patch!Main] = tip[p]] /\ work' = theirs
           /\ Patch!Goes("drop") /\ UNCHANGED <<log, untested>>
  <2>1. /\ step' \in Steps /\ step'.at = "drop" /\ step'.patch = p
        /\ step'.original = step.original
    BY <1>1, <1>3, <1>4, ApprovalGoesOn DEF PatchInv
  <2>2. Places'
    BY <1>1, <1>2, <1>4, <2>1 DEF PatchInv, Places
  <2>3. AllSound'
    BY <1>1, <1>2, <1>4, <2>1 DEF PatchInv, AllSound
  <2> QED BY <2>2, <2>3 DEF PatchInv
<1>5. ASSUME NEW clash \in SUBSET both,
             untested' = (untested \/ both # {}),
             work' = Patch!Combined(base, ours, theirs, clash),
             IF clash = {}
             THEN /\ Patch!Commits(work', Patch!Past(Patch!Main) \cup Patch!Past(p))
                  /\ tip' = [tip EXCEPT ![Patch!Main] = Len(log) + 1]
                  /\ Patch!Goes("drop")
             ELSE step' = Patch!Free /\ UNCHANGED <<log, tip>>
      PROVE  PatchInv'
  <2>1. work' \in Contents /\ (~cut' /\ ~untested' => \A f \in Files : work'[f] \in Sound)
    <3>1. /\ work' \in Contents
          /\ both = {} => \A f \in Files : work'[f] \in {ours[f], theirs[f]}
      BY <1>2, <1>5, CombinedFacts
    <3> QED BY <1>1, <1>2, <1>5, <3>1
  <2>2. ~cut' /\ ~untested' => ~cut /\ ~untested
    BY <1>1, <1>5
  <2> HIDE DEF p, base, ours, theirs, both
  <2>3. CASE clash = {}
    <3> DEFINE past == Patch!Past(Patch!Main) \cup Patch!Past(p)
               files == work'
    <3>1. Patch!Commits(files, past)
      BY <1>5, <2>3
    <3> HIDE DEF past, files
    <3>2. /\ Listed(log') /\ DOMAIN log' = DOMAIN log \cup {Len(log) + 1}
          /\ log'[Len(log) + 1].files = files
          /\ \A i \in DOMAIN log : log'[i] = log[i]
          /\ \A i \in DOMAIN log' : log'[i].files \in Contents
      BY <2>1, <3>1, CommitFacts DEF PatchInv, files
    <3>3. /\ step' \in Steps /\ step'.at = "drop" /\ step'.patch = p
          /\ step'.original = step.original
      BY <1>1, <1>3, <1>5, <2>3, ApprovalGoesOn DEF PatchInv, p
    <3>4. Places'
      BY <1>1, <1>5, <2>1, <2>3, <3>2, <3>3 DEF PatchInv, Places
    <3>5. AllSound'
      BY <2>1, <2>2, <3>2, <3>3 DEF PatchInv, AllSound, files
    <3> QED BY <3>4, <3>5 DEF PatchInv
  <2>4. CASE clash # {}
    BY <1>1, <1>5, <2>1, <2>2, <2>4, ApprovalEnds DEF PatchInv
  <2> QED BY <2>3, <2>4
<1> QED BY <1>4, <1>5 DEF Patch!Merge

\* Every step keeps it.
LEMMA PatchStep == Patch!PatchFlowAssumption /\ PatchInv /\ [Patch!Next]_Patch!vars => PatchInv'
<1> SUFFICES ASSUME Patch!PatchFlowAssumption, PatchInv, [Patch!Next]_Patch!vars PROVE PatchInv'
  OBVIOUS
<1> USE DEF Patch!git, Patch!hist
<1>0. Places /\ AllSound
  BY DEF PatchInv
<1>1. ASSUME NEW p \in Patches, Patch!Approve(p) PROVE PatchInv'
  <2>1. step = Patch!Free /\ UNCHANGED <<log, tip, head, work, cut, untested>>
    BY <1>1 DEF Patch!Approve
  <2>2. CASE UNCHANGED step
    BY <1>0, <2>1, <2>2 DEF PatchInv, Places, AllSound
  <2>3. CASE step' = [at |-> "branch", patch |-> p, original |-> work[FileOf[p]]]
    <3>1. FileOf[p] \in Files
      BY DEF Patch!PatchFlowAssumption
    <3>2. work[FileOf[p]] \in Patch!Text /\ (~cut /\ ~untested => work[FileOf[p]] \in Sound)
      BY <1>0, <2>1, <3>1 DEF Places, AllSound, Contents, Patch!Free
    <3>3. step' \in Steps /\ step'.at = "branch" /\ step'.original = work[FileOf[p]]
      BY <2>3, <3>2 DEF Steps, Standing
    <3> QED BY <1>0, <2>1, <3>2, <3>3 DEF PatchInv, Places, AllSound, Patch!Free
  <2> QED BY <1>1, <2>2, <2>3 DEF Patch!Approve
<1>2. CASE Patch!Branch
  <2> DEFINE p == step.patch
  <2>1. /\ step.at = "branch" /\ step.at \in Standing /\ "write" \in Standing
        /\ UNCHANGED <<log, cut, untested>>
    BY <1>2 DEF Patch!Branch, Standing
  <2>2. \A f \in Files : ~cut /\ ~untested => work[f] \in Sound
    BY <1>0, <2>1 DEF AllSound
  <2>3. CASE tip' = Patch!With(p, tip[head]) /\ head' = p /\ Patch!Goes("write") /\ UNCHANGED work
    <3>1. step' \in Steps /\ step'.at = "write" /\ step'.patch = p /\ step'.original = step.original
      BY <1>0, <2>1, <2>3, ApprovalGoesOn
    <3>2. /\ DOMAIN tip' = DOMAIN tip \cup {p} /\ tip' = [b \in DOMAIN tip' |-> tip'[b]]
          /\ \A b \in DOMAIN tip' : tip'[b] \in {tip[b], tip[head]} /\ (b # p => tip'[b] = tip[b])
          /\ tip'[p] = tip[head]
      BY <2>3 DEF Patch!With
    <3>3. \A b \in DOMAIN tip' : tip'[b] \in DOMAIN log
      BY <1>0, <3>2 DEF Places
    <3> QED BY <1>0, <2>1, <2>2, <2>3, <3>1, <3>2, <3>3 DEF PatchInv, Places, AllSound
  <2>4. CASE p \in DOMAIN tip /\ head' = p /\ work' = Patch!CheckedOut(p)
             /\ Patch!Goes("write") /\ UNCHANGED tip
    <3>1. step' \in Steps /\ step'.at = "write" /\ step'.patch = p /\ step'.original = step.original
      BY <1>0, <2>1, <2>4, ApprovalGoesOn
    <3>2. /\ work' \in Contents
          /\ ~cut /\ ~untested => \A f \in Files : work'[f] \in Sound
      BY <2>2, <2>4, Checkouts
    <3> QED BY <1>0, <2>1, <2>4, <3>1, <3>2 DEF PatchInv, Places, AllSound
  <2>5. CASE step' = Patch!Free /\ UNCHANGED <<tip, head, work>>
    BY <1>0, <2>1, <2>2, <2>5, ApprovalEnds DEF Places
  <2> QED BY <1>2, <2>3, <2>4, <2>5 DEF Patch!Branch
<1>3. CASE Patch!Write \/ Patch!Undo
  <2>1. /\ step.at \in {"write", "undo"} /\ step.at \in Standing
        /\ UNCHANGED <<log, tip, head, cut, untested>>
    BY <1>3 DEF Patch!Write, Patch!Undo, Standing
  <2>2. PICK place \in {"test", "leave"} : /\ Patch!Goes(place)
                                           /\ place = "test" => Patch!Write
                                           /\ place = "leave" => Patch!Undo
    BY <1>3 DEF Patch!Write, Patch!Undo
  <2>3. /\ step' \in Steps /\ step'.at = place
        /\ step'.patch = step.patch /\ step'.original = step.original
        /\ step.patch \in Patches /\ step.original \in Patch!Text
    BY <1>0, <2>1, <2>2, ApprovalGoesOn DEF Standing
  <2>4. PICK text \in Patch!Text : /\ Patch!Writes(text)
                                   /\ place = "leave" => text = step.original
    BY <2>2, <2>3 DEF Patch!Write, Patch!Undo, Patch!Text
  <2>5. /\ work' \in Contents /\ work'[FileOf[step.patch]] = text
        /\ \A f \in Files : f # FileOf[step.patch] => work'[f] = work[f]
    BY <1>0, <2>3, <2>4, WriteFacts
  <2>6. Places'
    BY <1>0, <2>1, <2>2, <2>3, <2>5 DEF Places
  <2>7. AllSound'
    BY <1>0, <2>1, <2>2, <2>3, <2>4, <2>5 DEF AllSound
  <2> QED BY <2>6, <2>7 DEF PatchInv
<1>4. CASE Patch!Test
  <2>1. /\ step.at = "test" /\ step.at \in Standing
        /\ UNCHANGED <<log, tip, head, work, cut, untested>>
    BY <1>4 DEF Patch!Test, Standing
  <2>2. PICK place \in {"commit", "undo"} : /\ Patch!Goes(place)
                                            /\ place = "commit" => work[FileOf[step.patch]] \in Sound
    BY <1>4 DEF Patch!Test, Patch!Passes
  <2>3. /\ step' \in Steps /\ step'.at = place
        /\ step'.patch = step.patch /\ step'.original = step.original
    BY <1>0, <2>1, <2>2, ApprovalGoesOn DEF Standing
  <2>4. Places'
    BY <1>0, <2>1, <2>2, <2>3 DEF Places
  <2>5. AllSound'
    BY <1>0, <2>1, <2>2, <2>3 DEF AllSound
  <2> QED BY <2>4, <2>5 DEF PatchInv
<1>5. CASE Patch!WriteFails
  <2>1. /\ step.at \in Standing /\ cut' = TRUE /\ step' = Patch!Free
        /\ UNCHANGED <<log, tip, head>> /\ (UNCHANGED work \/ Patch!Writes({Patch!Broken}))
    BY <1>5 DEF Patch!WriteFails, Standing
  <2>2. step.patch \in Patches /\ {Patch!Broken} \in Patch!Text
    BY <1>0, <2>1 DEF Places, Steps, Standing, Patch!Free, Patch!Text
  <2>3. work' \in Contents
    BY <1>0, <2>1, <2>2, WriteFacts DEF Places
  <2> QED BY <1>0, <2>1, <2>3, ApprovalEnds
<1>6. CASE Patch!Return
  <2>1. /\ step.at \in {"leave", "return"} /\ step.at \in Standing
        /\ UNCHANGED <<log, tip, cut, untested>>
    BY <1>6 DEF Patch!Return, Standing
  <2>2. \A f \in Files : ~cut /\ ~untested => work[f] \in Sound
    BY <1>0, <2>1 DEF AllSound
  <2>3. CASE work' = Patch!CheckedOut(Patch!Main) /\ head' = Patch!Main
             /\ Patch!Goes(IF step.at = "leave" THEN "delete" ELSE "merge")
    <3>1. PICK place \in {"delete", "merge"} : Patch!Goes(place)
      BY <2>3
    <3>2. /\ step' \in Steps /\ step'.at = place
          /\ step'.patch = step.patch /\ step'.original = step.original
      BY <1>0, <2>1, <3>1, ApprovalGoesOn DEF Standing
    <3>3. /\ work' \in Contents
          /\ ~cut /\ ~untested => \A f \in Files : work'[f] \in Sound
      BY <1>0, <2>2, <2>3, Checkouts DEF Places
    <3>4. step.patch \in DOMAIN tip
      BY <1>0, <2>1 DEF Places
    <3> QED BY <1>0, <2>1, <2>3, <3>2, <3>3, <3>4 DEF PatchInv, Places, AllSound
  <2>4. CASE step' = Patch!Free /\ UNCHANGED <<work, head>>
    BY <1>0, <2>1, <2>2, <2>4, ApprovalEnds DEF Places
  <2> QED BY <1>6, <2>3, <2>4 DEF Patch!Return
<1>7. CASE Patch!Delete \/ Patch!Drop
  <2> DEFINE p == step.patch
  <2>1. /\ step.at \in {"delete", "drop"} /\ tip' = Patch!Without(p)
        /\ step' = Patch!Free \/ Patch!Goes("reload")
        /\ UNCHANGED <<log, head, work, cut, untested>>
    BY <1>7 DEF Patch!Delete, Patch!Drop
  <2>2. p \in Patches /\ p # Patch!Main
    BY <1>0, <2>1 DEF Places, Steps, Patch!Free, Patch!PatchFlowAssumption
  <2>3. /\ DOMAIN tip' = DOMAIN tip \ {p} /\ tip' = [b \in DOMAIN tip' |-> tip'[b]]
        /\ \A b \in DOMAIN tip' : tip'[b] = tip[b]
    BY <2>1 DEF Patch!Without
  <2>4. step' \in Steps /\ step'.at \in {"free", "reload"}
    BY <1>0, <2>1, ApprovalGoesOn DEF Steps, Standing, Patch!Free
  <2> HIDE DEF p
  <2>5. Places'
    BY <1>0, <2>1, <2>2, <2>3, <2>4 DEF Places
  <2>6. AllSound'
    BY <1>0, <2>1, <2>4 DEF AllSound
  <2> QED BY <2>5, <2>6 DEF PatchInv
<1>8. CASE Patch!Commit
  <2>1. step.at = "commit" /\ step.at \in Standing /\ UNCHANGED <<head, work, cut, untested>>
    BY <1>8 DEF Patch!Commit, Standing
  <2>2. CASE /\ Patch!Commits(work, Patch!Past(head)) /\ Patch!Goes("return")
             /\ tip' = [tip EXCEPT ![head] = Len(log) + 1]
    <3>1. /\ Listed(log') /\ DOMAIN log' = DOMAIN log \cup {Len(log) + 1}
          /\ log'[Len(log) + 1].files = work
          /\ \A i \in DOMAIN log : log'[i] = log[i]
          /\ \A i \in DOMAIN log' : log'[i].files \in Contents
      BY <1>0, <2>2, CommitFacts DEF Places
    <3>2. /\ step' \in Steps /\ step'.at = "return"
          /\ step'.patch = step.patch /\ step'.original = step.original
      BY <1>0, <2>1, <2>2, ApprovalGoesOn DEF Standing
    <3>3. Places'
      BY <1>0, <2>1, <2>2, <3>1, <3>2 DEF Places
    <3>4. AllSound'
      BY <1>0, <2>1, <3>1, <3>2 DEF AllSound
    <3> QED BY <3>3, <3>4 DEF PatchInv
  <2>3. CASE step' = Patch!Free /\ UNCHANGED <<log, tip>>
    BY <1>0, <2>1, <2>3, ApprovalEnds DEF Places, AllSound
  <2> QED BY <1>8, <2>2, <2>3 DEF Patch!Commit
<1>9. CASE Patch!Merge
  BY <1>9, MergeStep
<1>10. CASE Patch!Reload \/ Patch!Reloaded
  <2>1. step.at = "reload" /\ step' = Patch!Free /\ UNCHANGED <<log, tip, head, work, cut, untested>>
    BY <1>10 DEF Patch!Reload, Patch!Reloaded, Patch!Recorded
  <2> QED BY <1>0, <2>1, ApprovalEnds DEF Places, AllSound
<1>11. CASE Patch!Die
  <2>1. /\ step' = Patch!Free /\ UNCHANGED <<log, tip, head, work, untested>>
        /\ (cut' <=> cut \/ step.at \in {"test", "undo"})
    BY <1>11 DEF Patch!Die, Patch!Tested
  <2> QED BY <1>0, <2>1, ApprovalEnds DEF Places, AllSound
<1>12. CASE Patch!Fails({"branch", "leave", "delete", "commit", "return", "merge", "drop", "reload"})
  <2>1. /\ step' = Patch!Free /\ UNCHANGED <<log, tip, head, work, cut, untested>>
        /\ step.at \notin {"test", "undo"}
    BY <1>12 DEF Patch!Fails
  <2> QED BY <1>0, <2>1, ApprovalEnds DEF Places, AllSound
<1>13. CASE \/ \E p \in Patches : Patch!Reject(p)
            \/ Patch!IdeaNext \/ UNCHANGED Patch!vars
  <2>1. UNCHANGED <<log, tip, head, work, step, cut, untested>>
    BY <1>13 DEF Patch!Reject, Patch!IdeaNext, Patch!Adopt, Patch!Dismiss, Patch!vars
  <2> QED BY <1>0, <2>1 DEF PatchInv, Places, AllSound
<1> QED BY <1>1, <1>2, <1>3, <1>4, <1>5, <1>6, <1>7, <1>8, <1>9, <1>10, <1>11, <1>12, <1>13
        DEF Patch!Next, Patch!PatchNext

\* Main is one of the tips.
LEMMA PatchGives == PatchInv => Patch!OnlySoundMerged
BY DEF PatchInv, Places, AllSound, Patch!OnlySoundMerged, Patch!MainIsSound, Patch!Tip

-----------------------------------------------------------------------------
(* The making of skills.                                                   *)

\* What a job is in the middle of.
JobState == [at : {"idle", "over", "discover", "search", "predict", "gaps", "suggest", "select", "create"},
             topic : Topics \cup {"none"}, batch : SUBSET Nat, names : SUBSET Names, seen : Nat]

\* The rows of the three tables that are sequences.
FoundRow      == [topic : Topics, by : Skill!Jobs, seen : Nat]
SuggestionRow == [text : BOOLEAN, made : BOOLEAN]
RegistryRow   == [name : Names, of : Nat, by : Skill!Jobs, seen : Nat, marked : BOOLEAN]

TablesShape ==
    /\ found \in Seq(FoundRow) /\ suggestions \in Seq(SuggestionRow)
    /\ registry \in Seq(RegistryRow)

\* What a job has at the two steps that use it.
StateShape(r) ==
    /\ r \in JobState
    /\ r.at = "search" => r.topic \in Topics
    /\ r.at = "create" => r.batch # {}

\* What a job goes by is true of every row that it has seen or written itself:
\* a topic not found, names that are known, suggestions whose row is not marked.
Sees(j, r, searched, registered, suggested) ==
    /\ r.at = "search" =>
         /\ r.seen <= Len(searched)
         /\ \A i \in DOMAIN searched :
              i <= r.seen \/ searched[i].by = j => searched[i].topic # r.topic
    /\ r.at = "create" =>
         /\ r.seen <= Len(registered) /\ r.batch \subseteq DOMAIN suggested
         /\ \A i \in DOMAIN registered :
              i <= r.seen \/ registered[i].by = j =>
                /\ registered[i].name \in r.names
                /\ registered[i].marked => registered[i].of \notin r.batch

\* A marked row's suggestion has the tag.
Marked ==
    \A i \in DOMAIN registry :
        registry[i].marked => /\ registry[i].of \in DOMAIN suggestions
                              /\ suggestions[registry[i].of].made

SkillInv ==
    /\ TablesShape /\ Marked /\ Skill!OneSkillEach
    /\ job \in [Skill!Jobs -> JobState]
    /\ \A j \in Skill!Jobs : StateShape(job[j]) /\ Sees(j, job[j], found, registry, suggestions)

\* The states a job goes to without anything in hand.
LEMMA NextStates ==
    /\ \A kind \in {"idle", "over", "discover", "predict", "gaps", "suggest", "select"} :
         /\ StateShape(Skill!At(kind))
         /\ \A j, x, y, z : Sees(j, Skill!At(kind), x, y, z)
    /\ \A j : \E kind \in {"idle", "over"} : Skill!Done(j) = Skill!At(kind)
BY DEF Skill!At, Skill!Done, Skill!Idle, JobState, StateShape, Sees

\* No job is at work at first.
LEMMA InitSkill == Skill!Init => SkillInv
<1> SUFFICES ASSUME Skill!Init PROVE SkillInv
  OBVIOUS
<1>1. \A j \in Skill!Jobs : job[j] = Skill!At("idle")
  BY DEF Skill!Init, Skill!Idle
<1>2. job \in [Skill!Jobs -> JobState]
  BY <1>1, NextStates DEF Skill!Init, StateShape, Skill!Idle
<1>3. TablesShape /\ Marked /\ Skill!OneSkillEach
  BY DEF Skill!Init, TablesShape, Marked, Skill!OneSkillEach
<1> QED BY <1>1, <1>2, <1>3, NextStates DEF SkillInv

\* A row at the end of a table leaves the rows before it alone.
LEMMA OneMoreRow ==
    ASSUME NEW S, NEW list \in Seq(S), NEW x \in S
    PROVE  /\ Append(list, x) \in Seq(S)
           /\ Len(list) \in Nat /\ DOMAIN list = 1..Len(list)
           /\ Len(Append(list, x)) = Len(list) + 1
           /\ DOMAIN Append(list, x) = 1..(Len(list) + 1)
           /\ \A i \in 1..Len(list) : Append(list, x)[i] = list[i]
           /\ Append(list, x)[Len(list) + 1] = x
BY AppendProperties, LenProperties

\* A table to which one job adds rows, or none.
Adds(j, old, new) ==
    /\ Len(old) \in Nat /\ DOMAIN old = 1..Len(old)
    /\ Len(new) \in Nat /\ DOMAIN new = 1..Len(new) /\ Len(old) <= Len(new)
    /\ \A i \in DOMAIN new : \/ i \in DOMAIN old /\ new[i] = old[i]
                             \/ i > Len(old) /\ new[i].by = j

LEMMA AddsNoneOrOne ==
    ASSUME NEW S, NEW list \in Seq(S), NEW j
    PROVE  /\ Adds(j, list, list)
           /\ \A x \in S : x.by = j => Adds(j, list, Append(list, x))
<1>1. Adds(j, list, list)
  BY LenProperties DEF Adds
<1>2. ASSUME NEW x \in S, x.by = j PROVE Adds(j, list, Append(list, x))
  BY <1>2, OneMoreRow DEF Adds
<1> QED BY <1>1, <1>2

\* Rows of one job leave what another has seen and written as it was.
LEMMA OthersSee ==
    ASSUME NEW j, NEW k, k # j, NEW r, r.seen \in Nat,
           NEW f, NEW more, NEW g, NEW grown, NEW s, NEW added,
           Sees(k, r, f, g, s), Adds(j, f, more), Adds(j, g, grown), DOMAIN s \subseteq DOMAIN added
    PROVE  Sees(k, r, more, grown, added)
<1>1. CASE r.at = "search"
  <2>1. /\ r.seen <= Len(f)
        /\ \A i \in DOMAIN f : i <= r.seen \/ f[i].by = k => f[i].topic # r.topic
    BY <1>1 DEF Sees
  <2>2. r.seen <= Len(more)
    BY <2>1 DEF Adds
  <2>3. ASSUME NEW i \in DOMAIN more, i <= r.seen \/ more[i].by = k PROVE more[i].topic # r.topic
    BY <2>1, <2>3 DEF Adds
  <2> QED BY <1>1, <2>2, <2>3 DEF Sees
<1>2. CASE r.at = "create"
  <2>1. /\ r.seen <= Len(g) /\ r.batch \subseteq DOMAIN s
        /\ \A i \in DOMAIN g : i <= r.seen \/ g[i].by = k =>
             g[i].name \in r.names /\ (g[i].marked => g[i].of \notin r.batch)
    BY <1>2 DEF Sees
  <2>2. r.seen <= Len(grown) /\ r.batch \subseteq DOMAIN added
    BY <2>1 DEF Adds
  <2>3. ASSUME NEW i \in DOMAIN grown, i <= r.seen \/ grown[i].by = k
        PROVE  grown[i].name \in r.names /\ (grown[i].marked => grown[i].of \notin r.batch)
    BY <2>1, <2>3 DEF Adds
  <2> QED BY <1>2, <2>2, <2>3 DEF Sees
<1> QED BY <1>1, <1>2 DEF Sees

\* A job that goes from one step to the next.
LEMMA JobStep ==
    ASSUME SkillInv, NEW j \in Skill!Jobs, NEW r, Skill!Goes(j, r), StateShape(r),
           TablesShape', Marked', Skill!OneSkillEach',
           Adds(j, found, found'), Adds(j, registry, registry'),
           DOMAIN suggestions \subseteq DOMAIN suggestions',
           Sees(j, r, found', registry', suggestions')
    PROVE  SkillInv'
<1>1. /\ job' \in [Skill!Jobs -> JobState] /\ job'[j] = r
      /\ \A k \in Skill!Jobs : k # j => job'[k] = job[k]
  BY DEF Skill!Goes, SkillInv, StateShape
<1>2. ASSUME NEW k \in Skill!Jobs, k # j
      PROVE  StateShape(job[k]) /\ Sees(k, job[k], found', registry', suggestions')
  <2>1. StateShape(job[k]) /\ Sees(k, job[k], found, registry, suggestions)
    BY DEF SkillInv
  <2>2. job[k].seen \in Nat
    BY <2>1 DEF StateShape, JobState
  <2> QED BY <1>2, <2>1, <2>2, OthersSee
<1>3. \A k \in Skill!Jobs : StateShape(job'[k]) /\ Sees(k, job'[k], found', registry', suggestions')
  BY <1>1, <1>2
<1> QED BY <1>1, <1>3 DEF SkillInv

\* While the tables stay as they are.
LEMMA SameTables ==
    ASSUME SkillInv, NEW j \in Skill!Jobs, UNCHANGED Skill!rows
    PROVE  /\ TablesShape' /\ Marked' /\ Skill!OneSkillEach'
           /\ Adds(j, found, found') /\ Adds(j, registry, registry')
           /\ DOMAIN suggestions \subseteq DOMAIN suggestions'
           /\ Sees(j, job[j], found', registry', suggestions')
<1>1. UNCHANGED <<found, suggestions, registry>>
  BY DEF Skill!rows
<1>2. TablesShape' /\ Marked' /\ Skill!OneSkillEach'
  BY <1>1 DEF SkillInv, TablesShape, Marked, Skill!OneSkillEach, Skill!Overtaken
<1>3. Adds(j, found, found') /\ Adds(j, registry, registry')
  BY <1>1, AddsNoneOrOne DEF SkillInv, TablesShape
<1> QED BY <1>1, <1>2, <1>3 DEF SkillInv

\* Suggestions more, or tags more, are nothing a row or a job goes by.
LEMMA MoreSuggestions ==
    ASSUME SkillInv, UNCHANGED <<found, registry>>, suggestions' \in Seq(SuggestionRow),
           \A i \in DOMAIN suggestions :
              i \in DOMAIN suggestions' /\ (suggestions[i].made => suggestions'[i].made)
    PROVE  /\ TablesShape' /\ Marked' /\ Skill!OneSkillEach'
           /\ DOMAIN suggestions \subseteq DOMAIN suggestions'
           /\ \A j \in Skill!Jobs : /\ Adds(j, found, found') /\ Adds(j, registry, registry')
                                    /\ Sees(j, job[j], found', registry', suggestions')
<1>1. TablesShape' /\ Marked'
  BY DEF SkillInv, TablesShape, Marked
<1>2. Skill!OneSkillEach'
  BY DEF SkillInv, Skill!OneSkillEach, Skill!Overtaken
<1>3. \A j \in Skill!Jobs : Adds(j, found, found') /\ Adds(j, registry, registry')
  BY AddsNoneOrOne DEF SkillInv, TablesShape
<1>4. DOMAIN suggestions \subseteq DOMAIN suggestions'
  OBVIOUS
<1>5. \A j \in Skill!Jobs : Sees(j, job[j], found', registry', suggestions')
  BY <1>4 DEF SkillInv, Sees
<1> QED BY <1>1, <1>2, <1>3, <1>4, <1>5

\* A suggestion more keeps the others.
LEMMA OneMoreSuggestion ==
    ASSUME TablesShape, NEW x \in SuggestionRow, suggestions' = Append(suggestions, x)
    PROVE  /\ suggestions' \in Seq(SuggestionRow)
           /\ \A i \in DOMAIN suggestions :
                i \in DOMAIN suggestions' /\ (suggestions[i].made => suggestions'[i].made)
<1>1. suggestions \in Seq(SuggestionRow)
  BY DEF TablesShape
<1> QED BY <1>1, OneMoreRow

\* The tag put on one of them.
LEMMA OneTagMore ==
    ASSUME TablesShape, NEW i \in DOMAIN suggestions,
           suggestions' = [suggestions EXCEPT ![i].made = TRUE]
    PROVE  /\ suggestions' \in Seq(SuggestionRow) /\ DOMAIN suggestions' = DOMAIN suggestions
           /\ suggestions'[i].made
           /\ \A k \in DOMAIN suggestions : suggestions[k].made => suggestions'[k].made
<1>1. /\ suggestions \in Seq(SuggestionRow)
      /\ Len(suggestions) \in Nat /\ DOMAIN suggestions = 1..Len(suggestions)
      /\ suggestions \in [1..Len(suggestions) -> SuggestionRow]
  BY LenProperties DEF TablesShape
<1>2. suggestions' \in [1..Len(suggestions) -> SuggestionRow]
  BY <1>1 DEF SuggestionRow
<1>3. suggestions' \in Seq(SuggestionRow)
  BY <1>1, <1>2, IsSeqOf
<1> QED BY <1>1, <1>2, <1>3 DEF SuggestionRow

\* The suggestion a job is at is one of its batch.
LEMMA CurrentIsIn ==
    ASSUME SkillInv, NEW j \in Skill!Jobs, job[j].at = "create"
    PROVE  /\ Skill!Current(j) \in job[j].batch /\ Skill!Current(j) \in Nat
           /\ Skill!Current(j) \in DOMAIN suggestions
           /\ Skill!Rest(j) = job[j].batch \ {Skill!Current(j)}
<1>1. job[j].batch \subseteq Nat /\ job[j].batch # {} /\ job[j].batch \subseteq DOMAIN suggestions
  BY DEF SkillInv, StateShape, JobState, Sees
<1>2. \E m \in job[j].batch : \A b \in job[j].batch : m <= b
  BY <1>1, Minimum
<1> QED BY <1>1, <1>2 DEF Skill!Current, Skill!Rest, Skill!Min

\* What a job goes by after its suggestion, when the rows it has seen and
\* written bear the names it then knows, and those marked are not of the rest.
LEMMA GoesOn ==
    ASSUME SkillInv, NEW j \in Skill!Jobs, job[j].at = "create", NEW names \in SUBSET Names,
           NEW f, NEW g, NEW s, job[j].seen <= Len(g), Skill!Rest(j) \subseteq DOMAIN s,
           \A i \in DOMAIN g :
              i <= job[j].seen \/ g[i].by = j =>
                /\ g[i].name \in job[j].names \cup names
                /\ g[i].marked => g[i].of \notin Skill!Rest(j)
    PROVE  /\ StateShape(Skill!NextOf(j, names))
           /\ Sees(j, Skill!NextOf(j, names), f, g, s)
<1>1. job[j] \in JobState
  BY DEF SkillInv
<1>2. CASE Skill!Rest(j) # {}
  <2> DEFINE r == [job[j] EXCEPT !.batch = Skill!Rest(j), !.names = @ \cup names]
  <2>1. Skill!Rest(j) \in SUBSET Nat /\ job[j].names \cup names \in SUBSET Names
    BY <1>1 DEF Skill!Rest, JobState
  <2>2. /\ r \in JobState /\ r.at = "create" /\ r.batch = Skill!Rest(j)
        /\ r.names = job[j].names \cup names /\ r.seen = job[j].seen
    BY <1>1, <2>1 DEF JobState
  <2>3. r = Skill!NextOf(j, names)
    BY <1>2 DEF Skill!NextOf
  <2> HIDE DEF r
  <2>4. StateShape(r) /\ Sees(j, r, f, g, s)
    BY <1>2, <2>2 DEF StateShape, Sees
  <2> QED BY <2>3, <2>4
<1>3. CASE Skill!Rest(j) = {}
  BY <1>3, NextStates DEF Skill!NextOf
<1> QED BY <1>2, <1>3

\* A skill registered by the job that is at its suggestion: the rows are as
\* the property says, whether or not the tag follows.
LEMMA Registers ==
    ASSUME SkillInv, NEW j \in Skill!Jobs, job[j].at = "create",
           NEW name \in Names, name \notin job[j].names, NEW marked \in BOOLEAN,
           registry' = Append(registry, Skill!Row(j, name, marked)), UNCHANGED found
    PROVE  /\ registry' \in Seq(RegistryRow) /\ Skill!OneSkillEach' /\ Adds(j, registry, registry')
           /\ DOMAIN registry' = DOMAIN registry \cup {Len(registry) + 1}
           /\ registry'[Len(registry) + 1] = Skill!Row(j, name, marked)
           /\ \A k \in DOMAIN registry : registry'[k] = registry[k]
           /\ \A i \in DOMAIN registry' :
                i <= job[j].seen \/ registry'[i].by = j =>
                  /\ registry'[i].name \in job[j].names \cup {name}
                  /\ registry'[i].marked => registry'[i].of \notin Skill!Rest(j)
<1> DEFINE x == Skill!Row(j, name, marked)
           n == Len(registry)
<1>1. /\ job[j].seen \in Nat /\ job[j].seen <= n
      /\ \A i \in DOMAIN registry : i <= job[j].seen \/ registry[i].by = j =>
           registry[i].name \in job[j].names /\ (registry[i].marked => registry[i].of \notin job[j].batch)
  BY DEF SkillInv, JobState, Sees
<1>2. /\ x \in RegistryRow /\ x.by = j /\ x.name = name /\ x.of = Skill!Current(j)
      /\ x.seen = job[j].seen
  BY <1>1, CurrentIsIn DEF Skill!Row, RegistryRow
<1>3. registry \in Seq(RegistryRow)
  BY DEF SkillInv, TablesShape
<1> HIDE DEF x
<1>4. /\ registry' \in Seq(RegistryRow) /\ n \in Nat /\ DOMAIN registry = 1..n
      /\ DOMAIN registry' = 1..(n + 1) /\ registry'[n + 1] = x
      /\ \A k \in 1..n : registry'[k] = registry[k]
  BY <1>2, <1>3, OneMoreRow DEF x
<1>5. Adds(j, registry, registry')
  BY <1>2, <1>3, AddsNoneOrOne DEF x
<1> HIDE DEF n
<1>6. ASSUME NEW i \in DOMAIN registry
      PROVE  /\ registry[i].name = name => i > job[j].seen /\ registry[i].by # j
             /\ registry[i].of = x.of => ~registry[i].marked \/ (i > job[j].seen /\ registry[i].by # j)
  <2>1. i <= job[j].seen \/ i > job[j].seen
    BY <1>1, <1>4
  <2> QED BY <1>1, <1>2, <2>1, CurrentIsIn
<1>7. Skill!OneSkillEach'
  <2>1. ASSUME NEW i \in DOMAIN registry', NEW k \in DOMAIN registry', i < k
        PROVE  /\ registry'[i].name = registry'[k].name => Skill!Overtaken(registry', i, k)
               /\ registry'[i].of = registry'[k].of =>
                    ~registry'[i].marked \/ Skill!Overtaken(registry', i, k)
    <3>1. i \in DOMAIN registry /\ registry'[i] = registry[i]
      BY <1>4, <2>1
    <3>2. CASE k \in DOMAIN registry
      BY <1>4, <2>1, <3>1, <3>2 DEF SkillInv, Skill!OneSkillEach, Skill!Overtaken
    <3>3. CASE k = n + 1
      BY <1>1, <1>2, <1>4, <1>6, <3>1, <3>3 DEF Skill!Overtaken
    <3> QED BY <1>4, <3>2, <3>3
  <2>2. \A i, k \in DOMAIN found' :
          i < k /\ found'[i].topic = found'[k].topic => Skill!Overtaken(found', i, k)
    BY DEF SkillInv, Skill!OneSkillEach
  <2> QED BY <2>1, <2>2 DEF Skill!OneSkillEach
<1>8. ASSUME NEW i \in DOMAIN registry', i <= job[j].seen \/ registry'[i].by = j
      PROVE  /\ registry'[i].name \in job[j].names \cup {name}
             /\ registry'[i].marked => registry'[i].of \notin Skill!Rest(j)
  <2>1. CASE i \in DOMAIN registry
    BY <1>1, <1>4, <1>8, <2>1, CurrentIsIn
  <2>2. CASE i = n + 1
    BY <1>2, <1>4, <2>2, CurrentIsIn
  <2> QED BY <1>4, <2>1, <2>2
<1> QED BY <1>4, <1>5, <1>7, <1>8 DEF x, n

\* When the process ends, nobody has anything in hand.
LEMMA NobodyWorks ==
    ASSUME SkillInv, TablesShape', Marked', Skill!OneSkillEach', Skill!Ends
    PROVE  SkillInv'
<1>1. /\ job' \in [Skill!Jobs -> JobState]
      /\ \A j \in Skill!Jobs : job'[j] = Skill!At("idle") \/ job'[j] = Skill!At("over")
  BY NextStates DEF Skill!Ends, Skill!Idle, StateShape
<1> QED BY <1>1, NextStates DEF SkillInv

\* Every step keeps it.
LEMMA SkillStep ==
    Skill!SkillMakerAssumption /\ SkillInv /\ [Skill!SkillNext]_Skill!vars => SkillInv'
<1> SUFFICES ASSUME Skill!SkillMakerAssumption, SkillInv, [Skill!SkillNext]_Skill!vars
             PROVE  SkillInv'
  OBVIOUS
<1>0. TablesShape /\ Marked /\ Skill!OneSkillEach
  BY DEF SkillInv
<1>1. ASSUME NEW j \in Skill!Jobs, Skill!Begin(j) \/ Skill!Predict(j) PROVE SkillInv'
  <2>1. PICK to \in {"idle", "discover", "gaps", "select"} : Skill!Goes(j, Skill!At(to))
    BY <1>1, Zenon DEF Skill!Begin, Skill!Predict, Skill!Idle
  <2>2. UNCHANGED Skill!rows
    BY <1>1 DEF Skill!Begin, Skill!Predict
  <2> QED BY <2>1, <2>2, SameTables, NextStates, JobStep
<1>2. ASSUME NEW j \in Skill!Jobs, Skill!Discover(j) PROVE SkillInv'
  <2>1. UNCHANGED Skill!rows
    BY <1>2 DEF Skill!Discover
  <2>2. PICK t \in Topics :
          Skill!Goes(j, IF \E i \in DOMAIN found : found[i].topic = t
                        THEN Skill!At("predict")
                        ELSE [Skill!At("search") EXCEPT !.topic = t, !.seen = Len(found)])
    BY <1>2 DEF Skill!Discover
  <2>3. CASE \E i \in DOMAIN found : found[i].topic = t
    BY <2>1, <2>2, <2>3, SameTables, NextStates, JobStep
  <2>4. CASE ~ \E i \in DOMAIN found : found[i].topic = t
    <3> DEFINE r == [Skill!At("search") EXCEPT !.topic = t, !.seen = Len(found)]
    <3>1. Len(found) \in Nat
      BY <1>0, LenProperties DEF TablesShape
    <3>2. /\ StateShape(r) /\ r.at = "search" /\ r.topic = t /\ r.seen = Len(found)
          /\ Skill!Goes(j, r)
      BY <2>2, <2>4, <3>1 DEF Skill!At, JobState, StateShape
    <3> HIDE DEF r
    <3>3. Sees(j, r, found', registry', suggestions')
      BY <2>1, <2>4, <3>1, <3>2 DEF Sees, Skill!rows
    <3> QED BY <2>1, <3>2, <3>3, SameTables, JobStep
  <2> QED BY <2>3, <2>4
<1>3. ASSUME NEW j \in Skill!Jobs, Skill!Searched(j) PROVE SkillInv'
  <2> DEFINE x == [topic |-> job[j].topic, by |-> j, seen |-> job[j].seen]
             n == Len(found)
  <2>1. /\ job[j].at = "search" /\ Skill!Goes(j, Skill!At("predict"))
        /\ UNCHANGED <<suggestions, registry>>
        /\ found' = found \/ found' = Append(found, x)
    BY <1>3 DEF Skill!Searched
  <2>2. CASE found' = found
    BY <2>1, <2>2, <1>0, MoreSuggestions, NextStates, JobStep DEF TablesShape
  <2>3. CASE found' = Append(found, x)
    <3>1. /\ job[j].seen \in Nat /\ job[j].topic \in Topics
          /\ \A i \in DOMAIN found :
               i <= job[j].seen \/ found[i].by = j => found[i].topic # job[j].topic
      BY <2>1 DEF SkillInv, StateShape, JobState, Sees
    <3>2. x \in FoundRow /\ x.by = j /\ x.topic = job[j].topic /\ x.seen = job[j].seen
      BY <3>1 DEF FoundRow
    <3>3. found \in Seq(FoundRow)
      BY <1>0 DEF TablesShape
    <3> HIDE DEF x
    <3>4. /\ found' \in Seq(FoundRow) /\ n \in Nat /\ DOMAIN found = 1..n
          /\ DOMAIN found' = 1..(n + 1) /\ found'[n + 1] = x
          /\ \A k \in 1..n : found'[k] = found[k]
      BY <2>3, <3>2, <3>3, OneMoreRow
    <3> HIDE DEF n
    <3>5. ASSUME NEW i \in DOMAIN found', NEW k \in DOMAIN found', i < k,
                 found'[i].topic = found'[k].topic
          PROVE  Skill!Overtaken(found', i, k)
      <4>1. i \in DOMAIN found /\ found'[i] = found[i]
        BY <3>4, <3>5
      <4>2. CASE k \in DOMAIN found
        BY <1>0, <3>4, <3>5, <4>1, <4>2 DEF Skill!OneSkillEach, Skill!Overtaken
      <4>3. CASE k = n + 1
        BY <3>1, <3>2, <3>4, <3>5, <4>1, <4>3 DEF Skill!Overtaken
      <4> QED BY <3>4, <4>2, <4>3
    <3>6. Skill!OneSkillEach'
      BY <1>0, <2>1, <3>5 DEF Skill!OneSkillEach
    <3>7. TablesShape' /\ Marked' /\ Adds(j, found, found') /\ Adds(j, registry, registry')
      BY <1>0, <2>1, <2>3, <3>2, <3>3, <3>4, AddsNoneOrOne DEF TablesShape, Marked
    <3> QED BY <2>1, <3>6, <3>7, NextStates, JobStep
  <2> QED BY <2>1, <2>2, <2>3
<1>4. ASSUME NEW j \in Skill!Jobs, Skill!Gaps(j) \/ Skill!Suggest(j) PROVE SkillInv'
  <2>1. PICK to \in {"suggest", "select"} : Skill!Goes(j, Skill!At(to))
    BY <1>4, Zenon DEF Skill!Gaps, Skill!Suggest
  <2>2. /\ UNCHANGED <<found, registry>>
        /\ suggestions' = suggestions
            \/ suggestions' = Append(suggestions, [text |-> TRUE, made |-> FALSE])
    BY <1>4 DEF Skill!Gaps, Skill!Suggest
  <2>3. /\ suggestions' \in Seq(SuggestionRow)
        /\ \A i \in DOMAIN suggestions :
             i \in DOMAIN suggestions' /\ (suggestions[i].made => suggestions'[i].made)
    BY <1>0, <2>2, OneMoreSuggestion DEF TablesShape, SuggestionRow
  <2> QED BY <2>1, <2>2, <2>3, MoreSuggestions, NextStates, JobStep
<1>5. CASE Skill!Foreign
  <2>1. /\ suggestions' = Append(suggestions, [text |-> FALSE, made |-> FALSE])
        /\ UNCHANGED <<found, registry, job>>
    BY <1>5 DEF Skill!Foreign
  <2>2. /\ suggestions' \in Seq(SuggestionRow)
        /\ \A i \in DOMAIN suggestions :
             i \in DOMAIN suggestions' /\ (suggestions[i].made => suggestions'[i].made)
    BY <1>0, <2>1, OneMoreSuggestion DEF SuggestionRow
  <2>3. /\ TablesShape' /\ Marked' /\ Skill!OneSkillEach'
        /\ \A j \in Skill!Jobs : Sees(j, job[j], found', registry', suggestions')
    BY <2>1, <2>2, MoreSuggestions
  <2> QED BY <2>1, <2>3 DEF SkillInv
<1>6. ASSUME NEW j \in Skill!Jobs, Skill!Select(j) PROVE SkillInv'
  <2>1. UNCHANGED Skill!rows
    BY <1>6 DEF Skill!Select
  <2>2. CASE Skill!Goes(j, Skill!Done(j))
    BY <2>1, <2>2, SameTables, NextStates, JobStep
  <2>3. CASE Skill!Batch # {}
          /\ Skill!Goes(j, [Skill!At("create") EXCEPT !.batch = Skill!Batch, !.names = Skill!Known,
                                                       !.seen = Len(registry)])
    <3> DEFINE r == [Skill!At("create") EXCEPT !.batch = Skill!Batch, !.names = Skill!Known,
                                               !.seen = Len(registry)]
    <3>1. /\ Skill!Batch \in SUBSET Nat /\ Skill!Batch \subseteq DOMAIN suggestions
          /\ Skill!Known \in SUBSET Names /\ Len(registry) \in Nat
      <4>1. DOMAIN suggestions \subseteq Nat /\ Len(registry) \in Nat
        BY <1>0, LenProperties DEF TablesShape
      <4>2. \A i \in DOMAIN registry : registry[i] \in RegistryRow
        BY <1>0, ElementOfSeq, LenProperties DEF TablesShape
      <4> QED BY <4>1, <4>2 DEF Skill!Batch, Skill!Unmade, Skill!Known, RegistryRow
    <3>2. \A i \in Skill!Batch : ~suggestions[i].made
      BY DEF Skill!Batch, Skill!Unmade
    <3>3. /\ StateShape(r) /\ r.at = "create" /\ r.batch = Skill!Batch
          /\ r.names = Skill!Known /\ r.seen = Len(registry)
      BY <2>3, <3>1 DEF Skill!At, JobState, StateShape
    <3>4. Skill!Goes(j, r)
      BY <2>3
    <3> HIDE DEF r
    <3>5. \A i \in DOMAIN registry : /\ registry[i].name \in r.names
                                     /\ registry[i].marked => registry[i].of \notin r.batch
      BY <1>0, <3>2, <3>3 DEF Skill!Known, Marked
    <3>6. Sees(j, r, found, registry, suggestions)
      BY <3>1, <3>3, <3>5 DEF Sees
    <3>7. Sees(j, r, found', registry', suggestions')
      BY <2>1, <3>6 DEF Skill!rows
    <3> QED BY <2>1, <3>3, <3>4, <3>7, SameTables, JobStep
  <2> QED BY <1>6, <2>2, <2>3 DEF Skill!Select
<1>7. ASSUME NEW j \in Skill!Jobs, Skill!Skip(j) \/ Skill!Unusable(j) PROVE SkillInv'
  <2>1. job[j].at = "create" /\ Skill!Goes(j, Skill!NextOf(j, {})) /\ UNCHANGED Skill!rows
    BY <1>7 DEF Skill!Skip, Skill!Unusable
  <2>2. Sees(j, job[j], found', registry', suggestions')
    BY <2>1, SameTables
  <2>3. /\ job[j].seen <= Len(registry') /\ Skill!Rest(j) \subseteq DOMAIN suggestions'
        /\ \A i \in DOMAIN registry' : i <= job[j].seen \/ registry'[i].by = j =>
             /\ registry'[i].name \in job[j].names \cup {}
             /\ registry'[i].marked => registry'[i].of \notin Skill!Rest(j)
    BY <2>1, <2>2, CurrentIsIn DEF Sees
  <2>4. /\ StateShape(Skill!NextOf(j, {}))
        /\ Sees(j, Skill!NextOf(j, {}), found', registry', suggestions')
    BY <2>1, <2>3, GoesOn
  <2> QED BY <2>1, <2>4, SameTables, JobStep
<1>8. ASSUME NEW j \in Skill!Jobs, Skill!Create(j) PROVE SkillInv'
  <2>1. job[j].at = "create" /\ UNCHANGED found
    BY <1>8 DEF Skill!Create
  <2>2. PICK name \in Names, inserts \in BOOLEAN, marks \in BOOLEAN :
          /\ inserts => name \notin job[j].names
          /\ registry' = IF inserts THEN Append(registry, Skill!Row(j, name, marks)) ELSE registry
          /\ suggestions' = IF marks THEN [suggestions EXCEPT ![Skill!Current(j)].made = TRUE]
                                     ELSE suggestions
          /\ Skill!Goes(j, Skill!NextOf(j, {name}))
    BY <1>8, Zenon DEF Skill!Create
  <2>3. /\ suggestions' \in Seq(SuggestionRow) /\ DOMAIN suggestions' = DOMAIN suggestions
        /\ marks => suggestions'[Skill!Current(j)].made
        /\ \A k \in DOMAIN suggestions : suggestions[k].made => suggestions'[k].made
    BY <1>0, <2>1, <2>2, CurrentIsIn, OneTagMore DEF TablesShape
  <2>4. /\ Skill!Rest(j) \subseteq DOMAIN suggestions' /\ job[j].seen \in Nat
        /\ job[j].seen <= Len(registry)
        /\ \A i \in DOMAIN registry : i <= job[j].seen \/ registry[i].by = j =>
             registry[i].name \in job[j].names /\ (registry[i].marked => registry[i].of \notin job[j].batch)
    BY <2>1, <2>3, CurrentIsIn DEF SkillInv, StateShape, JobState, Sees
  <2>5. CASE ~inserts
    <3>1. registry' = registry
      BY <2>2, <2>5
    <3>2. /\ TablesShape' /\ Marked' /\ Skill!OneSkillEach'
          /\ Adds(j, found, found') /\ Adds(j, registry, registry')
      BY <2>1, <2>3, <3>1, MoreSuggestions
    <3>3. /\ StateShape(Skill!NextOf(j, {name}))
          /\ Sees(j, Skill!NextOf(j, {name}), found', registry', suggestions')
      BY <2>1, <2>4, <3>1, CurrentIsIn, GoesOn
    <3> QED BY <2>2, <2>3, <3>2, <3>3, JobStep
  <2>6. CASE inserts
    <3>1. name \notin job[j].names /\ registry' = Append(registry, Skill!Row(j, name, marks))
      BY <2>2, <2>6
    <3>2. /\ registry' \in Seq(RegistryRow) /\ Skill!OneSkillEach' /\ Adds(j, registry, registry')
          /\ DOMAIN registry' = DOMAIN registry \cup {Len(registry) + 1}
          /\ registry'[Len(registry) + 1] = Skill!Row(j, name, marks)
          /\ \A k \in DOMAIN registry : registry'[k] = registry[k]
          /\ \A i \in DOMAIN registry' :
               i <= job[j].seen \/ registry'[i].by = j =>
                 /\ registry'[i].name \in job[j].names \cup {name}
                 /\ registry'[i].marked => registry'[i].of \notin Skill!Rest(j)
      BY <2>1, <3>1, Registers
    <3>3. Marked'
      <4>1. ASSUME NEW i \in DOMAIN registry', registry'[i].marked
            PROVE  /\ registry'[i].of \in DOMAIN suggestions'
                   /\ suggestions'[registry'[i].of].made
        <5>1. CASE i \in DOMAIN registry
          BY <1>0, <2>3, <3>2, <4>1, <5>1 DEF Marked
        <5>2. CASE i = Len(registry) + 1
          BY <2>1, <2>3, <3>2, <4>1, <5>2, CurrentIsIn DEF Skill!Row
        <5> QED BY <3>2, <5>1, <5>2
      <4> QED BY <4>1 DEF Marked
    <3>4. TablesShape' /\ Adds(j, found, found')
      BY <1>0, <2>1, <2>3, <3>2, AddsNoneOrOne DEF TablesShape
    <3>5. job[j].seen <= Len(registry')
      BY <2>4, <3>2 DEF Adds
    <3>6. /\ StateShape(Skill!NextOf(j, {name}))
          /\ Sees(j, Skill!NextOf(j, {name}), found', registry', suggestions')
      BY <2>1, <2>4, <3>2, <3>5, GoesOn
    <3> QED BY <2>2, <2>3, <3>2, <3>3, <3>4, <3>6, JobStep
  <2> QED BY <2>5, <2>6
<1>9. ASSUME NEW j \in Skill!Jobs, Skill!CutShort(j) PROVE SkillInv'
  <2>1. PICK name \in Names \ job[j].names : registry' = Append(registry, Skill!Row(j, name, FALSE))
    BY <1>9 DEF Skill!CutShort
  <2>2. job[j].at = "create" /\ UNCHANGED <<found, suggestions>> /\ Skill!Ends
    BY <1>9 DEF Skill!CutShort, Skill!Ends
  <2>3. /\ registry' \in Seq(RegistryRow) /\ Skill!OneSkillEach'
        /\ DOMAIN registry' = DOMAIN registry \cup {Len(registry) + 1}
        /\ registry'[Len(registry) + 1] = Skill!Row(j, name, FALSE)
        /\ \A k \in DOMAIN registry : registry'[k] = registry[k]
    BY <2>1, <2>2, Registers
  <2>4. TablesShape' /\ Marked'
    BY <1>0, <2>2, <2>3 DEF TablesShape, Marked, Skill!Row
  <2> QED BY <2>2, <2>3, <2>4, NobodyWorks
<1>10. CASE Skill!Restart
  <2>1. UNCHANGED <<found, suggestions, registry>> /\ Skill!Ends
    BY <1>10 DEF Skill!Restart, Skill!Ends
  <2>2. TablesShape' /\ Marked' /\ Skill!OneSkillEach'
    BY <1>0, <2>1 DEF TablesShape, Marked, Skill!OneSkillEach, Skill!Overtaken
  <2> QED BY <2>1, <2>2, NobodyWorks
<1>11. CASE Skill!Outage \/ Skill!Answers \/ UNCHANGED Skill!vars
  <2>1. UNCHANGED <<found, suggestions, registry, job>>
    BY <1>11 DEF Skill!Outage, Skill!Answers, Skill!vars, Skill!rows
  <2> QED BY <2>1 DEF SkillInv, TablesShape, Marked, Skill!OneSkillEach, Skill!Overtaken
<1> QED BY <1>1, <1>2, <1>3, <1>4, <1>5, <1>6, <1>7, <1>8, <1>9, <1>10, <1>11
        DEF Skill!SkillNext, Skill!Step

\* The tables are as the property says.
LEMMA SkillGives == SkillInv => Skill!OneSkillEach
BY DEF SkillInv

-----------------------------------------------------------------------------
(* The scripts that bring ideas in.                                        *)

\* A scan that is at work.
Scanning(s) == scan[s].at \notin {"ready", "over"}

\* The types, and the article a scan is at.
ScanShape ==
    /\ articles \in [Urls -> Nat] /\ ideas \in [Urls -> Nat]
    /\ DOMAIN scan = Scans
    /\ \A s \in Scans : /\ scan[s] = [at |-> scan[s].at, url |-> scan[s].url]
                        /\ scan[s].at \in {"look", "fetch", "high", "low", "idea"} =>
                               scan[s].url \in Urls

\* One scan at a time: an article without an idea until its row is stored.
OneScan == ~overlapped => \A s, o \in Scans : Scanning(s) /\ Scanning(o) => s = o

\* An idea of an article that went well has its row, or is the one a scan is
\* about to store, and nothing is there twice.
Seen(u) ==
    /\ ideas[u] <= 1 /\ (ideas[u] = 1 => articles[u] > 0)
    /\ \A s \in Scans : scan[s].url = u =>
         /\ scan[s].at \in {"fetch", "high", "low"} => articles[u] = 0
         /\ scan[s].at = "idea" => articles[u] > 0 /\ ideas[u] = 0

\* Inductive: articles whose look or row failed are left out.
ScanInv == ScanShape /\ OneScan /\ (~overlapped => \A u \in Urls \ blind : Seen(u))

\* No scan is at work at first.
LEMMA InitScan == Scan!Init => ScanInv
BY DEF Scan!Init, ScanInv, ScanShape, OneScan, Seen, Scanning, Scan!NoArticle

\* Every step keeps it.
LEMMA ScanStep == ScanInv /\ [Scan!Next]_Scan!vars => ScanInv'
<1> SUFFICES ASSUME ScanInv, [Scan!Next]_Scan!vars PROVE ScanInv'
  OBVIOUS
<1> USE DEF ScanInv, ScanShape, Scan!Goes, OneScan, Scanning
<1>1. CASE UNCHANGED Scan!scanVars
  BY <1>1 DEF Scan!scanVars, Seen
<1>2. ASSUME NEW s \in Scans, Scan!Begin(s) PROVE ScanInv'
  <2>1. /\ scan[s].at = "ready"
             /\ scan' = [scan EXCEPT ![s] = [at |-> "search", url |-> Scan!NoArticle]]
        /\ (overlapped' <=> overlapped \/ \E o \in Scans : scan[o].at \notin {"ready", "over"})
        /\ UNCHANGED <<articles, ideas, blind>>
    BY <1>2 DEF Scan!Begin
  <2> QED BY <2>1 DEF Seen
<1>3. ASSUME NEW s \in Scans, Scan!NextResult(s) \/ Scan!Look(s) PROVE ScanInv'
  BY <1>3 DEF Scan!NextResult, Scan!Look, Scan!Known, Seen
<1>4. ASSUME NEW s \in Scans, Scan!LookFails(s) PROVE ScanInv'
  BY <1>4 DEF Scan!LookFails, Seen
<1>5. ASSUME NEW s \in Scans, Scan!Fetch(s) PROVE ScanInv'
  BY <1>5 DEF Scan!Fetch, Seen
<1>6. ASSUME NEW s \in Scans, Scan!StoreArticle(s) PROVE ScanInv'
  <2> DEFINE u == scan[s].url
             follows == IF scan[s].at = "high" THEN [at |-> "idea", url |-> u]
                        ELSE [at |-> "search", url |-> Scan!NoArticle]
  <2>1. /\ scan[s].at \in {"high", "low"} /\ u \in Urls
        /\ scan' = [scan EXCEPT ![s] = follows] /\ UNCHANGED <<ideas, overlapped>>
    BY <1>6 DEF Scan!StoreArticle, Scan!Stores
  <2>2. ScanShape' /\ OneScan'
    <3>1. articles' \in [Urls -> Nat]
      BY <1>6, <2>1 DEF Scan!StoreArticle
    <3> QED BY <2>1, <3>1
  <2>3. ASSUME ~overlapped, NEW v \in Urls \ blind', Seen(v) PROVE Seen(v)'
    <3>1. \A o \in Scans : o # s => scan'[o] = scan[o] /\ ~Scanning(o)
      BY <2>1, <2>3
    <3>2. scan'[s] = follows
      BY <2>1
    <3>3. CASE v = u
      <4>1. articles' = [articles EXCEPT ![u] = @ + 1] /\ articles[u] = 0 /\ ideas[u] = 0
        BY <1>6, <2>1, <2>3, <3>3 DEF Scan!StoreArticle, Scan!Stores, Seen
      <4>2. articles'[u] = 1
        BY <2>1, <4>1
      <4> QED BY <2>1, <3>1, <3>2, <3>3, <4>1, <4>2 DEF Seen
    <3>4. CASE v # u
      <4>1. articles'[v] = articles[v]
        BY <1>6, <2>1, <3>4 DEF Scan!StoreArticle
      <4> QED BY <2>1, <2>3, <3>1, <3>2, <3>4, <4>1 DEF Seen
    <3> QED BY <3>3, <3>4
  <2>4. blind \subseteq blind'
    BY <1>6 DEF Scan!StoreArticle
  <2> QED BY <2>1, <2>2, <2>3, <2>4
<1>7. ASSUME NEW s \in Scans, Scan!StoreIdea(s) PROVE ScanInv'
  BY <1>7 DEF Scan!StoreIdea, Seen
<1>8. ASSUME NEW s \in Scans, Scan!ScanDies(s) PROVE ScanInv'
  BY <1>8 DEF Scan!ScanDies, Scan!Over, Seen
<1>9. ASSUME Scan!FindNext \/ Scan!WordNext PROVE UNCHANGED Scan!scanVars
  BY <1>9
     DEF Scan!FindNext, Scan!WordNext, Scan!Find, Scan!Patch, Scan!WriteFails, Scan!Suggest,
         Scan!Save, Scan!Gather, Scan!Merge, Scan!FinderRest
<1> QED BY <1>1, <1>2, <1>3, <1>4, <1>5, <1>6, <1>7, <1>8, <1>9
           DEF Scan!Next, Scan!ScanNext, Scan!vars

\* An article has then one idea at most.
LEMMA ScanGives == ScanInv => Scan!IdeaOnce
BY DEF ScanInv, Seen, Scan!IdeaOnce

-----------------------------------------------------------------------------
(* The summaries.                                                          *)

\* A row or a run for a period that was over when it began has the period whole.
Whole(c) ==
    Period!AfterItsPeriod(c) => /\ c.count = Period!Count(c.level, c.id)
                                /\ c.src \in Period!Sources(c.level, c.id)

RowWhole(c) ==
    /\ c.level \in Period!Loops /\ c.id \in Int /\ c.began \in Nat /\ c.began <= clock
    /\ Whole(c)

\* Inductive: rows and runs under way have their periods whole.
PeriodInv ==
    /\ clock \in Nat /\ DOMAIN making = Period!Jobs /\ Listed(chunks)
    /\ \A k \in DOMAIN chunks : RowWhole(chunks[k])
    /\ \A j \in Period!Jobs : making[j] # Period!Idle => RowWhole(making[j])

\* A moment at or after the end of a period is not in it.
LEMMA AfterPeriod ==
    ASSUME NEW n \in Nat, NEW units \in Nat \ {0}, NEW id \in Int, n >= (id + 1) * units
    PROVE  n \div units # id
<1> DEFINE q == n \div units
<1>1. q \in Int /\ units * q <= n /\ n < units * q + units
  OBVIOUS
<1> HIDE DEF q
<1>2. SUFFICES ASSUME q = id PROVE FALSE
  BY DEF q
<1>3. units * q = id * units
  BY <1>2
<1>4. (id + 1) * units = id * units + units
  OBVIOUS
<1> QED BY <1>1, <1>3, <1>4

\* What is made of a period depends on the rows inserted in it only.
LEMMA SamePeriod ==
    ASSUME NEW level, NEW id, Period!MadeIn(level, id)' = Period!MadeIn(level, id)
    PROVE  /\ Period!Count(level, id)' = Period!Count(level, id)
           /\ Period!Sources(level, id)' = Period!Sources(level, id)
BY DEF Period!Count, Period!Sources

\* Time alone takes nothing from a row.
LEMMA RowKept ==
    ASSUME clock \in Nat, clock' \in Nat, clock <= clock', UNCHANGED chunks, NEW c, RowWhole(c)
    PROVE  RowWhole(c)'
<1>1. \A level, id : Period!MadeIn(level, id)' = Period!MadeIn(level, id)
  BY DEF Period!MadeIn, Period!Length, Period!Lower
<1>2. Whole(c)'
  BY <1>1, SamePeriod DEF RowWhole, Whole, Period!AfterItsPeriod, Period!Length
<1> QED BY <1>2 DEF RowWhole

\* A row inserted now is in no period that is over.
LEMMA WholeStays ==
    ASSUME Period!SummariesAssumption, clock \in Nat, UNCHANGED clock, Listed(chunks),
           NEW row, row.made = clock, chunks' = Append(chunks, row),
           NEW c, RowWhole(c)
    PROVE  RowWhole(c)'
<1> SUFFICES ASSUME Period!AfterItsPeriod(c)
             PROVE  Period!MadeIn(c.level, c.id)' = Period!MadeIn(c.level, c.id)
  BY SamePeriod DEF RowWhole, Whole, Period!AfterItsPeriod, Period!Length
<1> DEFINE units == Period!Length(c.level)
<1>1. units \in Nat \ {0} /\ c.id \in Int /\ c.began \in Nat /\ c.began <= clock
  BY Period!SummariesAssumption DEF Period!SummariesAssumption, Period!Length, RowWhole
<1>2. c.began >= (c.id + 1) * units
  BY DEF Period!AfterItsPeriod
<1> HIDE DEF units
<1>3. (c.id + 1) * units \in Int
  BY <1>1
<1>4. clock \div units # c.id
  <2> DEFINE end == (c.id + 1) * units
  <2>1. c.began >= end /\ end \in Int
    BY <1>2, <1>3
  <2> HIDE DEF end
  <2>2. clock >= end
    BY <1>1, <2>1
  <2> QED BY <1>1, <2>2, AfterPeriod DEF end
<1>5. /\ DOMAIN chunks = 1..Len(chunks) /\ Len(chunks) \in Nat
      /\ DOMAIN chunks' = 1..(Len(chunks) + 1) /\ chunks'[Len(chunks) + 1] = row
      /\ \A k \in DOMAIN chunks : chunks'[k] = chunks[k]
  BY ListedAre, AppendedIs
<1>6. \A k \in DOMAIN chunks' : k \in DOMAIN chunks \/ k = Len(chunks) + 1
  BY <1>5
<1>7. Period!Length(c.level)' = units /\ Period!Lower(c.level)' = Period!Lower(c.level)
  BY DEF Period!Length, Period!Lower, units
<1>8. \A k \in DOMAIN chunks : k \in DOMAIN chunks'
  BY <1>5
<1> DEFINE new == Period!MadeIn(c.level, c.id)'
           old == Period!MadeIn(c.level, c.id)
<1>9. old = {k \in DOMAIN chunks : /\ chunks[k].level = Period!Lower(c.level)
                                   /\ chunks[k].made \div units = c.id}
  BY DEF Period!MadeIn, units
<1>10. new = {k \in DOMAIN chunks' : /\ chunks'[k].level = Period!Lower(c.level)
                                     /\ chunks'[k].made \div units = c.id}
  BY <1>7 DEF Period!MadeIn
<1> HIDE DEF new, old
<1>11. \A k \in new : k \in old
  BY <1>4, <1>5, <1>6, <1>9, <1>10
<1>12. \A k \in old : k \in new
  BY <1>5, <1>8, <1>9, <1>10
<1>13. new = old
  BY <1>11, <1>12
<1> QED BY <1>13 DEF new, old

\* There are no rows at first.
LEMMA InitPeriod == Period!Init => PeriodInv
<1>1. Listed(<<>>) /\ DOMAIN <<>> = {}
  <2>1. <<>> \in Seq({})
    OBVIOUS
  <2> QED BY <2>1 DEF Listed
<1> QED BY <1>1 DEF Period!Init, PeriodInv

\* A run that starts has what is there.
LEMMA RunsWhole ==
    ASSUME Period!SummariesAssumption, PeriodInv, NEW j \in Period!Jobs,
           NEW r, \/ r = Period!L1Run
                  \/ \E level \in {"l2", "l3"}, id \in Int : r \in Period!Runs(level, id),
           Period!Begin(j, r), UNCHANGED <<clock, chunks>>
    PROVE  PeriodInv'
<1>1. RowWhole(Period!Running(j, r, clock))
  <2> DEFINE c == Period!Running(j, r, clock)
  <2>1. /\ c.level = r.level /\ c.id = r.id /\ c.began = clock /\ c.src = r.src
        /\ c.count = r.count /\ clock \in Nat
    BY DEF Period!Running, PeriodInv
  <2> HIDE DEF c
  <2>2. CASE r = Period!L1Run
    <3>1. r.level = "l1" /\ r.id \in Int
      BY <2>1, <2>2, Period!SummariesAssumption
         DEF Period!SummariesAssumption, Period!L1Run, Period!ChunkId
    <3> QED BY <2>1, <3>1 DEF RowWhole, Whole, Period!AfterItsPeriod, Period!Loops, c
  <2>3. ASSUME NEW level \in {"l2", "l3"}, NEW id \in Int, r \in Period!Runs(level, id)
        PROVE  RowWhole(c)
    <3>1. /\ r.level = level /\ r.id = id /\ r.count = Period!Count(level, id)
          /\ r.src \in Period!Sources(level, id)
      BY <2>3 DEF Period!Runs
    <3> QED BY <2>1, <3>1 DEF RowWhole, Whole, Period!Loops
  <2> QED BY <2>2, <2>3 DEF c
<1>2. \A c : RowWhole(c) => RowWhole(c)'
  BY RowKept DEF PeriodInv
<1>3. making' = making \/ making' = [making EXCEPT ![j] = Period!Running(j, r, clock)]
  BY DEF Period!Begin
<1>4. \A k \in Period!Jobs : making'[k] = making[k] \/ making'[k] = Period!Running(j, r, clock)
  BY <1>3 DEF PeriodInv
<1>5. DOMAIN making' = Period!Jobs
  BY <1>3 DEF PeriodInv
<1> QED BY <1>1, <1>2, <1>4, <1>5 DEF PeriodInv

\* Every step keeps it.
LEMMA PeriodStep ==
    Period!SummariesAssumption /\ PeriodInv /\ [Period!Next]_Period!vars => PeriodInv'
<1> SUFFICES ASSUME Period!SummariesAssumption, PeriodInv, [Period!Next]_Period!vars
             PROVE  PeriodInv'
  OBVIOUS
<1> USE DEF Period!rows, Period!probe
<1>0. UNCHANGED <<clock, chunks>> => \A c : RowWhole(c) => RowWhole(c)'
  BY RowKept DEF PeriodInv
<1>1. CASE UNCHANGED <<clock, chunks, making>>
  BY <1>0, <1>1 DEF PeriodInv
<1>2. CASE Period!Tick
  <2>1. clock' = clock + 1 /\ UNCHANGED <<chunks, making>>
    BY <1>2 DEF Period!Tick
  <2>2. \A c : RowWhole(c) => RowWhole(c)'
    BY <2>1, RowKept DEF PeriodInv
  <2> QED BY <2>1, <2>2 DEF PeriodInv
<1>3. ASSUME NEW l \in Period!Loops, NEW r, Period!Look(l, r),
             \/ r = Period!L1Run
             \/ \E level \in {"l2", "l3"}, id \in Int : r \in Period!Runs(level, id)
      PROVE  PeriodInv'
  BY <1>1, <1>3, RunsWhole DEF Period!Look, Period!Jobs
<1>4. CASE Period!LookL1 \/ Period!LookL2 \/ Period!LookL3
  <2>1. clock \div Day - 1 \in Int /\ clock \div Week - 1 \in Int
    BY Period!SummariesAssumption DEF PeriodInv, Period!SummariesAssumption
  <2> QED BY <1>3, <1>4, <2>1 DEF Period!LookL1, Period!LookL2, Period!LookL3, Period!Loops
<1>5. ASSUME NEW j \in Triggers, Period!TriggerL2(j) \/ Period!TriggerL3(j) PROVE PeriodInv'
  <2>1. CASE Period!TriggerL2(j)
    BY <2>1, RunsWhole DEF Period!TriggerL2, Period!Trigger, Period!Jobs
  <2>2. CASE Period!TriggerL3(j)
    BY <2>2, RunsWhole DEF Period!TriggerL3, Period!Trigger, Period!Jobs
  <2> QED BY <1>5, <2>1, <2>2
<1>6. ASSUME NEW j \in Period!Jobs, Period!Ends(j) PROVE PeriodInv'
  <2>1. /\ making[j] # Period!Idle /\ making' = [making EXCEPT ![j] = Period!Idle] /\ clock' = clock
        /\ chunks' = chunks \/ chunks' = Append(chunks, Period!RowOf(making[j], clock))
    BY <1>6 DEF Period!Ends
  <2>2. /\ making'[j] = Period!Idle /\ DOMAIN making' = Period!Jobs
        /\ \A k \in Period!Jobs : k # j => making'[k] = making[k]
    BY <2>1 DEF PeriodInv
  <2>3. CASE chunks' = chunks
    BY <1>0, <2>1, <2>2, <2>3 DEF PeriodInv
  <2>4. CASE chunks' = Append(chunks, Period!RowOf(making[j], clock))
    <3> DEFINE row == Period!RowOf(making[j], clock)
    <3>1. /\ row.made = clock /\ row.level = making[j].level /\ row.id = making[j].id
          /\ row.began = making[j].began /\ row.src = making[j].src
          /\ row.count = making[j].count
      BY DEF Period!RowOf
    <3> HIDE DEF row
    <3>2. RowWhole(row)
      <4>1. RowWhole(making[j])
        BY <2>1 DEF PeriodInv
      <4> QED BY <3>1, <4>1 DEF RowWhole, Whole, Period!AfterItsPeriod
    <3>3. chunks' = Append(chunks, row)
      BY <2>4 DEF row
    <3>4. \A c : RowWhole(c) => RowWhole(c)'
      BY <2>1, <3>1, <3>3, WholeStays DEF PeriodInv
    <3>5. /\ Listed(chunks') /\ DOMAIN chunks' = 1..(Len(chunks) + 1)
          /\ DOMAIN chunks = 1..Len(chunks) /\ Len(chunks) \in Nat
          /\ chunks'[Len(chunks) + 1] = row
          /\ \A k \in DOMAIN chunks : chunks'[k] = chunks[k]
      BY <3>3, ListedAre, AppendedIs DEF PeriodInv
    <3>6. \A k \in DOMAIN chunks' : k \in DOMAIN chunks \/ k = Len(chunks) + 1
      BY <3>5
    <3>7. \A k \in DOMAIN chunks' : RowWhole(chunks'[k])
      BY <3>2, <3>5, <3>6 DEF PeriodInv
    <3> QED BY <2>1, <2>2, <3>4, <3>5, <3>7 DEF PeriodInv
  <2> QED BY <2>1, <2>3, <2>4
<1>7. CASE Period!Restart
  <2>1. /\ making' = [k \in Period!Jobs |-> Period!Idle] /\ UNCHANGED <<clock, chunks>>
    BY <1>7 DEF Period!Restart
  <2> QED BY <1>0, <2>1 DEF PeriodInv
<1> QED BY <1>1, <1>2, <1>4, <1>5, <1>6, <1>7
           DEF Period!Next, Period!Store, Period!Goes, Period!Comes, Period!FirstProbe,
               Period!ProbeHeals, Period!vars

\* The rows are as the property says.
LEMMA PeriodGives == PeriodInv => Period!PeriodIsWhole
BY DEF PeriodInv, RowWhole, Whole, Period!PeriodIsWhole

-----------------------------------------------------------------------------
(* How a session takes up the work of another.                             *)

LEMMA ResumeCardinality == \A S : Resumed!Cardinality(S) = Cardinality(S)
BY DEF Resumed!Cardinality, Cardinality

TrailRow == [by : Resumed!Sessions, kind : {"handoff", "working"}, says : BOOLEAN]
SessionRecall ==
    [at : {"idle", "flags", "handoffs", "work", "pick", "over"},
     target : Resumed!Sessions \cup {Resumed!NoOne}, off : BOOLEAN, seen : Nat,
     pool : SUBSET Nat, pick : Nat, warned : SUBSET Resumed!Sessions, failed : BOOLEAN]

\* The types, and a recall has seen and holds rows that are there.
ResumeShape ==
    /\ trail \in Seq(TrailRow)
    /\ attached \in Resumed!Sessions \cup {Resumed!NoOne} /\ detached \in BOOLEAN
    /\ recall \in SessionRecall
    /\ recall.seen <= Len(trail) /\ recall.pool \subseteq DOMAIN trail

\* All rows of some kinds that were there when the recall asked first are in
\* its pool, if requests were answered and the lists had room.
Holds(kinds) ==
    ~recall.failed /\ ~Resumed!Crowded =>
        \A i \in 1..recall.seen :
            trail[i].by # Me /\ trail[i].kind \in kinds => i \in recall.pool

ResumeInv ==
    /\ ResumeShape
    /\ recall.at = "work" => Holds({"handoff"})
    /\ recall.at = "pick" => Holds({"handoff", "working"})
    /\ Resumed!LatestUnlessCrowded

\* Rows of a kind within the limit are all found.
LEMMA SearchedAll ==
    ASSUME ResumeShape, NEW kind, NEW limit \in Nat,
           ~(Resumed!Cardinality(Resumed!OfKind(kind)) > limit)
    PROVE  Resumed!Searched(kind, limit) = Resumed!OfKind(kind)
<1> DEFINE S == Resumed!OfKind(kind)
<1>1. IsFiniteSet(S)
  <2>1. Len(trail) \in Nat /\ DOMAIN trail = 1..Len(trail)
    BY DEF ResumeShape
  <2>2. IsFiniteSet(1..Len(trail))
    BY <2>1, FS_Interval
  <2> QED BY <2>1, <2>2, FS_Subset DEF Resumed!OfKind
<1>2. Cardinality(S) \in Nat /\ Cardinality(S) <= limit
  BY <1>1, FS_CardinalityType, ResumeCardinality
<1>3. ASSUME NEW i \in S PROVE Cardinality({j \in S : j < i}) < limit
  <2>1. S \ {i} \in SUBSET S /\ {j \in S : j < i} \in SUBSET (S \ {i})
    BY DEF ResumeShape, Resumed!OfKind
  <2>2. IsFiniteSet(S \ {i}) /\ Cardinality(S \ {i}) = Cardinality(S) - 1
    BY <1>1, <1>3, FS_RemoveElement
  <2>3. /\ IsFiniteSet({j \in S : j < i})
        /\ Cardinality({j \in S : j < i}) <= Cardinality(S \ {i})
    BY <2>1, <2>2, FS_Subset
  <2> HIDE DEF S
  <2> QED BY <1>2, <2>2, <2>3, FS_CardinalityType
<1> QED BY <1>3, ResumeCardinality DEF Resumed!Searched

\* More rows make no more room.
LEMMA CrowdedStays ==
    ASSUME ResumeShape, NEW row, trail' = Append(trail, row), Resumed!Crowded
    PROVE  Resumed!Crowded'
<1>1. /\ Len(trail) \in Nat /\ DOMAIN trail = 1..Len(trail)
      /\ DOMAIN trail' = 1..(Len(trail) + 1)
      /\ \A i \in DOMAIN trail : trail'[i] = trail[i]
  BY DEF ResumeShape
<1>2. ASSUME NEW kind
      PROVE  Cardinality(Resumed!OfKind(kind)) <= Cardinality(Resumed!OfKind(kind)')
  <2>1. Resumed!OfKind(kind) \in SUBSET (Resumed!OfKind(kind)')
    BY <1>1 DEF Resumed!OfKind
  <2>2. Resumed!OfKind(kind)' \subseteq DOMAIN trail'
    BY DEF Resumed!OfKind
  <2>3. IsFiniteSet(DOMAIN trail')
    BY <1>1, FS_Interval
  <2> QED BY <2>1, <2>2, <2>3, FS_Subset
<1>3. ASSUME NEW kind
      PROVE  /\ Cardinality(Resumed!OfKind(kind)) \in Nat
             /\ Cardinality(Resumed!OfKind(kind)') \in Nat
  <2>1. IsFiniteSet(DOMAIN trail) /\ IsFiniteSet(DOMAIN trail')
    BY <1>1, FS_Interval
  <2>2. /\ Resumed!OfKind(kind) \in SUBSET DOMAIN trail
        /\ Resumed!OfKind(kind)' \in SUBSET DOMAIN trail'
    BY DEF Resumed!OfKind
  <2> QED BY <2>1, <2>2, FS_Subset, FS_CardinalityType
<1>4. HandoffLimit \in Nat /\ WorkLimit \in Nat
  BY PartsAssumption DEF PartsAssumption, Resumed!ResumeAssumption
<1> QED BY <1>2, <1>3, <1>4, ResumeCardinality DEF Resumed!Crowded

LEMMA InitResume == Resumed!Init => ResumeInv
<1> SUFFICES ASSUME Resumed!Init PROVE ResumeInv
  OBVIOUS
<1>1. trail \in Seq(TrailRow) /\ Len(trail) = 0
  BY DEF Resumed!Init
<1>2. recall \in SessionRecall /\ recall.at = "idle" /\ recall.seen = 0 /\ recall.pool = {}
  BY DEF Resumed!Init, Resumed!Resting, Resumed!NoHit, SessionRecall
<1>3. attached \in Resumed!Sessions \cup {Resumed!NoOne} /\ detached \in BOOLEAN
  BY DEF Resumed!Init
<1> QED BY <1>1, <1>2, <1>3 DEF ResumeInv, ResumeShape, Resumed!LatestUnlessCrowded, Resumed!Continues

\* A session that leaves a row takes nothing from a recall under way.
LEMMA LeavesStep ==
    ASSUME ResumeInv, NEW row \in TrailRow, trail' = Append(trail, row),
           UNCHANGED <<attached, detached, recall>>
    PROVE  ResumeInv'
<1>1. /\ trail' \in Seq(TrailRow) /\ Len(trail) \in Nat /\ Len(trail') = Len(trail) + 1
      /\ DOMAIN trail = 1..Len(trail) /\ DOMAIN trail' = 1..(Len(trail) + 1)
      /\ \A i \in DOMAIN trail : trail'[i] = trail[i]
  BY DEF ResumeInv, ResumeShape
<1>2. ResumeShape'
  <2>1. recall' \in SessionRecall /\ recall'.seen <= Len(trail)
        /\ recall'.pool \subseteq DOMAIN trail /\ recall'.seen \in Nat
        /\ attached' \in Resumed!Sessions \cup {Resumed!NoOne} /\ detached' \in BOOLEAN
    BY DEF ResumeInv, ResumeShape, SessionRecall
  <2>2. recall'.seen <= Len(trail') /\ recall'.pool \subseteq DOMAIN trail'
    BY <1>1, <2>1
  <2> QED BY <1>1, <2>1, <2>2 DEF ResumeShape
<1>3. ~Resumed!Crowded' => ~Resumed!Crowded
  BY CrowdedStays DEF ResumeInv
<1>4. recall.seen \in Nat /\ recall.seen <= Len(trail) /\ recall.pick \in Nat
  BY DEF ResumeInv, ResumeShape, SessionRecall
<1>5. ASSUME NEW kinds, Holds(kinds) PROVE Holds(kinds)'
  BY <1>1, <1>3, <1>4, <1>5 DEF Holds
<1>6. Resumed!LatestUnlessCrowded'
  BY <1>1, <1>3, <1>4
     DEF ResumeInv, Resumed!LatestUnlessCrowded, Resumed!Continues, Resumed!PickedLatest,
         Resumed!Useful
<1>7. /\ recall.at = "work" => Holds({"handoff"})
      /\ recall.at = "pick" => Holds({"handoff", "working"})
  BY DEF ResumeInv
<1> QED BY <1>2, <1>5, <1>6, <1>7 DEF ResumeInv

\* The requests of a recall: what the lists have room for is in the pool.
LEMMA AsksStep ==
    ASSUME ResumeInv, Resumed!AskHandoffs \/ Resumed!AskWork
    PROVE  ResumeInv'
<1>1. /\ Len(trail) \in Nat /\ DOMAIN trail = 1..Len(trail) /\ recall \in SessionRecall
      /\ recall.seen \in Nat /\ recall.seen <= Len(trail) /\ recall.pool \subseteq DOMAIN trail
  BY DEF ResumeInv, ResumeShape, SessionRecall
<1>2. HandoffLimit \in Nat /\ WorkLimit \in Nat
  BY PartsAssumption DEF PartsAssumption, Resumed!ResumeAssumption
<1>3. UNCHANGED <<trail, attached, detached>> /\ (Resumed!Crowded' <=> Resumed!Crowded)
  BY DEF Resumed!AskHandoffs, Resumed!AskWork, Resumed!marks, Resumed!Crowded, Resumed!OfKind
<1>4. \A kind, limit : Resumed!NotMine(Resumed!Searched(kind, limit)) \subseteq DOMAIN trail
  BY DEF Resumed!NotMine, Resumed!Searched, Resumed!OfKind
<1>5. ~Resumed!Crowded =>
        /\ Resumed!Searched("handoff", HandoffLimit) = Resumed!OfKind("handoff")
        /\ Resumed!Searched("working", WorkLimit) = Resumed!OfKind("working")
  BY <1>2, SearchedAll DEF ResumeInv, Resumed!Crowded
<1>6. CASE Resumed!AskHandoffs
  <2>1. recall' \in SessionRecall /\ recall'.at = "work" /\ recall'.seen = Len(trail)
        /\ recall'.pool \subseteq DOMAIN trail
    <3> DEFINE listed == Resumed!NotMine(Resumed!Searched("handoff", HandoffLimit))
    <3>1. \/ recall' = [recall EXCEPT !.at = "work", !.seen = Len(trail), !.pool = listed]
          \/ recall' = [recall EXCEPT !.at = "work", !.seen = Len(trail), !.failed = TRUE]
      BY <1>6 DEF Resumed!AskHandoffs
    <3>2. listed \in SUBSET Nat /\ listed \subseteq DOMAIN trail
      BY <1>1, <1>4
    <3> HIDE DEF listed
    <3> QED BY <1>1, <3>1, <3>2 DEF SessionRecall
  <2>2. ~recall'.failed => recall'.pool = Resumed!NotMine(Resumed!Searched("handoff", HandoffLimit))
    BY <1>1, <1>6 DEF Resumed!AskHandoffs, SessionRecall
  <2>3. Holds({"handoff"})'
    BY <1>1, <1>3, <1>5, <2>1, <2>2 DEF Holds, Resumed!NotMine, Resumed!OfKind
  <2> QED BY <1>1, <1>3, <2>1, <2>3
          DEF ResumeInv, ResumeShape, Resumed!LatestUnlessCrowded, Resumed!Continues
<1>7. CASE Resumed!AskWork
  <2>1. recall' \in SessionRecall /\ recall'.at = "pick" /\ recall'.seen = recall.seen
        /\ recall'.pool \subseteq DOMAIN trail
    <3> DEFINE listed == Resumed!NotMine(Resumed!Searched("working", WorkLimit))
    <3>1. \/ recall' = [recall EXCEPT !.at = "pick", !.pool = @ \cup listed]
          \/ recall' = [recall EXCEPT !.at = "pick", !.failed = TRUE]
      BY <1>7 DEF Resumed!AskWork
    <3>2. listed \in SUBSET Nat /\ listed \subseteq DOMAIN trail
      BY <1>1, <1>4
    <3> HIDE DEF listed
    <3> QED BY <1>1, <3>1, <3>2 DEF SessionRecall
  <2>2. ~recall'.failed =>
          /\ ~recall.failed
          /\ recall'.pool = recall.pool \cup Resumed!NotMine(Resumed!Searched("working", WorkLimit))
    BY <1>1, <1>7 DEF Resumed!AskWork, SessionRecall
  <2>3. Holds({"handoff"})
    BY <1>7 DEF ResumeInv, Resumed!AskWork
  <2>4. Holds({"handoff", "working"})'
    BY <1>1, <1>3, <1>5, <2>1, <2>2, <2>3 DEF Holds, Resumed!NotMine, Resumed!OfKind
  <2> QED BY <1>1, <1>3, <2>1, <2>4
          DEF ResumeInv, ResumeShape, Resumed!LatestUnlessCrowded, Resumed!Continues
<1> QED BY <1>6, <1>7

\* A set of rows has a latest.
LEMMA HasNewest ==
    ASSUME NEW n \in Nat, NEW S \in SUBSET (1..n), S # {}
    PROVE  Resumed!Newest(S) \in S /\ \A i \in S : i <= Resumed!Newest(S)
<1> DEFINE T == {n - i : i \in S}
<1>1. T \subseteq Nat /\ T # {}
  OBVIOUS
<1>2. PICK m \in T : \A b \in T : m <= b
  BY <1>1, Minimum
<1>3. PICK k \in S : m = n - k
  BY <1>2
<1>4. ASSUME NEW i \in S PROVE i <= k
  <2>1. n - i \in T /\ i \in Nat /\ k \in Nat
    BY <1>3
  <2>2. n - k <= n - i
    BY <1>2, <1>3, <2>1
  <2> QED BY <2>1, <2>2
<1> QED BY <1>4 DEF Resumed!Newest

LEMMA HasOldest ==
    ASSUME NEW S \in SUBSET Nat, S # {}
    PROVE  Resumed!Oldest(S) \in S
BY Minimum DEF Resumed!Oldest

LEMMA PickStep == ASSUME ResumeInv, Resumed!Pick PROVE ResumeInv'
<1>1. /\ Len(trail) \in Nat /\ DOMAIN trail = 1..Len(trail) /\ recall \in SessionRecall
      /\ recall.seen \in Nat /\ recall.seen <= Len(trail) /\ recall.pool \subseteq DOMAIN trail
      /\ trail \in Seq(TrailRow)
  BY DEF ResumeInv, ResumeShape, SessionRecall
<1>2. UNCHANGED <<trail, attached, detached>> /\ (Resumed!Crowded' <=> Resumed!Crowded)
  BY DEF Resumed!Pick, Resumed!marks, Resumed!Crowded, Resumed!OfKind
<1> DEFINE says == Resumed!Says(recall.pool)
<1>3. says \in SUBSET (1..Len(trail))
  BY <1>1 DEF Resumed!Says
<1>4. /\ Resumed!Latest(recall.pool) \in Nat
      /\ \A i \in says : i <= Resumed!Latest(recall.pool)
  <2>1. CASE says = {}
    BY <2>1 DEF Resumed!Latest, Resumed!Newest, Resumed!NoHit
  <2>2. CASE says # {}
    <3>1. Resumed!Newest(says) \in says /\ \A i \in says : i <= Resumed!Newest(says)
      BY <1>1, <1>3, <2>2, HasNewest
    <3> QED BY <1>3, <3>1 DEF Resumed!Latest
  <2> QED BY <2>1, <2>2
<1>5. \A ids \in SUBSET DOMAIN trail : Resumed!FirstOf(ids) \in Nat
  <2> SUFFICES ASSUME NEW ids \in SUBSET DOMAIN trail PROVE Resumed!FirstOf(ids) \in Nat
    OBVIOUS
  <2>1. \A S \in SUBSET DOMAIN trail : Resumed!Oldest(S) \in Nat
    <3> SUFFICES ASSUME NEW S \in SUBSET DOMAIN trail PROVE Resumed!Oldest(S) \in Nat
      OBVIOUS
    <3>1. S \in SUBSET Nat
      BY <1>1
    <3>2. CASE S = {}
      BY <3>2 DEF Resumed!Oldest, Resumed!NoHit
    <3>3. CASE S # {}
      BY <3>1, <3>3, HasOldest
    <3> QED BY <3>2, <3>3
  <2> QED BY <2>1 DEF Resumed!FirstOf
<1>6. {i \in recall.pool : trail[i].by = recall.target} \in SUBSET DOMAIN trail
  BY <1>1
<1>7. recall' \in SessionRecall /\ recall'.at = "over" /\ recall'.pool = recall.pool
      /\ recall'.seen = recall.seen /\ recall'.failed = recall.failed
      /\ recall'.target = recall.target
      /\ (recall.target = Resumed!NoOne => recall'.pick = Resumed!Latest(recall.pool))
  BY <1>1, <1>4, <1>5, <1>6 DEF Resumed!Pick, SessionRecall
<1>8. Holds({"handoff", "working"})
  BY DEF ResumeInv, Resumed!Pick
<1>9. Resumed!LatestUnlessCrowded'
  <2> SUFFICES ASSUME ~recall.failed, ~Resumed!Crowded, recall.target = Resumed!NoOne,
                      NEW i \in 1..recall.seen, trail[i].by # Me, trail[i].says
               PROVE  i <= recall'.pick
    BY <1>2, <1>7 DEF Resumed!LatestUnlessCrowded, Resumed!Continues, Resumed!PickedLatest,
                      Resumed!Useful
  <2>1. trail[i].kind \in {"handoff", "working"}
    <3>1. i \in DOMAIN trail
      BY <1>1
    <3>2. trail[i] \in TrailRow
      BY <1>1, <3>1
    <3> QED BY <3>2 DEF TrailRow
  <2>2. i \in says
    BY <1>8, <2>1 DEF Holds, Resumed!Says
  <2> QED BY <1>4, <1>7, <2>2
<1> QED BY <1>1, <1>2, <1>7, <1>9 DEF ResumeInv, ResumeShape

LEMMA ResumeStep == ResumeInv /\ [Resumed!ResumeNext]_Resumed!vars => ResumeInv'
<1> SUFFICES ASSUME ResumeInv, [Resumed!ResumeNext]_Resumed!vars PROVE ResumeInv'
  OBVIOUS
<1>0. /\ Me \in Resumed!Sessions /\ OtherSessions \subseteq Resumed!Sessions
      /\ recall \in SessionRecall
  BY DEF Resumed!Sessions, ResumeInv, ResumeShape
<1>1. ASSUME NEW s \in Resumed!Sessions,
             Resumed!Prompted(s) \/ Resumed!UsedTool(s) \/ Resumed!Ended(s)
      PROVE  ResumeInv'
  <2>1. PICK kind \in {"handoff", "working"}, says \in BOOLEAN : Resumed!Leave(s, kind, says)
    BY <1>1 DEF Resumed!Prompted, Resumed!UsedTool, Resumed!Ended
  <2>2. [by |-> s, kind |-> kind, says |-> says] \in TrailRow
    BY DEF TrailRow
  <2> QED BY <2>1, <2>2, LeavesStep DEF Resumed!Leave, Resumed!marks
<1>2. ASSUME NEW c \in Commands,
             \/ \E s \in OtherSessions : Resumed!AttachWrites(c, s)
             \/ Resumed!AttachUnlinks(c) \/ Resumed!DetachUnlinks(c) \/ Resumed!DetachWrites(c)
      PROVE  ResumeInv'
  <2>1. /\ UNCHANGED <<trail, recall>>
        /\ attached' \in Resumed!Sessions \cup {Resumed!NoOne} /\ detached' \in BOOLEAN
    BY <1>0, <1>2
       DEF Resumed!AttachWrites, Resumed!AttachUnlinks, Resumed!DetachUnlinks,
           Resumed!DetachWrites, ResumeInv, ResumeShape
  <2> QED BY <2>1
          DEF ResumeInv, ResumeShape, Holds, Resumed!LatestUnlessCrowded, Resumed!Continues,
              Resumed!Crowded, Resumed!OfKind, Resumed!PickedLatest, Resumed!Useful
<1>3. CASE Resumed!RecallWarns
  <2>1. \A i \in DOMAIN trail : trail[i].by \in Resumed!Sessions
    <3> SUFFICES ASSUME NEW i \in DOMAIN trail PROVE trail[i].by \in Resumed!Sessions
      OBVIOUS
    <3>1. trail[i] \in TrailRow
      BY DEF ResumeInv, ResumeShape
    <3> QED BY <3>1 DEF TrailRow
  <2>2. /\ recall' \in SessionRecall /\ recall'.at = "flags"
        /\ recall'.seen = recall.seen /\ recall'.pool = recall.pool
    <3>1. PICK warned \in SUBSET Resumed!Sessions :
            recall' = [recall EXCEPT !.at = "flags", !.warned = warned]
      BY <1>3, <2>1
         DEF Resumed!RecallWarns, Resumed!NotMine, Resumed!Searched, Resumed!OfKind
    <3> QED BY <1>0, <3>1 DEF SessionRecall
  <2> QED BY <1>3, <2>2
          DEF Resumed!RecallWarns, Resumed!marks, ResumeInv, ResumeShape,
              Resumed!LatestUnlessCrowded, Resumed!Continues
<1>4. CASE Resumed!RecallFlags
  <2>1. /\ recall' \in SessionRecall /\ recall'.seen = recall.seen /\ recall'.pool = recall.pool
        /\ (recall'.at = "over" /\ recall'.off) \/ recall'.at = "handoffs"
    BY <1>0, <1>4 DEF Resumed!RecallFlags, SessionRecall, ResumeInv, ResumeShape
  <2> QED BY <1>4, <2>1
          DEF Resumed!RecallFlags, Resumed!marks, ResumeInv, ResumeShape,
              Resumed!LatestUnlessCrowded, Resumed!Continues
<1>5. CASE Resumed!AskHandoffs \/ Resumed!AskWork
  BY <1>5, AsksStep
<1>6. CASE Resumed!Pick
  BY <1>6, PickStep
<1>7. CASE Resumed!RecallAgain
  <2>1. recall' = Resumed!Resting /\ UNCHANGED <<trail, attached, detached>>
    BY <1>7 DEF Resumed!RecallAgain, Resumed!marks
  <2>2. recall' \in SessionRecall /\ recall'.at = "idle" /\ recall'.seen = 0 /\ recall'.pool = {}
    BY <2>1 DEF Resumed!Resting, Resumed!NoHit, SessionRecall
  <2> QED BY <2>1, <2>2
          DEF ResumeInv, ResumeShape, Resumed!LatestUnlessCrowded, Resumed!Continues
<1>8. CASE UNCHANGED Resumed!vars
  BY <1>8 DEF Resumed!vars, Resumed!marks, ResumeInv, ResumeShape, Holds,
              Resumed!LatestUnlessCrowded, Resumed!Continues, Resumed!Crowded, Resumed!OfKind,
              Resumed!PickedLatest, Resumed!Useful
<1> QED BY <1>1, <1>2, <1>3, <1>4, <1>5, <1>6, <1>7, <1>8 DEF Resumed!ResumeNext

-----------------------------------------------------------------------------
(* Reading across the tiers.                                               *)

LEMMA ReadsCardinality == \A S : Reads!Cardinality(S) = Cardinality(S)
BY DEF Reads!Cardinality, Cardinality

\* Of rows in an order, those with fewer than n ahead of them are n, or all.
LEMMA FirstOrAll ==
    ASSUME NEW ids, IsFiniteSet(ids), NEW ahead \in [ids -> SUBSET ids], NEW n \in Nat,
           \A i \in ids : \A j \in ahead[i] : ahead[j] \subseteq ahead[i] /\ j \notin ahead[j]
    PROVE  LET first == {i \in ids : Cardinality(ahead[i]) < n}
           IN  first = ids \/ Cardinality(first) >= n
<1> DEFINE first == {i \in ids : Cardinality(ahead[i]) < n}
           counts == {Cardinality(ahead[i]) : i \in ids \ first}
<1> SUFFICES ASSUME first # ids PROVE Cardinality(first) >= n
  OBVIOUS
<1>1. \A i \in ids : IsFiniteSet(ahead[i]) /\ Cardinality(ahead[i]) \in Nat
  BY FS_Subset, FS_CardinalityType
<1>2. counts \subseteq Nat /\ counts # {}
  BY <1>1
<1>3. PICK m \in counts : \A b \in counts : m <= b
  <2> HIDE DEF counts
  <2> QED BY <1>2, Minimum
<1>4. PICK i \in ids \ first : m = Cardinality(ahead[i])
  BY <1>3
<1>5. ASSUME NEW j \in ahead[i] PROVE j \in first
  <2>1. j \in ids /\ ahead[j] \in SUBSET (ahead[i] \ {j})
    BY <1>4, <1>5
  <2>2. IsFiniteSet(ahead[i] \ {j}) /\ Cardinality(ahead[i] \ {j}) = Cardinality(ahead[i]) - 1
    BY <1>1, <1>4, <1>5, FS_RemoveElement
  <2>3. Cardinality(ahead[j]) <= Cardinality(ahead[i] \ {j})
    BY <2>1, <2>2, FS_Subset
  <2>4. Cardinality(ahead[j]) < m
    BY <1>1, <1>4, <2>1, <2>2, <2>3
  <2>5. SUFFICES ASSUME j \notin first PROVE FALSE
    OBVIOUS
  <2>6. m <= Cardinality(ahead[j])
    BY <1>3, <2>1, <2>5
  <2> QED BY <1>1, <1>4, <2>1, <2>4, <2>6
<1>6. ahead[i] \in SUBSET first /\ first \in SUBSET ids
  BY <1>4, <1>5
<1>7. IsFiniteSet(first) /\ Cardinality(first) \in Nat
  BY <1>6, FS_Subset, FS_CardinalityType
<1>8. Cardinality(ahead[i]) <= Cardinality(first)
  BY <1>6, <1>7, FS_Subset
<1>9. Cardinality(ahead[i]) >= n
  BY <1>1, <1>4
<1> QED BY <1>1, <1>4, <1>7, <1>8, <1>9

\* A table of texts under ids that were given out.
Texts(table) == DOMAIN table \subseteq 1..last /\ table \in [DOMAIN table -> Nat]

LEMMA TextsFinite ==
    ASSUME last \in Nat, NEW table, Texts(table), NEW ids \in SUBSET DOMAIN table
    PROVE  IsFiniteSet(ids)
<1>1. ids \in SUBSET (1..last)
  BY DEF Texts
<1>2. IsFiniteSet(1..last)
  BY FS_Interval
<1> QED BY <1>1, <1>2, FS_Subset

\* A search that found fewer rows than it may found all there are.
LEMMA SearchFindsAll ==
    ASSUME last \in Nat, NEW table, Texts(table), NEW hits, NEW n \in Nat,
           Cardinality(Reads!Search(table, hits, n)) < n
    PROVE  Reads!Search(table, hits, n) = {i \in DOMAIN table : table[i] \in hits}
<1> DEFINE matching == {i \in DOMAIN table : table[i] \in hits}
           ahead == [i \in matching |-> {j \in matching : Reads!Older(table, j, i)}]
           first == {i \in matching : Cardinality(ahead[i]) < n}
<1>1. IsFiniteSet(matching)
  BY TextsFinite
<1>2. ahead \in [matching -> SUBSET matching]
  OBVIOUS
<1>3. \A i \in matching : i \in Nat /\ table[i] \in Nat
  BY DEF Texts
<1>4. \A i \in matching : \A j \in ahead[i] : ahead[j] \subseteq ahead[i] /\ j \notin ahead[j]
  BY <1>3 DEF Reads!Older
<1>5. Reads!Search(table, hits, n) = first
  BY ReadsCardinality DEF Reads!Search
<1>6. first = matching \/ Cardinality(first) >= n
  <2> HIDE DEF matching, ahead
  <2> QED BY <1>1, <1>2, <1>4, FirstOrAll
<1>7. Cardinality(first) \in Nat
  <2>1. first \in SUBSET matching
    OBVIOUS
  <2> QED BY <1>1, <2>1, FS_Subset, FS_CardinalityType
<1> QED BY <1>5, <1>6, <1>7

\* As many rows as ids.
LEMMA RowsSize ==
    ASSUME NEW tier, NEW table, NEW ids, IsFiniteSet(ids)
    PROVE  /\ IsFiniteSet(Reads!Rows(tier, table, ids))
           /\ Cardinality(Reads!Rows(tier, table, ids)) = Cardinality(ids)
<1> DEFINE row == [i \in ids |-> [tier |-> tier, id |-> i, text |-> table[i]]]
<1>1. row \in Bijection(ids, Reads!Rows(tier, table, ids))
  BY DEF Bijection, Injection, Surjection, IsInjective, Reads!Rows
<1> HIDE DEF row
<1> QED BY <1>1, FS_Bijection DEF ExistsBijection

LEMMA JoinedType ==
    ASSUME NEW table, table \in [DOMAIN table -> Nat], NEW new, new \in [DOMAIN new -> Nat]
    PROVE  /\ DOMAIN Reads!Joined(table, new) = DOMAIN table \cup DOMAIN new
           /\ Reads!Joined(table, new) \in [DOMAIN table \cup DOMAIN new -> Nat]
           /\ \A i \in DOMAIN table : Reads!Joined(table, new)[i] = table[i]
BY DEF Reads!Joined

ReadRow == [tier : {"ram", "ssd", "semantic"}, id : Nat, text : Nat]

\* The types, and ids are no larger than the last one given out.
ReadShape ==
    /\ last \in Nat /\ newest \in Nat /\ Texts(ram) /\ Texts(ssd)
    /\ reader \in [at : {"free", "asks", "told"},
                   kind : {"none", "recall", "recent", "session", "resolve", "near"},
                   from : Nat, got : SUBSET ReadRow]
    /\ reader.from <= last

\* No other row has the text of a row of the archive.
ApartFrom(got) == \A r, s \in got : r.tier = "ssd" /\ s # r => s.text # r.text

\* While the query is embedded: what came from the archive was not in the primary
\* when the request came in, nor is it now under an id of then.
AskSafe ==
    reader.at = "asks" =>
        /\ ApartFrom(reader.got)
        /\ \A r \in reader.got : r.tier = "ssd" =>
             \A i \in DOMAIN ram : i <= reader.from => ram[i] # r.text

ReadInv == ReadShape /\ AskSafe /\ Reads!RepeatsOnlyCopies

LEMMA InitRead == Reads!Init => ReadInv
BY DEF Reads!Init, Reads!Reader, ReadInv, ReadShape, Texts, AskSafe, Reads!RepeatsOnlyCopies,
       Reads!Told

\* The rows of a table.
LEMMA RowsType ==
    ASSUME last \in Nat, NEW table, Texts(table), NEW ids \in SUBSET DOMAIN table,
           NEW tier \in {"ram", "ssd", "semantic"}
    PROVE  /\ Reads!Rows(tier, table, ids) \in SUBSET ReadRow
           /\ \A r \in Reads!Rows(tier, table, ids) :
                r.tier = tier /\ r.id \in ids /\ r.text = table[r.id]
BY DEF Reads!Rows, ReadRow, Texts

\* An answer of both tiers.
LEMMA AnswerApart ==
    ASSUME ReadShape, NEW ids \in SUBSET DOMAIN ram, NEW more \in SUBSET DOMAIN ssd
    PROVE  LET upper == Reads!Rows("ram", ram, ids)
               lower == Reads!Rows("ssd", ssd, more)
           IN  /\ ApartFrom(upper \cup Reads!Unseen(lower, upper))
               /\ upper \cup Reads!Unseen(lower, upper) \in SUBSET ReadRow
<1> DEFINE upper == Reads!Rows("ram", ram, ids)
           lower == Reads!Rows("ssd", ssd, more)
           new == Reads!Unseen(lower, upper)
<1>1. upper \in SUBSET ReadRow /\ \A r \in upper : r.tier = "ram"
  BY RowsType DEF ReadShape
<1>2. lower \in SUBSET ReadRow /\ \A r \in lower : r.tier = "ssd" /\ r.text = ssd[r.id]
  BY RowsType DEF ReadShape
<1> HIDE DEF upper, lower
<1>3. new \subseteq lower
  BY DEF Reads!Unseen
<1>4. ASSUME NEW r \in new, NEW s \in upper \cup new, s # r PROVE s.text # r.text
  <2>1. CASE s \in upper
    BY <1>4, <2>1 DEF Reads!Unseen
  <2>2. CASE s \in new
    <3>1. r \in ReadRow /\ s \in ReadRow /\ r.tier = "ssd" /\ s.tier = "ssd"
      BY <1>2, <1>3, <1>4, <2>2
    <3>2. r.text = s.text => ~(r.id < s.id) /\ ~(s.id < r.id)
      BY <1>3, <1>4, <2>2 DEF Reads!Unseen
    <3>3. r.text = s.text => r.id = s.id
      BY <3>1, <3>2 DEF ReadRow
    <3>4. r.id = s.id /\ r.text = s.text => r = s
      BY <3>1 DEF ReadRow
    <3> QED BY <1>4, <3>3, <3>4
  <2> QED BY <1>4, <2>1, <2>2
<1>5. ApartFrom(upper \cup new)
  BY <1>1, <1>4 DEF ApartFrom
<1>6. upper \cup new \in SUBSET ReadRow
  BY <1>1, <1>2, <1>3
<1> QED BY <1>5, <1>6 DEF upper, lower

\* promoteToRam puts copies above the last id and leaves the rest as it is.
LEMMA PromoteGives ==
    ASSUME ReadShape, NEW rows2 \in SUBSET ReadRow, IsFiniteSet(rows2),
           NEW texts, texts = {r.text : r \in rows2} \ Reads!TextsOf(ram),
           last' = last + Cardinality(texts),
           NEW given \in [(last + 1)..last' -> texts], ram' = Reads!Joined(ram, given),
           UNCHANGED <<newest, ssd>>
    PROVE  /\ last' \in Nat /\ last <= last' /\ newest' \in Nat /\ Texts(ram)' /\ Texts(ssd)'
           /\ \A i \in DOMAIN ram' : i <= last => i \in DOMAIN ram /\ ram'[i] = ram[i]
<1>1. last \in Nat /\ Texts(ram) /\ Texts(ssd) /\ newest \in Nat
  BY DEF ReadShape
<1>2. Cardinality(texts) \in Nat
  <2> DEFINE text == [r \in rows2 |-> r.text]
  <2>1. text \in Surjection(rows2, {text[r] : r \in rows2})
    BY DEF Surjection
  <2>3. IsFiniteSet({text[r] : r \in rows2})
    BY <2>1, FS_Surjection
  <2>2. texts \in SUBSET {text[r] : r \in rows2}
    OBVIOUS
  <2> QED BY <2>2, <2>3, FS_Subset, FS_CardinalityType
<1>3. last' \in Nat /\ last <= last'
  BY <1>1, <1>2
<1>4. texts \subseteq Nat
  BY DEF ReadRow
<1>5. given \in [DOMAIN given -> Nat] /\ DOMAIN given = (last + 1)..last'
  BY <1>4
<1>6. /\ DOMAIN ram' = DOMAIN ram \cup ((last + 1)..last')
      /\ ram' \in [DOMAIN ram' -> Nat]
      /\ \A i \in DOMAIN ram : ram'[i] = ram[i]
  <2>1. ram \in [DOMAIN ram -> Nat]
    BY <1>1 DEF Texts
  <2> QED BY <1>5, <2>1, JoinedType
<1>7. Texts(ram)' /\ Texts(ssd)'
  <2>1. DOMAIN ram \subseteq 1..last /\ DOMAIN ssd \subseteq 1..last
    BY <1>1 DEF Texts
  <2>2. last \in Nat /\ last' \in Nat /\ last <= last'
    BY <1>1, <1>3
  <2>3. 1..last \subseteq 1..last' /\ (last + 1)..last' \subseteq 1..last'
    <3> SUFFICES ASSUME NEW a \in Nat, NEW b \in Nat, a <= b
                 PROVE 1..a \subseteq 1..b /\ (a + 1)..b \subseteq 1..b
      BY <2>2
    <3> QED OBVIOUS
  <2>4. DOMAIN ram' \subseteq 1..last' /\ DOMAIN ssd \subseteq 1..last'
    BY <1>6, <2>1, <2>3
  <2> QED BY <1>1, <1>6, <2>4 DEF Texts
<1>8. \A i \in DOMAIN ram' : i <= last => i \in DOMAIN ram /\ ram'[i] = ram[i]
  BY <1>1, <1>3, <1>6 DEF Texts
<1> QED BY <1>1, <1>3, <1>7, <1>8

\* Rows that come and go while nothing is asked for.
LEMMA TablesStep ==
    ASSUME ReadInv, last' \in Nat, last <= last', newest' \in Nat, Texts(ram)', Texts(ssd)',
           UNCHANGED reader,
           \A i \in DOMAIN ram' : i <= last => i \in DOMAIN ram /\ ram'[i] = ram[i]
    PROVE  ReadInv'
<1>1. reader.from \in Nat /\ reader.from <= last /\ last \in Nat
  BY DEF ReadInv, ReadShape
<1>2. ReadShape'
  BY <1>1 DEF ReadInv, ReadShape
<1>3. AskSafe'
  <2>1. \A i \in DOMAIN ram' : i \in Nat
    BY DEF Texts
  <2> QED BY <1>1, <2>1 DEF ReadInv, AskSafe, ApartFrom
<1>4. Reads!RepeatsOnlyCopies'
  BY DEF ReadInv, Reads!RepeatsOnlyCopies, Reads!Told
<1> QED BY <1>2, <1>3, <1>4 DEF ReadInv

\* A request that is answered at once, of whatever kind.
LEMMA ToldStep ==
    ASSUME ReadInv, last' \in Nat, last <= last', newest' \in Nat, Texts(ram)', Texts(ssd)',
           NEW kind \in {"recall", "recent", "session", "resolve", "near"},
           NEW got \in SUBSET ReadRow, kind \in {"recall", "recent"} => ApartFrom(got),
           reader' = Reads!Reader("told", kind, got)
    PROVE  ReadInv'
<1>1. last \in Nat
  BY DEF ReadInv, ReadShape
<1>2. /\ reader'.at = "told" /\ reader'.kind = kind /\ reader'.got = got
      /\ reader'.from = last
      /\ reader' \in [at : {"free", "asks", "told"},
                      kind : {"none", "recall", "recent", "session", "resolve", "near"},
                      from : Nat, got : SUBSET ReadRow]
  BY <1>1 DEF Reads!Reader
<1>3. ReadShape' /\ AskSafe'
  BY <1>1, <1>2 DEF ReadShape, AskSafe
<1>4. Reads!RepeatsOnlyCopies'
  BY <1>2 DEF Reads!RepeatsOnlyCopies, Reads!Told, ApartFrom
<1> QED BY <1>3, <1>4 DEF ReadInv

\* What /recall and /recent read and promote.
LEMMA CascadeStep ==
    ASSUME ReadShape, NEW ids \in SUBSET DOMAIN ram, NEW more \in SUBSET DOMAIN ssd,
           NEW upper, upper = Reads!Rows("ram", ram, ids),
           NEW new, new = Reads!Unseen(Reads!Rows("ssd", ssd, more), upper),
           NEW texts, texts = {r.text : r \in new} \ Reads!TextsOf(ram),
           last' = last + Cardinality(texts),
           NEW given \in [(last + 1)..last' -> texts], ram' = Reads!Joined(ram, given),
           UNCHANGED <<newest, ssd>>
    PROVE  /\ ApartFrom(upper \cup new) /\ upper \cup new \in SUBSET ReadRow
           /\ last' \in Nat /\ last <= last' /\ newest' \in Nat /\ Texts(ram)' /\ Texts(ssd)'
           /\ \A i \in DOMAIN ram' : i <= last => i \in DOMAIN ram /\ ram'[i] = ram[i]
<1>1. ApartFrom(upper \cup new) /\ upper \cup new \in SUBSET ReadRow
  BY AnswerApart
<1>2. IsFiniteSet(new)
  <2>1. IsFiniteSet(more)
    BY TextsFinite DEF ReadShape
  <2>2. IsFiniteSet(Reads!Rows("ssd", ssd, more))
    BY <2>1, RowsSize
  <2>3. new \in SUBSET Reads!Rows("ssd", ssd, more)
    BY DEF Reads!Unseen
  <2> QED BY <2>2, <2>3, FS_Subset
<1>3. new \in SUBSET ReadRow
  BY <1>1
<1> QED BY <1>1, <1>2, <1>3, PromoteGives

LEMMA RecallStep ==
    ASSUME ReadInv, NEW hits, Reads!Recall(hits)
    PROVE  ReadInv'
<1> DEFINE ids == Reads!Search(ram, hits, PageSize)
           upper == Reads!Rows("ram", ram, ids)
           more == Reads!Search(ssd, hits, PageSize - Reads!Cardinality(upper))
           new == Reads!Unseen(Reads!Rows("ssd", ssd, more), upper)
           texts == {r.text : r \in new} \ Reads!TextsOf(ram)
<1>0. PageSize \in Nat
  BY PartsAssumption DEF PartsAssumption, Reads!RecallAssumption
<1>1. /\ ids \in SUBSET DOMAIN ram /\ more \in SUBSET DOMAIN ssd
      /\ \A i \in more : ssd[i] \in hits
  BY DEF Reads!Search
<1>2. /\ last' = last + Reads!Cardinality(texts)
      /\ \E given \in [(last + 1)..last' -> texts] : ram' = Reads!Joined(ram, given)
      /\ UNCHANGED <<newest, ssd>>
  BY DEF Reads!Recall, Reads!PromoteToRam
<1>3. \/ reader' = Reads!Reader("told", "recall", upper \cup new)
      \/ /\ Reads!Cardinality(upper \cup new) < PageSize
         /\ reader' = Reads!Reader("asks", "recall", upper \cup new)
  BY DEF Reads!Recall
<1>4. /\ ApartFrom(upper \cup new) /\ upper \cup new \in SUBSET ReadRow
      /\ last' \in Nat /\ last <= last' /\ newest' \in Nat /\ Texts(ram)' /\ Texts(ssd)'
      /\ \A i \in DOMAIN ram' : i <= last => i \in DOMAIN ram /\ ram'[i] = ram[i]
  <2> HIDE DEF ids, more, texts
  <2>1. PICK given \in [(last + 1)..last' -> texts] : ram' = Reads!Joined(ram, given)
    BY <1>2
  <2>2. last' = last + Cardinality(texts)
    BY <1>2, ReadsCardinality
  <2>3. texts = {r.text : r \in new} \ Reads!TextsOf(ram)
    BY DEF texts
  <2> HIDE DEF upper, new
  <2>4. upper = Reads!Rows("ram", ram, ids)
    BY DEF upper
  <2>5. new = Reads!Unseen(Reads!Rows("ssd", ssd, more), upper)
    BY DEF new, upper
  <2>6. ReadShape
    BY DEF ReadInv
  <2> QED BY <1>1, <1>2, <2>1, <2>2, <2>3, <2>4, <2>5, <2>6, CascadeStep
<1>5. CASE reader' = Reads!Reader("told", "recall", upper \cup new)
  <2> HIDE DEF upper, new
  <2> QED BY <1>4, <1>5, ToldStep
<1>6. CASE /\ Reads!Cardinality(upper \cup new) < PageSize
           /\ reader' = Reads!Reader("asks", "recall", upper \cup new)
  <2>1. last \in Nat /\ Texts(ram) /\ Texts(ssd)
    BY DEF ReadInv, ReadShape
  <2>2. IsFiniteSet(ids) /\ IsFiniteSet(more)
    BY <1>1, <2>1, TextsFinite
  <2>3. /\ IsFiniteSet(upper) /\ Cardinality(upper) = Cardinality(ids)
        /\ IsFiniteSet(Reads!Rows("ssd", ssd, more))
    BY <2>2, RowsSize
  <2>4. new \in SUBSET Reads!Rows("ssd", ssd, more)
    BY DEF Reads!Unseen
  <2>5. IsFiniteSet(upper \cup new)
    <3>1. IsFiniteSet(new)
      BY <2>3, <2>4, FS_Subset
    <3> HIDE DEF upper, new
    <3> QED BY <2>3, <3>1, FS_Union
  <2>6. Cardinality(ids) < PageSize
    <3> HIDE DEF ids, new
    <3>1. upper \in SUBSET (upper \cup new)
      OBVIOUS
    <3> HIDE DEF upper
    <3>2. Cardinality(upper) <= Cardinality(upper \cup new)
      BY <2>5, <3>1, FS_Subset
    <3>3. Cardinality(upper) \in Nat /\ Cardinality(upper \cup new) \in Nat
      BY <2>3, <2>5, FS_CardinalityType
    <3> QED BY <1>0, <1>6, <2>3, <3>2, <3>3, ReadsCardinality
  <2>7. ids = {i \in DOMAIN ram : ram[i] \in hits}
    BY <1>0, <2>1, <2>6, SearchFindsAll
  <2>8. ASSUME NEW r \in upper \cup new, r.tier = "ssd", NEW i \in DOMAIN ram PROVE ram[i] # r.text
    <3>1. \A x \in upper : x.tier = "ram"
      BY DEF Reads!Rows
    <3>2. r \in new
      BY <2>8, <3>1
    <3>3. r.text \in hits
      BY <1>1, <2>4, <3>2 DEF Reads!Rows
    <3>4. ~\E f \in upper : f.text = r.text
      BY <3>2 DEF Reads!Unseen
    <3>5. ASSUME NEW j \in ids PROVE \E f \in upper : f.text = ram[j]
      <4>1. [tier |-> "ram", id |-> j, text |-> ram[j]] \in upper
        BY DEF Reads!Rows
      <4> HIDE DEF upper, ids
      <4> QED BY <4>1
    <3> HIDE DEF upper, new, ids
    <3> QED BY <2>7, <3>3, <3>4, <3>5
  <2> HIDE DEF upper, new, ids, more, texts
  <2>9. /\ reader'.at = "asks" /\ reader'.kind = "recall" /\ reader'.got = upper \cup new
        /\ reader'.from = last
        /\ reader' \in [at : {"free", "asks", "told"},
                        kind : {"none", "recall", "recent", "session", "resolve", "near"},
                        from : Nat, got : SUBSET ReadRow]
    BY <1>4, <1>6, <2>1 DEF Reads!Reader
  <2>10. ReadShape'
    BY <1>4, <2>1, <2>9 DEF ReadShape
  <2>11. AskSafe'
    BY <1>4, <2>8, <2>9 DEF AskSafe
  <2> QED BY <2>9, <2>10, <2>11 DEF ReadInv, Reads!RepeatsOnlyCopies, Reads!Told
<1> QED BY <1>3, <1>5, <1>6

LEMMA RecentStep == ASSUME ReadInv, Reads!Recent PROVE ReadInv'
<1> DEFINE ids == Reads!Latest(ram, PageSize)
           upper == Reads!Rows("ram", ram, ids)
           more == Reads!Latest(ssd, PageSize - Reads!Cardinality(upper))
           new == Reads!Unseen(Reads!Rows("ssd", ssd, more), upper)
           texts == {r.text : r \in new} \ Reads!TextsOf(ram)
<1>1. ids \in SUBSET DOMAIN ram /\ more \in SUBSET DOMAIN ssd
  BY DEF Reads!Latest
<1>2. /\ last' = last + Reads!Cardinality(texts)
      /\ \E given \in [(last + 1)..last' -> texts] : ram' = Reads!Joined(ram, given)
      /\ UNCHANGED <<newest, ssd>>
      /\ reader' = Reads!Reader("told", "recent", upper \cup new)
  BY DEF Reads!Recent, Reads!PromoteToRam
<1> HIDE DEF ids, more, texts
<1>3. PICK given \in [(last + 1)..last' -> texts] : ram' = Reads!Joined(ram, given)
  BY <1>2
<1>4. last' = last + Cardinality(texts)
  BY <1>2, ReadsCardinality
<1>5. texts = {r.text : r \in new} \ Reads!TextsOf(ram)
  BY DEF texts
<1> HIDE DEF upper, new
<1>6. upper = Reads!Rows("ram", ram, ids)
  BY DEF upper
<1>7. new = Reads!Unseen(Reads!Rows("ssd", ssd, more), upper)
  BY DEF new, upper
<1>8. ReadShape
  BY DEF ReadInv
<1>9. /\ ApartFrom(upper \cup new) /\ upper \cup new \in SUBSET ReadRow
      /\ last' \in Nat /\ last <= last' /\ newest' \in Nat /\ Texts(ram)' /\ Texts(ssd)'
  BY <1>1, <1>2, <1>3, <1>4, <1>5, <1>6, <1>7, <1>8, CascadeStep
<1> QED BY <1>2, <1>9, ToldStep

\* After the await: what the index finds is no copy of what the archive gave,
\* unless it was put into the primary since.
LEMMA BoostStep == ASSUME ReadInv, Reads!SemanticBoost PROVE ReadInv'
<1>1. /\ last \in Nat /\ newest \in Nat /\ Texts(ram) /\ Texts(ssd)
      /\ reader \in [at : {"free", "asks", "told"},
                     kind : {"none", "recall", "recent", "session", "resolve", "near"},
                     from : Nat, got : SUBSET ReadRow]
      /\ reader.from <= last
  BY DEF ReadInv, ReadShape
<1>2. PICK near : reader' = [reader EXCEPT !.at = "told",
                     !.got = @ \cup Reads!Rows("semantic", ram, near \cap DOMAIN ram)]
  BY DEF Reads!SemanticBoost
<1> DEFINE more == Reads!Rows("semantic", ram, near \cap DOMAIN ram)
<1>3. /\ more \in SUBSET ReadRow
      /\ \A r \in more : r.tier = "semantic" /\ r.id \in DOMAIN ram /\ r.text = ram[r.id]
  BY <1>1, RowsType
<1>4. UNCHANGED <<last, newest, ram, ssd>> /\ reader.at = "asks"
  BY DEF Reads!SemanticBoost, Reads!tables
<1> HIDE DEF more
<1>5. reader' = [reader EXCEPT !.at = "told", !.got = reader.got \cup more]
  BY <1>2 DEF more
<1>6. /\ reader'.at = "told" /\ reader'.got = reader.got \cup more /\ reader'.from = reader.from
      /\ reader' \in [at : {"free", "asks", "told"},
                      kind : {"none", "recall", "recent", "session", "resolve", "near"},
                      from : Nat, got : SUBSET ReadRow]
  BY <1>1, <1>3, <1>5
<1>7. ReadShape' /\ AskSafe'
  BY <1>1, <1>4, <1>6 DEF ReadShape, Texts, AskSafe
<1>8. ASSUME NEW r \in reader'.got, r.tier = "ssd", NEW s \in reader'.got \ {r}, s.text = r.text
      PROVE  s.tier = "semantic" /\ s.id > reader'.from
  <2>1. r \in reader.got
    BY <1>3, <1>6, <1>8
  <2>2. s \notin reader.got
    BY <1>4, <1>8, <2>1 DEF ReadInv, AskSafe, ApartFrom
  <2>3. s \in more
    BY <1>6, <1>8, <2>2
  <2>4. s.tier = "semantic" /\ s.id \in DOMAIN ram /\ ram[s.id] = r.text
    BY <1>3, <1>8, <2>3
  <2>5. ~(s.id <= reader.from)
    BY <1>4, <1>8, <2>1, <2>4 DEF ReadInv, AskSafe
  <2>6. s.id \in Nat /\ reader.from \in Nat
    BY <1>1, <2>4 DEF Texts
  <2> QED BY <1>6, <2>4, <2>5, <2>6
<1> QED BY <1>7, <1>8 DEF ReadInv, Reads!RepeatsOnlyCopies

LEMMA ReadStep == ReadInv /\ [Reads!RecallNext]_Reads!vars => ReadInv'
<1> SUFFICES ASSUME ReadInv, [Reads!RecallNext]_Reads!vars PROVE ReadInv'
  OBVIOUS
<1>0. last \in Nat /\ newest \in Nat /\ Texts(ram) /\ Texts(ssd)
  BY DEF ReadInv, ReadShape
<1>1. CASE Reads!Store
  <2> DEFINE row == [i \in {last + 1} |-> newest]
  <2>1. /\ last' = last + 1 /\ newest' = newest + 1 /\ UNCHANGED reader
        /\ ram' = Reads!Joined(ram, row)
        /\ ssd' = Reads!Joined(ssd, row) \/ ssd' = ssd
    BY <1>1 DEF Reads!Store
  <2>2. row \in [DOMAIN row -> Nat] /\ DOMAIN row = {last + 1}
    BY <1>0
  <2> HIDE DEF row
  <2>3. ASSUME NEW table, Texts(table), NEW more, more = Reads!Joined(table, row)
        PROVE  /\ DOMAIN more \subseteq 1..(last + 1) /\ more \in [DOMAIN more -> Nat]
               /\ \A i \in DOMAIN more : i <= last => i \in DOMAIN table /\ more[i] = table[i]
    <3>1. /\ DOMAIN more = DOMAIN table \cup {last + 1}
          /\ more \in [DOMAIN more -> Nat]
          /\ \A i \in DOMAIN table : more[i] = table[i]
      BY <2>2, <2>3, JoinedType DEF Texts
    <3> QED BY <1>0, <2>3, <3>1 DEF Texts
  <2>4. Texts(ram)' /\ \A i \in DOMAIN ram' : i <= last => i \in DOMAIN ram /\ ram'[i] = ram[i]
    BY <1>0, <2>1, <2>3 DEF Texts
  <2>5. Texts(ssd)'
    BY <1>0, <2>1, <2>3 DEF Texts
  <2>6. last' \in Nat /\ last <= last' /\ newest' \in Nat
    BY <1>0, <2>1
  <2> QED BY <2>1, <2>4, <2>5, <2>6, TablesStep
<1>2. CASE Reads!CatchUp
  <2> DEFINE more == [i \in Reads!Above(ram, ssd) |-> ram[i]]
  <2>1. ssd' = Reads!Joined(ssd, more) /\ UNCHANGED <<last, newest, ram, reader>>
    BY <1>2 DEF Reads!CatchUp
  <2>2. more \in [DOMAIN more -> Nat] /\ DOMAIN more \subseteq DOMAIN ram
    BY <1>0 DEF Reads!Above, Texts
  <2> HIDE DEF more
  <2>3. DOMAIN ssd' = DOMAIN ssd \cup DOMAIN more /\ ssd' \in [DOMAIN ssd' -> Nat]
    BY <1>0, <2>1, <2>2, JoinedType DEF Texts
  <2>4. Texts(ssd)' /\ Texts(ram)' /\ last <= last'
    BY <1>0, <2>1, <2>2, <2>3 DEF Texts
  <2> QED BY <1>0, <2>1, <2>4, TablesStep
<1>3. CASE Reads!Restore
  <2> DEFINE more == [i \in Reads!Above(ssd, ram) |-> ssd[i]]
  <2>1. /\ ram' = Reads!Joined(ram, more) \/ ram' = ram
        /\ UNCHANGED <<last, newest, ssd>> /\ reader' = Reads!Reader("free", "none", {})
    BY <1>3 DEF Reads!Restore
  <2>2. more \in [DOMAIN more -> Nat] /\ DOMAIN more \subseteq DOMAIN ssd
    BY <1>0 DEF Reads!Above, Texts
  <2> HIDE DEF more
  <2>3. /\ DOMAIN Reads!Joined(ram, more) = DOMAIN ram \cup DOMAIN more
        /\ Reads!Joined(ram, more) \in [DOMAIN ram \cup DOMAIN more -> Nat]
    BY <1>0, <2>2, JoinedType DEF Texts
  <2>4. Texts(ssd)' /\ Texts(ram)'
    BY <1>0, <2>1, <2>2, <2>3 DEF Texts
  <2>5. /\ reader'.at = "free" /\ reader'.from = last
        /\ reader' \in [at : {"free", "asks", "told"},
                        kind : {"none", "recall", "recent", "session", "resolve", "near"},
                        from : Nat, got : SUBSET ReadRow]
    BY <1>0, <2>1 DEF Reads!Reader
  <2> QED BY <1>0, <2>1, <2>4, <2>5
          DEF ReadInv, ReadShape, AskSafe, Reads!RepeatsOnlyCopies, Reads!Told
<1>4. ASSUME NEW i, Reads!VecUpsert(i) \/ Reads!Leaves(i) PROVE ReadInv'
  <2>1. /\ UNCHANGED <<last, newest, ssd, reader>>
        /\ ram' = ram \/ ram' = [j \in DOMAIN ram \ {i} |-> ram[j]]
    BY <1>4 DEF Reads!VecUpsert, Reads!Leaves
  <2>2. Texts(ram)' /\ Texts(ssd)' /\ last <= last'
    BY <1>0, <2>1 DEF Texts
  <2>3. \A j \in DOMAIN ram' : j <= last => j \in DOMAIN ram /\ ram'[j] = ram[j]
    BY <2>1
  <2> QED BY <1>0, <2>1, <2>2, <2>3, TablesStep
<1>5. ASSUME NEW hits, Reads!Recall(hits) PROVE ReadInv'
  BY <1>5, RecallStep
<1>6. CASE Reads!SemanticBoost
  BY <1>6, BoostStep
<1>7. CASE Reads!Recent
  BY <1>7, RecentStep
<1>8. CASE Reads!Session \/ (\E hits \in SUBSET Reads!Texts : Reads!Resolve(hits))
           \/ Reads!SemanticSearch
  <2>1. PICK kind \in {"session", "resolve", "near"}, ids \in SUBSET DOMAIN ram,
             more \in SUBSET DOMAIN ssd :
          reader' = Reads!Reader("told", kind,
                      Reads!Rows("ram", ram, ids) \cup Reads!Rows("ssd", ssd, more))
    <3>1. \A table, n, hits :
            Reads!Page(table, n) \in SUBSET DOMAIN table
            /\ Reads!Search(table, hits, n) \in SUBSET DOMAIN table
      BY DEF Reads!Page, Reads!Search
    <3>2. CASE Reads!Session
      BY <3>1, <3>2 DEF Reads!Session
    <3>3. CASE \E hits \in SUBSET Reads!Texts : Reads!Resolve(hits)
      BY <3>1, <3>3 DEF Reads!Resolve
    <3>4. CASE Reads!SemanticSearch
      <4>1. PICK near \in SUBSET DOMAIN ram :
              reader' = Reads!Reader("told", "near", Reads!Rows("ram", ram, near))
        BY <3>4 DEF Reads!SemanticSearch
      <4>2. Reads!Rows("ssd", ssd, {}) = {}
        BY DEF Reads!Rows
      <4>3. {} \in SUBSET DOMAIN ssd
        OBVIOUS
      <4>4. Reads!Rows("ram", ram, near) = Reads!Rows("ram", ram, near) \cup Reads!Rows("ssd", ssd, {})
        BY <4>2
      <4> QED BY <4>1, <4>3, <4>4
    <3> QED BY <1>8, <3>2, <3>3, <3>4
  <2>2. Reads!Rows("ram", ram, ids) \cup Reads!Rows("ssd", ssd, more) \in SUBSET ReadRow
    <3>1. Reads!Rows("ram", ram, ids) \in SUBSET ReadRow
      BY <1>0, RowsType
    <3>2. Reads!Rows("ssd", ssd, more) \in SUBSET ReadRow
      BY <1>0, RowsType
    <3> QED BY <3>1, <3>2
  <2>3. UNCHANGED <<last, newest, ram, ssd>>
    BY <1>8 DEF Reads!Session, Reads!Resolve, Reads!SemanticSearch, Reads!tables
  <2>4. /\ last' \in Nat /\ last <= last' /\ newest' \in Nat /\ Texts(ram)' /\ Texts(ssd)'
    BY <1>0, <2>3 DEF Texts
  <2> QED BY <2>1, <2>2, <2>4, ToldStep
<1>9. CASE UNCHANGED Reads!vars
  BY <1>0, <1>9, TablesStep DEF Reads!vars, Reads!tables, Texts
<1> QED BY <1>1, <1>2, <1>3, <1>4, <1>5, <1>6, <1>7, <1>8, <1>9 DEF Reads!RecallNext

-----------------------------------------------------------------------------
(* The evolution cycle merges what several streams found.                  *)

LEMMA EvolveCardinality == \A S : Evolve!Cardinality(S) = Cardinality(S)
BY DEF Evolve!Cardinality, Cardinality

ScoredRows(s) == Listed(s) /\ \A n \in DOMAIN s : s[n].score \in Int

\* Each key of the first m rows has one candidate, the first of the best of
\* those rows, with the streams of all of them.
Merged(found_, m, kept_) ==
    /\ \A x, y \in DOMAIN kept_ : Evolve!Key(kept_[x].row) = Evolve!Key(kept_[y].row) => x = y
    /\ \A i \in 1..m : \E x \in DOMAIN kept_ : Evolve!Key(kept_[x].row) = Evolve!Key(found_[i])
    /\ \A x \in DOMAIN kept_ :
         LET group == {i \in 1..m : Evolve!Key(found_[i]) = Evolve!Key(kept_[x].row)} IN
         /\ kept_[x].sources = {found_[i].stream : i \in group}
         /\ \E i \in group :
              /\ found_[i] = kept_[x].row
              /\ \A n \in group : /\ found_[n].score <= kept_[x].row.score
                                  /\ n < i => found_[n].score < kept_[x].row.score

\* The types.
EvolveShape ==
    /\ ScoredRows(rows) /\ ScoredRows(cycle.raw) /\ Listed(cycle.kept)
    /\ cycle = [at |-> cycle.at, raw |-> cycle.raw, merged |-> cycle.merged, kept |-> cycle.kept,
                evidence |-> cycle.evidence, best |-> cycle.best, top |-> cycle.top]
    /\ cycle.merged \in 0..Len(cycle.raw)

EvolveInv ==
    /\ EvolveShape
    /\ cycle.at = "merge" => Merged(cycle.raw, cycle.merged, cycle.kept)
    /\ cycle.at \in {"score", "mutate"} => Merged(cycle.raw, Len(cycle.raw), cycle.kept)

LEMMA ScoredAppend ==
    ASSUME NEW s, ScoredRows(s), NEW e, e.score \in Int
    PROVE  ScoredRows(Append(s, e))
<1>1. Len(s) \in Nat /\ DOMAIN s = 1..Len(s)
  BY ListedAre DEF ScoredRows
<1>2. \A i \in 1..(Len(s) + 1) : i \in DOMAIN s \/ i = Len(s) + 1
  BY <1>1
<1> QED BY <1>1, <1>2, AppendedIs DEF ScoredRows

LEMMA EmptyListed == Listed(<<>>) /\ DOMAIN <<>> = {} /\ Len(<<>>) = 0
<1>1. <<>> \in Seq({})
  OBVIOUS
<1> QED BY <1>1 DEF Listed

\* One step of the loop merges one row more.
LEMMA MergeInStep ==
    ASSUME NEW found_, ScoredRows(found_), NEW m \in Nat, m < Len(found_),
           NEW kept_, Listed(kept_), Merged(found_, m, kept_)
    PROVE  /\ Listed(Evolve!MergeIn(kept_, found_[m + 1]))
           /\ Merged(found_, m + 1, Evolve!MergeIn(kept_, found_[m + 1]))
<1> DEFINE r == found_[m + 1]
           c == Evolve!Candidate(r)
           at == {i \in DOMAIN kept_ : Evolve!Key(kept_[i].row) = Evolve!Key(r)}
           i == CHOOSE x \in at : TRUE
           new == Evolve!MergeIn(kept_, r)
           Group(k, n) == {j \in 1..n : Evolve!Key(found_[j]) = k}
<1>1. /\ Len(kept_) \in Nat /\ DOMAIN kept_ = 1..Len(kept_)
      /\ Len(found_) \in Nat /\ \A n \in 1..(m + 1) : found_[n].score \in Int
  BY ListedAre DEF ScoredRows
<1>2. 1..(m + 1) = (1..m) \cup {m + 1} /\ m + 1 \notin 1..m
  OBVIOUS
<1>3. \A k : Group(k, m + 1) = IF k = Evolve!Key(r) THEN Group(k, m) \cup {m + 1} ELSE Group(k, m)
  BY <1>2
<1>4. c.row = r /\ c.sources = {r.stream}
  BY DEF Evolve!Candidate
<1>5. CASE at = {}
  <2>1. new = Append(kept_, c)
    BY <1>5 DEF Evolve!MergeIn
  <2>2. /\ Listed(new) /\ DOMAIN new = DOMAIN kept_ \cup {Len(kept_) + 1}
        /\ \A x \in DOMAIN kept_ : new[x] = kept_[x]
        /\ new[Len(kept_) + 1] = c /\ Len(kept_) + 1 \notin DOMAIN kept_
    <3>1. 1..(Len(kept_) + 1) = (1..Len(kept_)) \cup {Len(kept_) + 1}
      BY <1>1
    <3> HIDE DEF c
    <3> QED BY <1>1, <2>1, <3>1, AppendedIs
  <2>3. \A x \in DOMAIN kept_ : Evolve!Key(kept_[x].row) # Evolve!Key(r)
    BY <1>5
  <2>4. Group(Evolve!Key(r), m) = {}
    BY <2>3 DEF Merged
  <2> HIDE DEF c, new, at, i
  <2>5. \A x, y \in DOMAIN new : Evolve!Key(new[x].row) = Evolve!Key(new[y].row) => x = y
    <3> HIDE DEF r
    <3> QED BY <1>4, <2>2, <2>3 DEF Merged
  <2>6. \A j \in 1..(m + 1) : \E x \in DOMAIN new : Evolve!Key(new[x].row) = Evolve!Key(found_[j])
    <3> SUFFICES ASSUME NEW j \in 1..(m + 1)
                 PROVE  \E x \in DOMAIN new : Evolve!Key(new[x].row) = Evolve!Key(found_[j])
      OBVIOUS
    <3>1. CASE j \in 1..m
      <4>1. PICK x \in DOMAIN kept_ : Evolve!Key(kept_[x].row) = Evolve!Key(found_[j])
        BY <3>1 DEF Merged
      <4> QED BY <2>2, <4>1
    <3>2. CASE j = m + 1
      <4>1. new[Len(kept_) + 1].row = found_[j]
        BY <1>4, <2>2, <3>2
      <4> QED BY <2>2, <4>1
    <3> QED BY <1>2, <3>1, <3>2
  <2>7. ASSUME NEW x \in DOMAIN new
        PROVE  LET group == Group(Evolve!Key(new[x].row), m + 1) IN
               /\ new[x].sources = {found_[j].stream : j \in group}
               /\ \E j \in group :
                    /\ found_[j] = new[x].row
                    /\ \A n \in group : /\ found_[n].score <= new[x].row.score
                                        /\ n < j => found_[n].score < new[x].row.score
    <3>1. CASE x \in DOMAIN kept_
      <4>1. new[x] = kept_[x] /\ Group(Evolve!Key(new[x].row), m + 1)
                               = Group(Evolve!Key(kept_[x].row), m)
        BY <1>3, <2>2, <2>3, <3>1
      <4> QED BY <3>1, <4>1 DEF Merged
    <3>2. CASE x = Len(kept_) + 1
      <4>1. new[x].row = r /\ new[x].sources = {r.stream}
        BY <1>4, <2>2, <3>2
      <4>2. Group(Evolve!Key(new[x].row), m + 1) = {m + 1}
        BY <1>3, <2>4, <4>1
      <4> QED BY <1>1, <4>1, <4>2
    <3> QED BY <2>2, <2>7, <3>1, <3>2
  <2>8. Merged(found_, m + 1, new)
    BY <2>5, <2>6, <2>7 DEF Merged
  <2> QED BY <2>2, <2>8 DEF new
<1>6. CASE at # {}
  <2> DEFINE d == [row |-> Evolve!Base(kept_[i], c), sources |-> Evolve!Union(kept_[i], c)]
             k == Evolve!Key(r)
  <2>1. i \in at
    BY <1>6
  <2>2. new = [kept_ EXCEPT ![i] = d]
    BY <1>6 DEF Evolve!MergeIn
  <2> HIDE DEF at, i
  <2>3. i \in DOMAIN kept_ /\ Evolve!Key(kept_[i].row) = k
    BY <2>1 DEF at
  <2>4. /\ Listed(new) /\ DOMAIN new = DOMAIN kept_ /\ new[i] = d
        /\ \A x \in DOMAIN kept_ \ {i} : new[x] = kept_[x]
    <3> HIDE DEF d, new
    <3> QED BY <2>2, <2>3, ChangedIs
  <2> HIDE DEF new
  <2>5. PICK b \in Group(k, m) :
            /\ found_[b] = kept_[i].row
            /\ \A n \in Group(k, m) : /\ found_[n].score <= kept_[i].row.score
                                      /\ n < b => found_[n].score < kept_[i].row.score
    BY <2>3 DEF Merged
  <2>6. d.row = (IF r.score > kept_[i].row.score THEN r ELSE kept_[i].row)
        /\ d.sources = kept_[i].sources \cup {r.stream}
    BY <1>4 DEF Evolve!Base, Evolve!Union
  <2>7. Evolve!Key(d.row) = k
    BY <2>3, <2>6
  <2>8. d.sources = {found_[j].stream : j \in Group(k, m + 1)}
    <3>1. kept_[i].sources = {found_[j].stream : j \in Group(k, m)}
      BY <2>3 DEF Merged
    <3>2. Group(k, m + 1) = Group(k, m) \cup {m + 1}
      BY <1>3
    <3> QED BY <2>6, <3>1, <3>2
  <2>9. \E j \in Group(k, m + 1) :
            /\ found_[j] = d.row
            /\ \A n \in Group(k, m + 1) : /\ found_[n].score <= d.row.score
                                          /\ n < j => found_[n].score < d.row.score
    <3>1. Group(k, m + 1) = Group(k, m) \cup {m + 1} /\ Group(k, m) \subseteq 1..m
      BY <1>3
    <3>2. r.score \in Int /\ kept_[i].row.score \in Int /\ \A n \in Group(k, m) : found_[n].score \in Int
      BY <1>1, <2>5
    <3> HIDE DEF d, Group, k
    <3>3. CASE r.score > kept_[i].row.score
      <4>1. d.row = r
        BY <2>6, <3>3
      <4>2. \A n \in Group(k, m) : found_[n].score < r.score
        BY <2>5, <3>2, <3>3
      <4>3. \A n \in Group(k, m + 1) : found_[n].score <= r.score /\ (n < m + 1 => found_[n].score < r.score)
        BY <3>1, <3>2, <4>2
      <4> QED BY <3>1, <4>1, <4>3
    <3>4. CASE ~(r.score > kept_[i].row.score)
      <4>1. d.row = kept_[i].row
        BY <2>6, <3>4
      <4>2. b < m + 1 /\ b \in Nat
        BY <3>1
      <4>3. \A n \in Group(k, m + 1) : /\ found_[n].score <= kept_[i].row.score
                                       /\ n < b => found_[n].score < kept_[i].row.score
        BY <2>5, <3>1, <3>2, <3>4, <4>2
      <4> QED BY <2>5, <3>1, <4>1, <4>3
    <3> QED BY <3>3, <3>4
  <2> HIDE DEF d
  <2>10. \A x \in DOMAIN kept_ : Evolve!Key(new[x].row) = Evolve!Key(kept_[x].row)
    BY <2>3, <2>4, <2>7
  <2>11. \A x, y \in DOMAIN new : Evolve!Key(new[x].row) = Evolve!Key(new[y].row) => x = y
    BY <2>4, <2>10 DEF Merged
  <2>12. \A j \in 1..(m + 1) : \E x \in DOMAIN new : Evolve!Key(new[x].row) = Evolve!Key(found_[j])
    BY <1>2, <2>3, <2>4, <2>10 DEF Merged
  <2>13. ASSUME NEW x \in DOMAIN new
         PROVE  LET group == Group(Evolve!Key(new[x].row), m + 1) IN
                /\ new[x].sources = {found_[j].stream : j \in group}
                /\ \E j \in group :
                     /\ found_[j] = new[x].row
                     /\ \A n \in group : /\ found_[n].score <= new[x].row.score
                                         /\ n < j => found_[n].score < new[x].row.score
    <3>1. CASE x = i
      BY <2>4, <2>7, <2>8, <2>9, <3>1
    <3>2. CASE x # i
      <4>1. new[x] = kept_[x] /\ x \in DOMAIN kept_
        BY <2>4, <3>2
      <4>2. Evolve!Key(kept_[x].row) # Evolve!Key(r)
        BY <2>3, <3>2, <4>1 DEF Merged
      <4>3. Group(Evolve!Key(new[x].row), m + 1) = Group(Evolve!Key(kept_[x].row), m)
        BY <1>3, <4>1, <4>2
      <4> QED BY <4>1, <4>3 DEF Merged
    <3> QED BY <3>1, <3>2
  <2>14. Merged(found_, m + 1, new)
    BY <2>11, <2>12, <2>13 DEF Merged
  <2> QED BY <2>4, <2>14 DEF new
<1> QED BY <1>5, <1>6

LEMMA InitEvolve == ASSUME Evolve!Init PROVE EvolveInv
<1>1. rows = <<>> /\ cycle = Evolve!NoCycle
  BY DEF Evolve!Init
<1>2. ScoredRows(<<>>)
  BY EmptyListed DEF ScoredRows
<1> QED BY <1>1, <1>2, EmptyListed DEF EvolveInv, EvolveShape, Evolve!NoCycle

\* What is gathered is a list of rows.
LEMMA GatherStep ==
    ASSUME EvolveInv, Evolve!Gather
    PROVE  EvolveInv'
<1>1. PICK a \in Evolve!ByRelevance(Evolve!PendingIdeas),
           b \in Evolve!NewestFirst(Evolve!PendingPatches),
           d \in Evolve!ByRelevance(Evolve!SkillSuggestions) :
         LET ids == a \o b \o d
         IN  cycle' = [Evolve!NoCycle EXCEPT !.at = "merge", !.raw = [n \in DOMAIN ids |-> rows[ids[n]]]]
  BY DEF Evolve!Gather
<1>2. ASSUME NEW S \in SUBSET DOMAIN rows
      PROVE  Evolve!ByRelevance(S) \subseteq Seq(DOMAIN rows)
             /\ Evolve!NewestFirst(S) \subseteq Seq(DOMAIN rows)
  <2>1. Len(rows) \in Nat /\ DOMAIN rows = 1..Len(rows)
    BY ListedAre DEF EvolveInv, EvolveShape, ScoredRows
  <2>2. IsFiniteSet(S) /\ Cardinality(S) \in Nat
    <3>1. IsFiniteSet(1..Len(rows))
      BY <2>1, FS_Interval
    <3> QED BY <2>1, <3>1, FS_Subset, FS_CardinalityType
  <2>3. Evolve!Listings(S) \subseteq Seq(DOMAIN rows)
    <3>1. SUFFICES ASSUME NEW s \in Evolve!Listings(S) PROVE s \in Seq(DOMAIN rows)
      OBVIOUS
    <3>2. s \in [1..Cardinality(S) -> DOMAIN rows]
      BY EvolveCardinality DEF Evolve!Listings
    <3> QED BY <2>2, <3>2, IsSeqOf
  <2>4. <<>> \in Seq(DOMAIN rows)
    OBVIOUS
  <2> QED BY <2>3, <2>4 DEF Evolve!ByRelevance, Evolve!NewestFirst
<1>3. /\ Evolve!PendingIdeas \in SUBSET DOMAIN rows /\ Evolve!PendingPatches \in SUBSET DOMAIN rows
      /\ Evolve!SkillSuggestions \in SUBSET DOMAIN rows
  BY DEF Evolve!PendingIdeas, Evolve!PendingPatches, Evolve!SkillSuggestions, Evolve!Of
<1> DEFINE ids == a \o b \o d
           found_ == [n \in DOMAIN ids |-> rows[ids[n]]]
<1>4. ids \in Seq(DOMAIN rows)
  <2>1. a \in Seq(DOMAIN rows) /\ b \in Seq(DOMAIN rows) /\ d \in Seq(DOMAIN rows)
    BY <1>1, <1>2, <1>3
  <2> QED BY <2>1, ConcatProperties
<1>5. ScoredRows(found_)
  <2> HIDE DEF ids
  <2>1. Len(ids) \in Nat /\ DOMAIN ids = 1..Len(ids) /\ \A n \in DOMAIN ids : ids[n] \in DOMAIN rows
    BY <1>4
  <2>2. found_ \in [1..Len(ids) -> {rows[n] : n \in DOMAIN rows}]
    BY <2>1
  <2>3. Listed(found_)
    <3> HIDE DEF found_
    <3> QED BY <2>1, <2>2, IsSeqOf DEF Listed
  <2>4. \A n \in DOMAIN found_ : found_[n].score \in Int
    BY <2>1 DEF EvolveInv, EvolveShape, ScoredRows
  <2> QED BY <2>3, <2>4 DEF ScoredRows
<1>6. cycle' = [Evolve!NoCycle EXCEPT !.at = "merge", !.raw = found_]
  BY <1>1
<1> HIDE DEF found_
<1>7. /\ cycle'.at = "merge" /\ cycle'.raw = found_ /\ cycle'.merged = 0 /\ cycle'.kept = <<>>
      /\ cycle' = [at |-> cycle'.at, raw |-> cycle'.raw, merged |-> cycle'.merged, kept |-> cycle'.kept,
                evidence |-> cycle'.evidence, best |-> cycle'.best, top |-> cycle'.top]
  BY <1>6 DEF Evolve!NoCycle
<1>8. 0 \in 0..Len(found_)
  BY <1>5, ListedAre DEF ScoredRows
<1>9. Merged(found_, 0, <<>>)
  BY EmptyListed DEF Merged
<1>10. ScoredRows(rows')
  BY DEF Evolve!Gather, EvolveInv, EvolveShape
<1> QED BY <1>5, <1>7, <1>8, <1>9, <1>10, EmptyListed DEF EvolveInv, EvolveShape

\* Steps after which the cycle has its rows and candidates, or none.
LEMMA CycleKeeps ==
    ASSUME EvolveInv, ScoredRows(rows'), cycle'.raw = cycle.raw, cycle'.merged = cycle.merged,
           cycle'.kept = cycle.kept, cycle'.at \in {"score", "mutate", "log"},
           cycle' = [at |-> cycle'.at, raw |-> cycle'.raw, merged |-> cycle'.merged,
                     kept |-> cycle'.kept, evidence |-> cycle'.evidence, best |-> cycle'.best,
                     top |-> cycle'.top],
           \/ cycle.at \in {"score", "mutate"}
           \/ cycle.at = "merge" /\ cycle.merged = Len(cycle.raw)
           \/ cycle'.at = "log"
    PROVE  EvolveInv'
BY DEF EvolveInv, EvolveShape

LEMMA NoCycleIs ==
    ASSUME EvolveInv, ScoredRows(rows'), cycle' = Evolve!NoCycle PROVE EvolveInv'
<1>1. ScoredRows(<<>>)
  BY EmptyListed DEF ScoredRows
<1> QED BY <1>1, EmptyListed DEF EvolveInv, EvolveShape, Evolve!NoCycle

LEMMA EvolveStep ==
    ASSUME EvolveInv, Evolve!SelfEvolveAssumption, [Evolve!Next]_Evolve!vars PROVE EvolveInv'
<1>1. CASE UNCHANGED Evolve!vars
  BY <1>1 DEF Evolve!vars, EvolveInv, EvolveShape
<1>2. CASE Evolve!Store
  <2>1. PICK r \in Findings : rows' = Append(rows, r)
    BY <1>2 DEF Evolve!Store
  <2>2. r.score \in Int
    BY DEF Evolve!SelfEvolveAssumption
  <2>3. ScoredRows(rows')
    BY <2>1, <2>2, ScoredAppend DEF EvolveInv, EvolveShape
  <2> QED BY <1>2, <2>3 DEF Evolve!Store, EvolveInv, EvolveShape
<1>3. CASE Evolve!Gather
  BY <1>3, GatherStep
<1>4. CASE Evolve!Merge
  <2> DEFINE m == cycle.merged
             kept_ == Evolve!MergeIn(cycle.kept, cycle.raw[m + 1])
  <2>1. cycle' = [cycle EXCEPT !.merged = m + 1, !.kept = kept_]
    BY <1>4 DEF Evolve!Merge
  <2>2. m \in Nat /\ m < Len(cycle.raw) /\ Len(cycle.raw) \in Nat
    BY <1>4, ListedAre DEF Evolve!Merge, EvolveInv, EvolveShape, ScoredRows
  <2>3. Listed(kept_) /\ Merged(cycle.raw, m + 1, kept_)
    BY <1>4, <2>2, MergeInStep DEF Evolve!Merge, EvolveInv, EvolveShape
  <2> HIDE DEF kept_
  <2>4. /\ cycle'.at = "merge" /\ cycle'.raw = cycle.raw /\ cycle'.merged = m + 1
        /\ cycle'.kept = kept_
        /\ cycle' = [at |-> cycle'.at, raw |-> cycle'.raw, merged |-> cycle'.merged, kept |-> cycle'.kept,
                     evidence |-> cycle'.evidence, best |-> cycle'.best, top |-> cycle'.top]
    BY <1>4, <2>1 DEF Evolve!Merge, EvolveInv, EvolveShape
  <2>5. ScoredRows(rows') /\ ScoredRows(cycle.raw)
    BY <1>4 DEF Evolve!Merge, EvolveInv, EvolveShape
  <2>6. m + 1 \in 0..Len(cycle.raw)
    BY <2>2
  <2> HIDE DEF m
  <2> QED BY <2>3, <2>4, <2>5, <2>6 DEF EvolveInv, EvolveShape
<1>5. ASSUME Evolve!MergeEnds \/ Evolve!Score \/ Evolve!Nothing \/ Evolve!Drop \/ Evolve!Rewritten
      PROVE  EvolveInv'
  <2>1. ScoredRows(rows')
    <3>1. CASE Evolve!Rewritten
      <4>1. rows' = rows \/ \E p : rows' = Append(rows, p) /\ p.score \in Int
        BY <3>1 DEF Evolve!Rewritten
      <4> QED BY <4>1, ScoredAppend DEF EvolveInv, EvolveShape
    <3>2. CASE ~Evolve!Rewritten
      BY <1>5, <3>2 DEF Evolve!MergeEnds, Evolve!Score, Evolve!Nothing, Evolve!Drop, EvolveInv, EvolveShape
    <3> QED BY <3>1, <3>2
  <2>2. \/ cycle.at \in {"score", "mutate"}
        \/ cycle.at = "merge" /\ cycle.merged = Len(cycle.raw)
    BY <1>5 DEF Evolve!MergeEnds, Evolve!Score, Evolve!Nothing, Evolve!Drop, Evolve!Rewritten
  <2>3. \E ev, bs, tp, where :
          /\ where \in {"score", "mutate", "log"}
          /\ cycle' = [at |-> where, raw |-> cycle.raw, merged |-> cycle.merged, kept |-> cycle.kept,
                       evidence |-> ev, best |-> bs, top |-> tp]
    <3>1. /\ cycle = [at |-> cycle.at, raw |-> cycle.raw, merged |-> cycle.merged, kept |-> cycle.kept,
                      evidence |-> cycle.evidence, best |-> cycle.best, top |-> cycle.top]
      BY DEF EvolveInv, EvolveShape
    <3>2. CASE Evolve!MergeEnds
      <4>1. cycle' = [cycle EXCEPT !.at = "score"]
        BY <3>2 DEF Evolve!MergeEnds
      <4>2. cycle' = [at |-> "score", raw |-> cycle.raw, merged |-> cycle.merged, kept |-> cycle.kept,
                      evidence |-> cycle.evidence, best |-> cycle.best, top |-> cycle.top]
        BY <3>1, <4>1
      <4> QED BY <4>2
    <3>3. CASE Evolve!Score
      <4>1. PICK ev \in Evidence, locked \in BOOLEAN :
              LET ranked == Evolve!Ranked(cycle.kept, ev)
                  best == SubSeq(ranked, 1, IF Len(ranked) < TopK THEN Len(ranked) ELSE TopK)
              IN  cycle' = [cycle EXCEPT !.evidence = ev, !.best = best, !.top = best,
                              !.at = IF locked /\ ~Observe THEN "mutate" ELSE "log"]
        BY <3>3 DEF Evolve!Score
      <4> DEFINE ranked == Evolve!Ranked(cycle.kept, ev)
                 bs == SubSeq(ranked, 1, IF Len(ranked) < TopK THEN Len(ranked) ELSE TopK)
                 where == IF locked /\ ~Observe THEN "mutate" ELSE "log"
      <4>2. cycle' = [at |-> where, raw |-> cycle.raw, merged |-> cycle.merged, kept |-> cycle.kept,
                      evidence |-> ev, best |-> bs, top |-> bs]
        <5>1. cycle' = [cycle EXCEPT !.evidence = ev, !.best = bs, !.top = bs, !.at = where]
          BY <4>1
        <5> HIDE DEF bs, where
        <5> QED BY <3>1, <5>1
      <4>3. where \in {"score", "mutate", "log"}
        OBVIOUS
      <4> HIDE DEF bs, where
      <4> QED BY <4>2, <4>3
    <3>4. CASE Evolve!Nothing \/ Evolve!Drop \/ Evolve!Rewritten
      <4>1. cycle.at = "mutate" /\ cycle' = Evolve!Rest
        BY <3>4 DEF Evolve!Nothing, Evolve!Drop, Evolve!Rewritten
      <4>2. CASE cycle' = [cycle EXCEPT !.top = Tail(cycle.top)]
        <5>1. cycle' = [at |-> "mutate", raw |-> cycle.raw, merged |-> cycle.merged, kept |-> cycle.kept,
                        evidence |-> cycle.evidence, best |-> cycle.best, top |-> Tail(cycle.top)]
          BY <3>1, <4>1, <4>2
        <5> QED BY <5>1
      <4>3. CASE cycle' = [cycle EXCEPT !.top = <<>>, !.at = "log"]
        <5>1. cycle' = [at |-> "log", raw |-> cycle.raw, merged |-> cycle.merged, kept |-> cycle.kept,
                        evidence |-> cycle.evidence, best |-> cycle.best, top |-> <<>>]
          BY <3>1, <4>3
        <5> QED BY <5>1
      <4> QED BY <4>1, <4>2, <4>3 DEF Evolve!Rest
    <3> QED BY <1>5, <3>2, <3>3, <3>4
  <2>4. /\ cycle'.raw = cycle.raw /\ cycle'.merged = cycle.merged /\ cycle'.kept = cycle.kept
        /\ cycle'.at \in {"score", "mutate", "log"}
        /\ cycle' = [at |-> cycle'.at, raw |-> cycle'.raw, merged |-> cycle'.merged, kept |-> cycle'.kept,
                     evidence |-> cycle'.evidence, best |-> cycle'.best, top |-> cycle'.top]
    BY <2>3
  <2> QED BY <2>1, <2>2, <2>4, CycleKeeps
<1>6. CASE Evolve!Log \/ Evolve!Die
  <2>1. cycle' = Evolve!NoCycle /\ ScoredRows(rows')
    BY <1>6 DEF Evolve!Log, Evolve!Die, EvolveInv, EvolveShape
  <2> QED BY <2>1, NoCycleIs
<1> QED BY <1>1, <1>2, <1>3, <1>4, <1>5, <1>6 DEF Evolve!Next

\* As many candidates as keys.
LEMMA EvolveGives == ASSUME EvolveInv PROVE Evolve!MergesRight
<1> SUFFICES ASSUME cycle.at \in {"score", "mutate"} PROVE Evolve!MergesRight
  BY DEF Evolve!MergesRight
<1> DEFINE kept_ == cycle.kept
           found_ == cycle.raw
<1>1. /\ Merged(found_, Len(found_), kept_) /\ DOMAIN found_ = 1..Len(found_)
      /\ Len(kept_) \in Nat /\ DOMAIN kept_ = 1..Len(kept_)
  BY ListedAre DEF EvolveInv, EvolveShape, ScoredRows
<1> HIDE DEF kept_, found_
<1>2. \A k \in Evolve!Keys : \E x \in DOMAIN kept_ : Evolve!Key(kept_[x].row) = k
  BY <1>1 DEF Merged, Evolve!Keys, found_
<1>3. \A x \in DOMAIN kept_ : Evolve!Key(kept_[x].row) \in Evolve!Keys
  BY <1>1 DEF Merged, Evolve!Keys, found_
<1>4. Cardinality(Evolve!Keys) = Len(kept_)
  <2> DEFINE key == [x \in 1..Len(kept_) |-> Evolve!Key(kept_[x].row)]
  <2>1. key \in Bijection(1..Len(kept_), Evolve!Keys)
    <3>1. key \in [1..Len(kept_) -> Evolve!Keys]
      BY <1>1, <1>3
    <3>2. \A x, y \in 1..Len(kept_) : key[x] = key[y] => x = y
      BY <1>1 DEF Merged
    <3>3. \A k \in Evolve!Keys : \E x \in 1..Len(kept_) : key[x] = k
      BY <1>1, <1>2
    <3> HIDE DEF key
    <3> QED BY <3>1, <3>2, <3>3 DEF Bijection, Injection, Surjection, IsInjective
  <2> HIDE DEF key
  <2>2. IsFiniteSet(1..Len(kept_)) /\ Cardinality(1..Len(kept_)) = Len(kept_)
    <3> SUFFICES ASSUME NEW n \in Nat PROVE IsFiniteSet(1..n) /\ Cardinality(1..n) = n
      BY <1>1
    <3> QED BY FS_Interval
  <2> QED BY <2>1, <2>2, FS_Bijection DEF ExistsBijection
<1>5. ASSUME NEW k \in Evolve!Keys
      PROVE  \E x \in DOMAIN kept_ :
               /\ Evolve!Key(kept_[x].row) = k
               /\ kept_[x].sources = {found_[j].stream : j \in Evolve!Group(k)}
               /\ \E j \in Evolve!Group(k) :
                    /\ found_[j] = kept_[x].row
                    /\ \A n \in Evolve!Group(k) : /\ found_[n].score <= kept_[x].row.score
                                                  /\ n < j => found_[n].score < kept_[x].row.score
  <2>1. PICK x \in DOMAIN kept_ : Evolve!Key(kept_[x].row) = k
    BY <1>2
  <2>2. Evolve!Group(k) = {j \in 1..Len(found_) : Evolve!Key(found_[j]) = Evolve!Key(kept_[x].row)}
    BY <1>1, <2>1 DEF Evolve!Group, found_
  <2> QED BY <1>1, <2>1, <2>2 DEF Merged
<1> QED BY <1>4, <1>5, EvolveCardinality DEF Evolve!MergesRight, kept_, found_

-----------------------------------------------------------------------------
(* The parts together.                                                     *)

\* A step of the whole is a step of a part or changes nothing of it.
LEMMA PartSteps ==
    ASSUME [Next]_all
    PROVE  /\ [Text!EventNext]_Text!vars /\ [Setup!InstallNext]_Setup!vars
           /\ [Copies!Next]_Copies!vars /\ [Odd!AnomaliesNext]_Odd!vars
           /\ [Patch!Next]_Patch!vars /\ [Skill!SkillNext]_Skill!vars
           /\ [Scan!Next]_Scan!vars /\ [Period!Next]_Period!vars
           /\ [Resumed!ResumeNext]_Resumed!vars /\ [Reads!RecallNext]_Reads!vars
           /\ [Evolve!Next]_Evolve!vars
<1> USE DEF Next, all, OthersStill, Still
<1>1. [Text!EventNext]_Text!vars
  BY DEF eventVars, Text!vars, Text!text, Text!rate
<1>2. [Setup!InstallNext]_Setup!vars
  BY DEF installVars, Setup!vars, Setup!hist
<1>3. [Copies!Next]_Copies!vars
  BY DEF backupVars, Copies!vars, Copies!files, Copies!jobs
<1>4. [Odd!AnomaliesNext]_Odd!vars
  BY DEF anomalyVars, Odd!vars, Odd!rows, Odd!seen
<1>5. [Patch!Next]_Patch!vars
  BY DEF patchVars, Patch!vars, Patch!git, Patch!hist, Patch!Next
<1>6. [Skill!SkillNext]_Skill!vars
  BY DEF skillVars, Skill!vars, Skill!rows
<1>7. [Scan!Next]_Scan!vars
  BY DEF scanVars, Scan!vars, Scan!scanVars, Scan!finderVars, Scan!Next
<1>8. [Period!Next]_Period!vars
  BY DEF periodVars, Period!vars, Period!rows, Period!probe
<1>9. [Resumed!ResumeNext]_Resumed!vars
  BY DEF resumeVars, Resumed!vars, Resumed!marks
<1>10. [Reads!RecallNext]_Reads!vars
  BY DEF readVars, Reads!vars, Reads!tables
<1>11. [Evolve!Next]_Evolve!vars
  BY DEF evolveVars, Evolve!vars
<1> QED BY <1>1, <1>2, <1>3, <1>4, <1>5, <1>6, <1>7, <1>8, <1>9, <1>10, <1>11

\* handleSessionAssistant: a message the stored position is past is stored or on
\* its way, whatever the order of the readers' steps, except what a reader found
\* half written or was killed with.
THEOREM MessageAlways == Spec => []MessageKept
<1>1. Init => EventInv
  BY InitEvents, PartsAssumption DEF PartsAssumption, Init
<1>2. EventInv /\ [Next]_all => EventInv'
  BY HookShapeStep, SafeStep, PartSteps, PartsAssumption DEF PartsAssumption, EventInv
<1>3. EventInv => MessageKept
  BY EventsGive DEF MessageKept
<1> QED BY <1>1, <1>2, <1>3, PTL DEF Spec

\* The merge of the hooks file: ours is there at most once, and the user's stays
\* after any number of installs into any project, unless since it was written
\* one ended while it wrote the file or the file could not be merged.
THEOREM HooksAlways == Spec => []HooksKept
<1>1. Init => FilesInv
  BY InitFiles, PartsAssumption DEF PartsAssumption, Init
<1>2. FilesInv /\ [Next]_all => FilesInv'
  BY FilesStep, PartSteps, PartsAssumption DEF PartsAssumption
<1>3. FilesInv => HooksKept
  BY FilesGive DEF HooksKept
<1> QED BY <1>1, <1>2, <1>3, PTL DEF Spec

\* handleAdminBackup, doBackup and the shutdown handler: whatever is cut off
\* between any two renames, a whole backup is there under one of the three
\* names unless main was damaged.
THEOREM GoodCopy == Spec => []GoodCopySurvives
<1>1. Init => MainOrBak
  BY Kinds DEF Init, Copies!Init, MainOrBak
<1>2. MainOrBak /\ [Next]_all => MainOrBak'
  BY MainOrBakStep, PartSteps, PartsAssumption DEF PartsAssumption
<1>3. MainOrBak => GoodCopySurvives
  BY DEF MainOrBak, GoodCopySurvives, Copies!GoodCopySurvives
<1> QED BY <1>1, <1>2, <1>3, PTL DEF Spec

\* The anomaly loop: a restarted embed server that has embedded anything is not
\* restarted again within the window, for every window and any number of rows.
THEOREM RestartsAlways == Spec => []RestartsSpaced
<1>1. Init => AnomalyInv
  BY InitAnomalies, PartsAssumption DEF PartsAssumption, Init
<1>2. AnomalyInv /\ [Next]_all => AnomalyInv'
  BY AnomalyStep, PartSteps, PartsAssumption DEF PartsAssumption, AnomalyInv
<1>3. AnomalyInv => RestartsSpaced
  BY DEF RestartsSpaced, AnomalyInv, Odd!RestartsSpaced
<1> QED BY <1>1, <1>2, <1>3, PTL DEF Spec

\* handleApprovePatch: a text that does not parse reaches main only when a file
\* was written and neither tested nor put back, or when git merged two changes
\* of one file untested, for every set of patches and whatever commands fail and
\* earlier approvals left behind, conflicts among it.
THEOREM OnlySoundAlways == Spec => []OnlySoundMerged
<1>1. Init => PatchInv
  BY InitPatch, PartsAssumption DEF PartsAssumption, Init
<1>2. PatchInv /\ [Next]_all => PatchInv'
  BY PatchStep, PartSteps, PartsAssumption DEF PartsAssumption
<1>3. PatchInv => OnlySoundMerged
  BY PatchGives DEF OnlySoundMerged
<1> QED BY <1>1, <1>2, <1>3, PTL DEF Spec

\* runSkillCreation, however jobs overlap, statements fail and the server
\* restarts: a name, a topic of the day and a tagged suggestion have a second row
\* only by a job that had read the table before another wrote the first.
THEOREM OneSkillAlways == Spec => []OneSkillEach
<1>1. Init => SkillInv
  BY InitSkill, PartsAssumption DEF PartsAssumption, Init
<1>2. SkillInv /\ [Next]_all => SkillInv'
  BY SkillStep, PartSteps, PartsAssumption DEF PartsAssumption
<1>3. SkillInv => OneSkillEach
  BY SkillGives DEF OneSkillEach
<1> QED BY <1>1, <1>2, <1>3, PTL DEF Spec

\* article-scanner.js: an article is a second idea only if its row, or the look
\* for it, failed, or two scans ran at once, for every set of articles.
THEOREM IdeaOnceAlways == Spec => []IdeaOnce
<1>1. Init => ScanInv
  BY InitScan, PartsAssumption DEF PartsAssumption, Init
<1>2. ScanInv /\ [Next]_all => ScanInv'
  BY ScanStep, PartSteps, PartsAssumption DEF PartsAssumption
<1>3. ScanInv => IdeaOnce
  BY ScanGives DEF IdeaOnce
<1> QED BY <1>1, <1>2, <1>3, PTL DEF Spec

\* runOneChunkSummaryL2 and L3: a summary begun when its day or week is over
\* misses no summary inserted in it but those the limit and the cut of the text
\* leave out, for every length of a day and a week, every limit and room.
THEOREM PeriodAlways == Spec => []PeriodIsWhole
<1>1. Init => PeriodInv
  BY InitPeriod, PartsAssumption DEF PartsAssumption, Init
<1>2. PeriodInv /\ [Next]_all => PeriodInv'
  BY PeriodStep, PartSteps, PartsAssumption DEF PartsAssumption
<1>3. PeriodInv => PeriodIsWhole
  BY PeriodGives DEF PeriodIsWhole
<1> QED BY <1>1, <1>2, <1>3, PTL DEF Spec

\* vcontext-hooks.js, session-recall: what a session is told to continue is the
\* latest of another session's open rows that were there when it asked first,
\* unless a request failed or the lists had no room, for any rows and commands.
THEOREM LatestPicked == Spec => []LatestUnlessCrowded
<1>1. Init => ResumeInv
  BY InitResume, PartsAssumption DEF PartsAssumption, Init
<1>2. ResumeInv /\ [Next]_all => ResumeInv'
  BY ResumeStep, PartSteps, PartsAssumption DEF PartsAssumption
<1>3. ResumeInv => LatestUnlessCrowded
  BY DEF LatestUnlessCrowded, ResumeInv
<1> QED BY <1>1, <1>2, <1>3, PTL DEF Spec

\* /recall and /recent: an answer has a row of the archive whose text it also
\* has from elsewhere only if that is a copy made and embedded while the request
\* waited, for any texts, limit and restarts.
THEOREM RepeatsAlways == Spec => []RepeatsOnlyCopies
<1>1. Init => ReadInv
  BY InitRead, PartsAssumption DEF PartsAssumption, Init
<1>2. ReadInv /\ [Next]_all => ReadInv'
  BY ReadStep, PartSteps, PartsAssumption DEF PartsAssumption
<1>3. ReadInv => RepeatsOnlyCopies
  BY DEF RepeatsOnlyCopies, ReadInv
<1> QED BY <1>1, <1>2, <1>3, PTL DEF Spec

\* dedupeCandidates: in whatever order the streams list their rows, a key has one
\* candidate, the first of the most confident rows, with every stream that found
\* it, for any rows and any scores.
THEOREM MergesAlways == Spec => []MergesRight
<1>1. Init => EvolveInv
  BY InitEvolve, PartsAssumption DEF PartsAssumption, Init
<1>2. EvolveInv /\ [Next]_all => EvolveInv'
  BY EvolveStep, PartSteps, PartsAssumption DEF PartsAssumption
<1>3. EvolveInv => MergesRight
  BY EvolveGives DEF MergesRight
<1> QED BY <1>1, <1>2, <1>3, PTL DEF Spec

\* The invariant of backups, which the next two theorems rest on.
LEMMA CopiesAlways == Spec => []CopiesInv
<1>1. Init => CopiesInv
  BY InitCopies, PartsAssumption DEF PartsAssumption, Init
<1>2. CopiesInv /\ [Next]_all => CopiesInv'
  BY MainOrBakStep, CopiesShapeStep, OneAdminStep, VerdictStep, PartSteps, PartsAssumption
     DEF PartsAssumption, CopiesInv
<1> QED BY <1>1, <1>2, PTL DEF Spec

\* POST /admin/integrity-check: "ok" stays true of the file that is there for
\* as long as it is cached, unless a half-written file was promoted.
THEOREM CachedVerdict == Spec => []Copies!CachedVerdictHolds
<1>1. CopiesInv => Copies!CachedVerdictHolds
  BY DEF CopiesInv
<1> QED BY <1>1, CopiesAlways, PTL

\* The rotation: main is damaged by the shutdown handler or by a job that finds
\* another one's half-written tmp, and then one of the two is a doBackup.
THEOREM DamageComesFrom == Spec => Copies!OnlyTwoWaysToDamage
<1> DEFINE Damage == ~damaged /\ damaged' =>
                       \/ mode' = "saving"
                       \/ tmp.kind = "open" /\ {turn, tmp.by} \cap Prunes # {}
<1>1. CopiesInv /\ [Copies!Next]_Copies!vars => Damage
  <2> SUFFICES ASSUME CopiesInv, [Copies!Next]_Copies!vars, ~damaged, damaged', mode' # "saving"
               PROVE  tmp.kind = "open" /\ {turn, tmp.by} \cap Prunes # {}
    OBVIOUS
  <2>1. PICK j \in Copies!Jobs : Copies!Rename(j)
    BY DEF Copies!Next, Copies!Progress, Copies!vars, Copies!Log, Copies!Throttled,
           Copies!IntegrityCheck, Copies!VerdictExpires, Copies!Signal, Copies!Saved,
           Copies!Stop, Copies!Boot, Copies!RotateLog, Copies!Booted, Copies!Prune,
           Copies!Request, Copies!StartCopy, Copies!CopyDone, Copies!RenameFails,
           Copies!CopyFails, Copies!FallBack
  <2>2. turn = j /\ ~Copies!Good(tmp)
    BY <2>1 DEF Copies!Rename
  <2>3. PICK k \in Copies!Jobs : tmp = Copies!OpenBy(k)
    BY <2>2, Kinds, PartsAssumption
       DEF PartsAssumption, CopiesInv, CopiesShape, Copies!BackupAssumption, Copies!Jobs
  <2>4. pc[k] = "copying" /\ pc[j] = "rotated"
    BY <2>2, <2>3, PartsAssumption
       DEF PartsAssumption, CopiesInv, CopiesShape, OneAdmin, Copies!BackupAssumption,
           Copies!Jobs
  <2>5. j \in Prunes \/ k \in Prunes
    BY <2>4 DEF CopiesInv, OneAdmin, Copies!Jobs
  <2> QED BY <2>2, <2>3, <2>5, Kinds
<1>2. [][Damage]_Copies!vars => Copies!OnlyTwoWaysToDamage
  BY PTL DEF Copies!OnlyTwoWaysToDamage
<1> QED BY <1>1, <1>2, CopiesAlways, PartSteps, PTL DEF Spec
=============================================================================
