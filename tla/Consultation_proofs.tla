------------------------ MODULE Consultation_proofs ------------------------
(***************************************************************************)
(* What is proved of the consultations, for any sessions, numbers and      *)
(* bounds: a consensus was a majority when it was set and a complete row   *)
(* has the answers it waited for (ConsensusAlways), and answers and claims *)
(* go only where an outdated row is written (ForgetsAlways).               *)
(*                                                                         *)
(* A row is written whole by a request that read it some time ago, so what *)
(* is invariant is said of every row there is AND of every row a request   *)
(* still holds: a request puts back a row that was right when it read it.  *)
(***************************************************************************)
EXTENDS Consultation, FiniteSetTheorems, TLAPS

Answers == [model : Models \cup {Lower[m] : m \in Models}, chosen : Numbers]

\* What ConsensusWasReached says of one row.
Reached(row) ==
    /\ row.status = "complete" => Len(row.responses) >= Cardinality(row.models)
    /\ row.consensus # Null => HasMajority(row)

\* A session has work only on consultations that there are.
TodoExists == \A m \in Models : \A i \in todo[m] : rows[i] \in Row

RowsSound == \A i \in Ids : rows[i] \in Row => Reached(rows[i])
ReqSound  == \A m \in Models : req[m] \in Request => Reached(req[m].seen)

IInv == TypeOK /\ TodoExists /\ RowsSound /\ ReqSound

USE DEF NoRow, Idle

-----------------------------------------------------------------------------
\* There is a row, or there is none.
LEMMA RowOrNone ==
  ASSUME TypeOK, NEW i \in Ids
  PROVE  /\ Exists(i) <=> rows[i] \in Row
         /\ ~Exists(i) <=> rows[i] = NoRow
<1>1. rows[i] \in Row \/ rows[i] = NoRow
  BY DEF TypeOK
<1>2. rows[i] \in Row => rows[i].status # "none"
  BY DEF Row, Open
<1> QED BY <1>1, <1>2 DEF Exists

LEMMA RequestOrIdle ==
  ASSUME TypeOK, NEW m \in Models
  PROVE  /\ req[m] # Idle <=> req[m] \in Request
         /\ req[m].op \in {"respond", "claim"} <=> req[m] \in Request
  BY DEF TypeOK, Request

\* An answer more leaves the answers before it as they were.
LEMMA AppendPrefix ==
  ASSUME NEW s \in Seq(Answers), NEW a \in Answers
  PROVE  /\ Append(s, a) \in Seq(Answers)
         /\ IsPrefix(s, Append(s, a))
         /\ \A k \in DOMAIN s : /\ k \in DOMAIN Append(s, a)
                                /\ SubSeq(Append(s, a), 1, k) = SubSeq(s, 1, k)
         /\ Len(Append(s, a)) \in DOMAIN Append(s, a)
         /\ SubSeq(Append(s, a), 1, Len(Append(s, a))) = Append(s, a)
<1>1. Len(s) \in Nat /\ Len(Append(s, a)) = Len(s) + 1 /\ Append(s, a) \in Seq(Answers)
  OBVIOUS
<1>2. \A k \in 1..Len(s) : SubSeq(Append(s, a), 1, k) = SubSeq(s, 1, k)
  OBVIOUS
<1>3. SubSeq(s, 1, Len(s)) = s /\ SubSeq(Append(s, a), 1, Len(s)) = s
  OBVIOUS
<1>4. SubSeq(Append(s, a), 1, Len(Append(s, a))) = Append(s, a)
  OBVIOUS
<1> QED BY <1>1, <1>2, <1>3, <1>4 DEF IsPrefix

LEMMA SamePrefix == ASSUME NEW s \in Seq(Answers) PROVE IsPrefix(s, s)
  BY DEF IsPrefix

\* A majority once reached stays one that was reached.
LEMMA MajorityKept ==
  ASSUME NEW row \in Row, HasMajority(row), NEW a \in Answers, NEW new,
         new.responses = Append(row.responses, a), new.models = row.models,
         new.consensus = row.consensus
  PROVE  HasMajority(new)
<1>1. row.responses \in Seq(Answers)
  BY DEF Row, Answers
<1>2. PICK k \in DOMAIN row.responses :
          \/ 2 * Votes(SubSeq(row.responses, 1, k), row.consensus) > k
          \/ 2 * Votes(SubSeq(row.responses, 1, k), row.consensus) > Cardinality(row.models)
  BY DEF HasMajority
<1>3. /\ k \in DOMAIN new.responses
      /\ SubSeq(new.responses, 1, k) = SubSeq(row.responses, 1, k)
  BY <1>1, AppendPrefix
<1> QED BY <1>2, <1>3 DEF HasMajority

\* A majority counted over all the answers is one.
LEMMA MajorityFound ==
  ASSUME NEW new, NEW s \in Seq(Answers), NEW a \in Answers,
         new.responses = Append(s, a),
         \/ 2 * Votes(new.responses, new.consensus) > Len(new.responses)
         \/ 2 * Votes(new.responses, new.consensus) > Cardinality(new.models)
  PROVE  HasMajority(new)
<1> DEFINE n == Len(new.responses)
<1>1. n \in DOMAIN new.responses /\ SubSeq(new.responses, 1, n) = new.responses
  BY AppendPrefix
<1> HIDE DEF n
<1>2. \/ 2 * Votes(SubSeq(new.responses, 1, n), new.consensus) > n
      \/ 2 * Votes(SubSeq(new.responses, 1, n), new.consensus) > Cardinality(new.models)
  BY <1>1 DEF n
<1> QED BY <1>1, <1>2 DEF HasMajority

\* Only a choice somebody made has votes.
LEMMA VotedFor ==
  ASSUME NEW s \in Seq(Answers), NEW c, NEW n \in Nat, 2 * Votes(s, c) > n
  PROVE  c \in Numbers
<1> DEFINE voters == {k \in DOMAIN s : s[k].chosen = c}
<1>1. CASE voters = {}
  <2>1. Votes(s, c) = 0
    BY <1>1, FS_EmptySet DEF Votes
  <2> QED BY <2>1
<1>2. CASE voters # {}
  <2>1. PICK k \in DOMAIN s : s[k].chosen = c
    BY <1>2
  <2>2. s[k] \in Answers
    OBVIOUS
  <2> QED BY <2>1, <2>2 DEF Answers
<1> QED BY <1>1, <1>2

-----------------------------------------------------------------------------
(***************************************************************************)
(* The two ways a row gets an answer                                       *)
(***************************************************************************)

LEMMA SomeCardinality ==
  ASSUME NEW models \in SUBSET Models PROVE Cardinality(models) \in Nat
  BY ConsultationAssumption, FS_Subset, FS_CardinalityType

LEMMA RespondedIsSound ==
  ASSUME NEW row \in Row, Reached(row), NEW m \in Models, NEW c \in Numbers
  PROVE  /\ Responded(row, m, c) \in Row
         /\ Reached(Responded(row, m, c))
<1> DEFINE a       == Answer(Lower[m], c)
           answers == Append(row.responses, a)
           best    == Leader(answers)
           new     == Responded(row, m, c)
<1>1. row.responses \in Seq(Answers) /\ a \in Answers
  BY DEF Row, Answers, Answer
<1>2. answers \in Seq(Answers) /\ Len(answers) \in Nat
  BY <1>1, AppendPrefix
<1>3. /\ new.responses = answers /\ new.models = row.models /\ new.list = row.list
      /\ new.claimed = row.claimed /\ new.status = Status(row, answers)
      /\ new.consensus = IF 2 * Votes(answers, best) > Len(answers) THEN best ELSE Null
  BY DEF Responded, Row
<1> HIDE DEF a, best
<1>4. new.consensus # Null =>
         2 * Votes(answers, best) > Len(answers) /\ new.consensus = best
  BY <1>3
<1>5. new.consensus \in Numbers \cup {Null}
  <2>1. CASE new.consensus = Null
    BY <2>1
  <2>2. CASE new.consensus # Null
    BY <1>2, <1>4, <2>2, VotedFor
  <2> QED BY <2>1, <2>2
<1>6. new \in Row
  <2>1. new = [row EXCEPT !.responses = new.responses, !.status = new.status,
                          !.consensus = new.consensus]
    BY DEF Responded, Row
  <2>2. new.status \in Open \cup {"complete"}
    BY <1>3 DEF Status, Open
  <2> HIDE DEF new
  <2> QED BY <1>2, <1>3, <1>5, <2>1, <2>2 DEF Row, Answers
<1>7. new.status = "complete" => Len(new.responses) >= Cardinality(new.models)
  BY <1>3 DEF Status
<1>8. new.consensus # Null => HasMajority(new)
  <2> HIDE DEF new
  <2> QED BY <1>1, <1>3, <1>4, MajorityFound
<1> QED BY <1>6, <1>7, <1>8 DEF Reached

LEMMA AutoAnsweredIsSound ==
  ASSUME NEW row \in Row, Reached(row), NEW m \in Models, NEW c \in Numbers
  PROVE  /\ AutoAnswered(row, m, c) \in Row
         /\ Reached(AutoAnswered(row, m, c))
         /\ IsPrefix(row.responses, AutoAnswered(row, m, c).responses)
         /\ AutoAnswered(row, m, c).claimed = row.claimed
<1> DEFINE a       == Answer(m, c)
           answers == Append(row.responses, a)
           best    == Leader(answers)
           new     == AutoAnswered(row, m, c)
           most    == 2 * Votes(answers, best) > Cardinality(row.models)
<1>1. row.responses \in Seq(Answers) /\ a \in Answers
  BY DEF Row, Answers, Answer
<1>2. CASE \E k \in DOMAIN row.responses : row.responses[k].model = m
  <2>1. new = row
    BY <1>2 DEF AutoAnswered
  <2> HIDE DEF new
  <2> QED BY <1>1, <2>1, SamePrefix DEF new
<1>3. CASE ~\E k \in DOMAIN row.responses : row.responses[k].model = m
  <2>1. new = [row EXCEPT !.responses = answers, !.status = Status(row, answers),
                          !.consensus = IF most THEN best ELSE @]
    BY <1>3 DEF AutoAnswered
  <2> HIDE DEF a, best, most, new
  <2>2. /\ new.responses = answers /\ new.models = row.models /\ new.list = row.list
        /\ new.claimed = row.claimed /\ new.status = Status(row, answers)
        /\ new.consensus = IF most THEN best ELSE row.consensus
    BY <2>1 DEF Row
  <2>3. answers \in Seq(Answers) /\ IsPrefix(row.responses, answers)
    BY <1>1, AppendPrefix
  <2>4. Cardinality(row.models) \in Nat
    BY SomeCardinality DEF Row
  <2>5. new.consensus \in Numbers \cup {Null}
    <3>1. CASE most
      <4>1. best \in Numbers
        BY <2>3, <2>4, <3>1, VotedFor DEF most
      <4> QED BY <2>2, <3>1, <4>1
    <3>2. CASE ~most
      BY <2>2, <3>2 DEF Row
    <3> QED BY <3>1, <3>2
  <2>6. new \in Row
    <3>1. new.status \in Open \cup {"complete"}
      BY <2>2 DEF Status, Open
    <3>2. new = [row EXCEPT !.responses = answers, !.status = new.status,
                            !.consensus = new.consensus]
      BY <2>1, <2>2
    <3> QED BY <2>3, <2>5, <3>1, <3>2 DEF Row, Answers
  <2>7. new.status = "complete" => Len(new.responses) >= Cardinality(new.models)
    BY <2>2 DEF Status
  <2>8. new.consensus # Null => HasMajority(new)
    <3>1. CASE most
      <4>1. 2 * Votes(new.responses, new.consensus) > Cardinality(new.models)
        BY <2>2, <3>1 DEF most
      <4> QED BY <1>1, <2>2, <4>1, MajorityFound
    <3>2. CASE ~most
      <4> SUFFICES ASSUME new.consensus # Null PROVE HasMajority(new)
        OBVIOUS
      <4>1. new.consensus = row.consensus /\ HasMajority(row)
        BY <2>2, <3>2 DEF Reached
      <4> QED BY <1>1, <2>2, <4>1, MajorityKept
    <3> QED BY <3>1, <3>2
  <2>9. Reached(new)
    BY <2>7, <2>8 DEF Reached
  <2> QED BY <2>2, <2>3, <2>6, <2>9 DEF new
<1> QED BY <1>2, <1>3

-----------------------------------------------------------------------------
(***************************************************************************)
(* The invariant, action by action                                         *)
(***************************************************************************)

\* A step that writes sound rows, if any, takes none away.
RowsGrow ==
    /\ rows' \in [Ids -> Row \cup {NoRow}]
    /\ \A i \in Ids : rows[i] \in Row => rows'[i] \in Row

LEMMA WriteRow ==
  ASSUME IInv, NEW i \in Ids, NEW row \in Row, Reached(row),
         rows' = [rows EXCEPT ![i] = row]
  PROVE  RowsGrow /\ RowsSound'
<1>1. rows \in [Ids -> Row \cup {NoRow}] /\ RowsSound
  BY DEF IInv, TypeOK, RowsSound, ReqSound
<1>2. \A j \in Ids : rows'[j] = IF j = i THEN row ELSE rows[j]
  BY <1>1
<1>3. RowsGrow
  BY <1>1, <1>2 DEF RowsGrow
<1>4. RowsSound'
  BY <1>1, <1>2 DEF RowsSound
<1> QED BY <1>3, <1>4

LEMMA KeepRows == ASSUME IInv, rows' = rows PROVE RowsGrow /\ RowsSound'
  BY DEF IInv, TypeOK, RowsSound, ReqSound, RowsGrow

LEMMA KeepReq ==
  ASSUME IInv, \/ req' = req
               \/ \E m \in Models : req' = [req EXCEPT ![m] = Idle]
  PROVE  req' \in [Models -> Request \cup {Idle}] /\ ReqSound'
<1>1. req \in [Models -> Request \cup {Idle}] /\ ReqSound /\ Idle \notin Request
  BY DEF IInv, TypeOK, RowsSound, ReqSound, Request
<1>2. CASE req' = req
  BY <1>1, <1>2 DEF ReqSound
<1>3. ASSUME NEW m \in Models, req' = [req EXCEPT ![m] = Idle]
      PROVE  req' \in [Models -> Request \cup {Idle}] /\ ReqSound'
  <2>1. \A n \in Models : req'[n] = IF n = m THEN Idle ELSE req[n]
    BY <1>1, <1>3
  <2> HIDE DEF Idle
  <2> QED BY <1>1, <1>3, <2>1 DEF ReqSound
<1> QED BY <1>2, <1>3

LEMMA KeepTodo ==
  ASSUME IInv, RowsGrow, todo' \in [Models -> SUBSET Ids],
         \A m \in Models : \A i \in todo'[m] : i \in todo[m] \/ rows'[i] \in Row
  PROVE  TodoExists'
<1> SUFFICES ASSUME NEW m \in Models, NEW i \in todo'[m] PROVE rows'[i] \in Row
  BY DEF TodoExists
<1>1. i \in Ids
  OBVIOUS
<1>2. i \in todo[m] => rows[i] \in Row
  BY DEF IInv, TodoExists
<1> QED BY <1>1, <1>2 DEF RowsGrow

LEMMA CountType ==
  ASSUME TypeOK, \/ UNCHANGED spent \/ Count("asked", MaxAsked) \/ Count("extra", MaxExtra)
  PROVE  spent' \in [asked : 0..MaxAsked, extra : 0..MaxExtra]
<1>1. /\ spent \in [asked : 0..MaxAsked, extra : 0..MaxExtra]
      /\ MaxAsked \in Nat /\ MaxExtra \in Nat
  BY ConsultationAssumption DEF TypeOK
<1>2. CASE UNCHANGED spent
  BY <1>1, <1>2
<1>3. CASE Count("asked", MaxAsked)
  BY <1>1, <1>3 DEF Count
<1>4. CASE Count("extra", MaxExtra)
  BY <1>1, <1>4 DEF Count
<1> QED BY <1>2, <1>3, <1>4

\* What the lemmas above show part by part.
LEMMA Together ==
  ASSUME RowsGrow, RowsSound', TodoExists', todo' \in [Models -> SUBSET Ids],
         req' \in [Models -> Request \cup {Idle}], ReqSound',
         spent' \in [asked : 0..MaxAsked, extra : 0..MaxExtra]
  PROVE  IInv'
  BY DEF IInv, TypeOK, RowsGrow, RowsSound, ReqSound

LEMMA AskedIsSound ==
  ASSUME NEW status \in {"pending", "pending_responses"}, NEW list \in BOOLEAN,
         NEW models \in SUBSET Models, NEW row,
         row = [status |-> status, list |-> list, models |-> models, responses |-> <<>>,
                consensus |-> Null, claimed |-> Null]
  PROVE  row \in Row /\ Reached(row)
  BY DEF Row, Open, Reached

LEMMA ConsultStep ==
  ASSUME IInv, NEW i \in Ids, NEW models \in SUBSET Models \ {{}}, Consult(i, models)
  PROVE  IInv'
<1>1. RowsGrow /\ RowsSound'
  BY AskedIsSound, WriteRow DEF Consult
<1>2. todo' = todo /\ todo \in [Models -> SUBSET Ids] /\ req' = req
  BY DEF Consult, IInv, TypeOK
<1>3. spent' \in [asked : 0..MaxAsked, extra : 0..MaxExtra]
  BY CountType DEF Consult, IInv
<1> QED BY <1>1, <1>2, <1>3, KeepReq, KeepTodo, Together

LEMMA ConflictStep ==
  ASSUME IInv, NEW i \in Ids, NEW connected \in SUBSET Models,
         Conflict(i, connected)
  PROVE  IInv'
<1> DEFINE row == [status |-> "pending_responses", list |-> FALSE, models |-> Models,
                   responses |-> <<>>, consensus |-> Null, claimed |-> Null]
<1>1. row \in Row /\ Reached(row) /\ rows' = [rows EXCEPT ![i] = row]
  <2>1. rows' = [rows EXCEPT ![i] = row]
    BY DEF Conflict
  <2> HIDE DEF row
  <2>2. row \in Row /\ Reached(row)
    BY AskedIsSound DEF row
  <2> QED BY <2>1, <2>2
<1>2. RowsGrow /\ RowsSound' /\ rows'[i] = row
  <2> HIDE DEF row
  <2> QED BY <1>1, WriteRow DEF IInv, TypeOK
<1>3. /\ todo \in [Models -> SUBSET Ids] /\ req' = req
      /\ todo' = [m \in Models |-> IF m \in connected THEN todo[m] \cup {i} ELSE todo[m]]
  BY DEF Conflict, IInv, TypeOK
<1>4. todo' \in [Models -> SUBSET Ids]
  BY <1>3
<1>5. \A m \in Models : \A j \in todo'[m] : j \in todo[m] \/ rows'[j] \in Row
  BY <1>1, <1>2, <1>3
<1>6. spent' \in [asked : 0..MaxAsked, extra : 0..MaxExtra]
  BY CountType DEF Conflict, IInv
<1> QED BY <1>2, <1>3, <1>4, <1>5, <1>6, KeepReq, KeepTodo, Together

LEMMA CloseStep == ASSUME IInv, NEW i \in Ids, Close(i) PROVE IInv'
<1> DEFINE row == [rows[i] EXCEPT !.status = "closed"]
<1>1. rows[i] \in Row /\ Reached(rows[i]) /\ rows \in [Ids -> Row \cup {NoRow}]
  BY RowOrNone DEF Close, IInv, TypeOK, RowsSound, ReqSound
<1>2. row \in Row
  BY <1>1 DEF Row
<1>3. Reached(row)
  BY <1>1 DEF Row, Reached, HasMajority
<1>4. rows' = [rows EXCEPT ![i] = row]
  BY DEF Close
<1>5. RowsGrow /\ RowsSound'
  <2> HIDE DEF row
  <2> QED BY <1>2, <1>3, <1>4, WriteRow
<1>6. /\ todo' = todo /\ todo \in [Models -> SUBSET Ids] /\ req' = req
      /\ UNCHANGED spent
  BY DEF Close, IInv, TypeOK
<1>7. spent' \in [asked : 0..MaxAsked, extra : 0..MaxExtra]
  BY <1>6, CountType DEF IInv
<1> QED BY <1>5, <1>6, <1>7, KeepReq, KeepTodo, Together

LEMMA PollStep == ASSUME IInv, NEW m \in Models, Poll(m) PROVE IInv'
<1>1. RowsGrow /\ RowsSound'
  BY KeepRows DEF Poll
<1>2. PICK listed \in SUBSET Ids :
        /\ Newest(listed)
        /\ todo' = [todo EXCEPT ![m] = {i \in listed : Pending(m, rows[i])}]
  BY DEF Poll
<1>3. /\ todo \in [Models -> SUBSET Ids]
       /\ rows' = rows /\ req' = req /\ UNCHANGED spent
  BY DEF Poll, IInv, TypeOK
<1>4. \A i \in listed : i \in Ids /\ rows[i] \in Row
  BY <1>2, RowOrNone DEF Newest, IInv
<1>5. \A i \in todo'[m] : i \in Ids /\ rows[i] \in Row
  BY <1>2, <1>3, <1>4
<1>6. todo' \in [Models -> SUBSET Ids]
  BY <1>2, <1>3
<1>7. \A n \in Models : \A i \in todo'[n] : i \in todo[n] \/ rows'[i] \in Row
  BY <1>2, <1>3, <1>5
<1>8. spent' \in [asked : 0..MaxAsked, extra : 0..MaxExtra]
  BY <1>3, CountType DEF IInv
<1> QED BY <1>1, <1>2, <1>3, <1>6, <1>7, <1>8, KeepReq, KeepTodo, Together

\* A request takes the row it read with it.
LEMMA ReadStep ==
  ASSUME IInv, NEW m \in Models, NEW i \in Ids, NEW op \in {"respond", "claim"},
         rows[i] \in Row, req' = [req EXCEPT ![m] = [op |-> op, id |-> i, seen |-> rows[i]]],
         UNCHANGED <<rows, todo>>, UNCHANGED spent \/ Count("extra", MaxExtra)
  PROVE  IInv'
<1> DEFINE r == [op |-> op, id |-> i, seen |-> rows[i]]
<1>1. RowsGrow /\ RowsSound'
  BY KeepRows
<1>2. r \in Request /\ Reached(r.seen)
  BY DEF Request, IInv, RowsSound, ReqSound
<1>3. req \in [Models -> Request \cup {Idle}] /\ ReqSound
  BY DEF IInv, TypeOK, RowsSound, ReqSound
<1>4. req' = [req EXCEPT ![m] = r]
  OBVIOUS
<1>5. req' \in [Models -> Request \cup {Idle}] /\ ReqSound'
  <2> HIDE DEF r, Idle
  <2>1. \A n \in Models : req'[n] = IF n = m THEN r ELSE req[n]
    BY <1>3, <1>4
  <2> QED BY <1>2, <1>3, <1>4, <2>1 DEF ReqSound
<1>6. todo' = todo /\ todo \in [Models -> SUBSET Ids]
  BY DEF IInv, TypeOK
<1>7. spent' \in [asked : 0..MaxAsked, extra : 0..MaxExtra]
  BY CountType DEF IInv
<1> QED BY <1>1, <1>5, <1>6, <1>7, KeepTodo, Together

LEMMA ArriveStep == ASSUME IInv, NEW m \in Models, NEW i \in Ids, Arrive(m, i) PROVE IInv'
<1>1. rows[i] \in Row
  BY DEF Arrive, IInv, TodoExists
<1> QED BY <1>1, ReadStep DEF Arrive

LEMMA ClaimArriveStep ==
  ASSUME IInv, NEW m \in Models, NEW i \in Ids, ClaimArrive(m, i) PROVE IInv'
<1>1. rows[i] \in Row
  BY RowOrNone DEF ClaimArrive, IInv
<1> QED BY <1>1, ReadStep DEF ClaimArrive

\* A request whose body is there or lost: it writes a sound row or none,
\* and is over.
LEMMA EndStep ==
  ASSUME IInv, RowsGrow, RowsSound', NEW m \in Models, req' = [req EXCEPT ![m] = Idle],
         todo' = todo \/ todo' = [todo EXCEPT ![m] = @ \ {req[m].id}],
         UNCHANGED spent \/ Count("extra", MaxExtra)
  PROVE  IInv'
<1>1. todo \in [Models -> SUBSET Ids]
  BY DEF IInv, TypeOK
<1>2. todo' \in [Models -> SUBSET Ids] /\ \A n \in Models : todo'[n] \subseteq todo[n]
  BY <1>1
<1>3. req' \in [Models -> Request \cup {Idle}] /\ ReqSound'
  BY KeepReq
<1>4. spent' \in [asked : 0..MaxAsked, extra : 0..MaxExtra]
  BY CountType DEF IInv
<1>5. TodoExists'
  BY <1>2, KeepTodo
<1> QED BY <1>2, <1>3, <1>4, <1>5, Together

LEMMA RespondStep ==
  ASSUME IInv, NEW m \in Models, NEW c \in Numbers, Respond(m, c) PROVE IInv'
<1>1. req[m] \in Request /\ Reached(req[m].seen)
  BY RequestOrIdle DEF Respond, IInv, RowsSound, ReqSound
<1>2. req[m].id \in Ids /\ req[m].seen \in Row
  BY <1>1 DEF Request
<1>3. RowsGrow /\ RowsSound'
  <2>1. CASE req[m].seen.list
    <3>1. rows' = [rows EXCEPT ![req[m].id] = Responded(req[m].seen, m, c)]
      BY <2>1 DEF Respond
    <3> QED BY <1>1, <1>2, <3>1, RespondedIsSound, WriteRow
  <2>2. CASE ~req[m].seen.list
    BY <2>2, KeepRows DEF Respond
  <2> QED BY <2>1, <2>2
<1> QED BY <1>3, EndStep DEF Respond

LEMMA ClaimStep == ASSUME IInv, NEW m \in Models, Claim(m) PROVE IInv'
<1>1. req[m] \in Request /\ Reached(req[m].seen)
  BY RequestOrIdle DEF Claim, IInv, RowsSound, ReqSound
<1>2. req[m].id \in Ids /\ req[m].seen \in Row
  BY <1>1 DEF Request
<1> DEFINE row == [req[m].seen EXCEPT !.claimed = m]
<1>3. row \in Row
  BY <1>2 DEF Row
<1>4. Reached(row)
  BY <1>1, <1>2 DEF Row, Reached, HasMajority
<1>5. rows' = [rows EXCEPT ![req[m].id] = row] \/ rows' = rows
  BY DEF Claim
<1>6. RowsGrow /\ RowsSound'
  <2> HIDE DEF row
  <2> QED BY <1>2, <1>3, <1>4, <1>5, WriteRow, KeepRows
<1> QED BY <1>6, EndStep DEF Claim

LEMMA BodyLostStep == ASSUME IInv, NEW m \in Models, BodyLost(m) PROVE IInv'
  BY KeepRows, EndStep DEF BodyLost

LEMMA AutoRespondStep ==
  ASSUME IInv, NEW m \in Models, NEW c \in Numbers, AutoRespond(m, c) PROVE IInv'
<1>1. /\ rows \in [Ids -> Row \cup {NoRow}] /\ RowsSound
      /\ todo \in [Models -> SUBSET Ids] /\ TodoExists
  BY DEF IInv, TypeOK, RowsSound, ReqSound
<1>2. PICK done \in SUBSET {i \in todo[m] : rows[i].list} :
         rows' = [i \in Ids |-> IF i \in done THEN AutoAnswered(rows[i], m, c) ELSE rows[i]]
  BY DEF AutoRespond
<1>3. \A i \in done : i \in Ids /\ rows[i] \in Row /\ Reached(rows[i])
  BY <1>1, <1>2 DEF TodoExists, RowsSound
<1>4. \A i \in done : rows'[i] \in Row /\ Reached(rows'[i])
  BY <1>2, <1>3, AutoAnsweredIsSound
<1>5. \A i \in Ids \ done : rows'[i] = rows[i]
  BY <1>2
<1>6. rows' \in [Ids -> Row \cup {NoRow}]
  <2>1. \A i \in Ids : rows'[i] \in Row \cup {NoRow}
    BY <1>1, <1>4, <1>5
  <2> QED BY <1>2, <2>1
<1>7. RowsGrow /\ RowsSound'
  BY <1>1, <1>4, <1>5, <1>6 DEF RowsGrow, RowsSound
<1>8. /\ req' = req /\ UNCHANGED spent /\ todo' \in [Models -> SUBSET Ids]
      /\ \A n \in Models : todo'[n] \subseteq todo[n]
  BY <1>1 DEF AutoRespond
<1>9. TodoExists'
  BY <1>7, <1>8, KeepTodo
<1>10. spent' \in [asked : 0..MaxAsked, extra : 0..MaxExtra]
  BY <1>8, CountType DEF IInv
<1> QED BY <1>7, <1>8, <1>9, <1>10, KeepReq, Together

LEMMA InitStep == Init => IInv
<1> SUFFICES ASSUME Init PROVE IInv
  OBVIOUS
<1>1. \A i \in Ids : rows[i] = NoRow /\ rows[i] \notin Row
  BY DEF Init, Row, Open
<1>2. \A m \in Models : req[m] = Idle /\ req[m] \notin Request /\ todo[m] = {}
  BY DEF Init, Request
<1>3. TypeOK
  BY ConsultationAssumption, Zenon, SMT DEF Init, TypeOK
<1> QED BY <1>1, <1>2, <1>3 DEF IInv, TodoExists, RowsSound, ReqSound

LEMMA NextStep == IInv /\ [Next]_vars => IInv'
<1> SUFFICES ASSUME IInv, [Next]_vars PROVE IInv'
  OBVIOUS
<1>1. CASE UNCHANGED vars
  BY <1>1 DEF vars, IInv, TypeOK, TodoExists, RowsSound, ReqSound
<1>2. CASE Next
  BY <1>2, ConsultStep, ConflictStep, CloseStep, PollStep, BodyLostStep, ClaimStep,
     ArriveStep, ClaimArriveStep, RespondStep, AutoRespondStep DEF Next
<1> QED BY <1>1, <1>2

\* Types, and what Reached says of every row there is or is being answered.
THEOREM Invariant == Spec => []IInv
  BY InitStep, NextStep, PTL DEF Spec

\* ConsensusWasReached: in whatever order the sessions read and write the
\* rows, /response and /auto-respond leave a consensus only where more than
\* half had chosen it, and "complete" only with as many answers as models.
THEOREM ConsensusAlways == Spec => []ConsensusWasReached
<1>1. IInv => ConsensusWasReached
  BY RowOrNone DEF IInv, RowsSound, ReqSound, Reached, ConsensusWasReached
<1> QED BY <1>1, Invariant, PTL

-----------------------------------------------------------------------------
(***************************************************************************)
(* What a step may take out of a row                                       *)
(***************************************************************************)

Keeps(i) ==
    /\ IsPrefix(rows[i].responses, rows'[i].responses)
    /\ rows[i].claimed \in {Null, rows'[i].claimed}

Forgets(i) ==
    \/ \E m \in Models : Outdated(m) /\ req[m].id = i /\ req'[m] = Idle
    \/ spent'.asked > spent.asked

LEMMA SameRow == ASSUME NEW i, rows[i] \in Row, rows'[i] = rows[i] PROVE Keeps(i)
<1>1. rows[i].responses \in Seq(Answers)
  BY DEF Row, Answers
<1> QED BY <1>1, SamePrefix DEF Keeps

LEMMA RespondForgets ==
  ASSUME IInv, NEW m \in Models, NEW c \in Numbers, Respond(m, c),
         NEW i \in Ids, rows[i] \in Row
  PROVE  Keeps(i) \/ Forgets(i)
<1>1. /\ req[m] \in Request /\ req[m] # Idle
      /\ rows \in [Ids -> Row \cup {NoRow}] /\ req'[m] = Idle
  BY RequestOrIdle DEF Respond, IInv, TypeOK
<1>2. CASE rows'[i] = rows[i]
  BY <1>2, SameRow
<1>3. CASE rows'[i] # rows[i]
  <2>1. /\ i = req[m].id
        /\ rows'[i] = Responded(req[m].seen, m, c)
    BY <1>1, <1>3 DEF Respond
  <2>2. CASE Outdated(m)
    BY <1>1, <2>1, <2>2 DEF Forgets
  <2>3. CASE ~Outdated(m)
    <3>1. rows[i] = req[m].seen
      BY <1>1, <2>1, <2>3 DEF Outdated
    <3>2. /\ rows[i].responses \in Seq(Answers) /\ Answer(Lower[m], c) \in Answers
          /\ rows'[i].responses = Append(rows[i].responses, Answer(Lower[m], c))
          /\ rows'[i].claimed = rows[i].claimed
      BY <2>1, <3>1 DEF Responded, Row, Answers, Answer
    <3> QED BY <3>2, AppendPrefix DEF Keeps
  <2> QED BY <2>2, <2>3
<1> QED BY <1>2, <1>3

LEMMA ClaimForgets ==
  ASSUME IInv, NEW m \in Models, Claim(m), NEW i \in Ids, rows[i] \in Row
  PROVE  Keeps(i) \/ Forgets(i)
<1>1. /\ req[m] \in Request /\ req[m] # Idle
      /\ rows \in [Ids -> Row \cup {NoRow}] /\ req'[m] = Idle
  BY RequestOrIdle DEF Claim, IInv, TypeOK
<1>2. CASE rows'[i] = rows[i]
  BY <1>2, SameRow
<1>3. CASE rows'[i] # rows[i]
  <2>1. /\ i = req[m].id
        /\ req[m].seen.claimed \in {Null, m}
        /\ rows'[i] = [req[m].seen EXCEPT !.claimed = m]
    BY <1>1, <1>3 DEF Claim
  <2>2. CASE Outdated(m)
    BY <1>1, <2>1, <2>2 DEF Forgets
  <2>3. CASE ~Outdated(m)
    <3>1. rows[i] = req[m].seen
      BY <1>1, <2>1, <2>3 DEF Outdated
    <3>2. /\ rows[i].responses \in Seq(Answers)
          /\ rows'[i].responses = rows[i].responses /\ rows'[i].claimed = m
      BY <2>1, <3>1 DEF Row, Answers
    <3> QED BY <2>1, <3>1, <3>2, SamePrefix DEF Keeps
  <2> QED BY <2>2, <2>3
<1> QED BY <1>2, <1>3

LEMMA AutoRespondForgets ==
  ASSUME IInv, NEW m \in Models, NEW c \in Numbers, AutoRespond(m, c),
         NEW i \in Ids, rows[i] \in Row
  PROVE  Keeps(i)
<1>1. Reached(rows[i])
  BY DEF IInv, RowsSound, ReqSound
<1>2. rows'[i] = AutoAnswered(rows[i], m, c) \/ rows'[i] = rows[i]
  BY DEF AutoRespond
<1>3. CASE rows'[i] = AutoAnswered(rows[i], m, c)
  BY <1>1, <1>3, AutoAnsweredIsSound DEF Keeps
<1> QED BY <1>2, <1>3, SameRow

\* Only a new question or a conflict of the same millisecond counts as asked.
LEMMA AskedForgets ==
  ASSUME IInv, Count("asked", MaxAsked), NEW i PROVE Forgets(i)
  BY ConsultationAssumption DEF Forgets, Count, IInv, TypeOK

LEMMA CloseForgets ==
  ASSUME IInv, NEW j \in Ids, Close(j), NEW i \in Ids, rows[i] \in Row PROVE Keeps(i)
<1>1. rows \in [Ids -> Row \cup {NoRow}] /\ rows[i].responses \in Seq(Answers)
  BY DEF IInv, TypeOK, Row, Answers
<1>2. /\ rows'[i].responses = rows[i].responses
      /\ rows'[i].claimed = rows[i].claimed
  BY <1>1 DEF Close, Row
<1> QED BY <1>1, <1>2, SamePrefix DEF Keeps

\* OnlyOutdatedWritesForget: an answer or a claim goes out of a row only by
\* a /response or /claim that had read the row before somebody else wrote it,
\* or by a new consultation under the same id.
THEOREM ForgetsAlways == Spec => OnlyOutdatedWritesForget
<1>1. ASSUME IInv, Next, NEW i \in Ids, Exists(i) PROVE Keeps(i) \/ Forgets(i)
  <2>1. rows[i] \in Row
    BY <1>1, RowOrNone DEF IInv
  <2>2. ASSUME NEW models \in SUBSET Models \ {{}}, NEW j \in Ids, Consult(j, models)
        PROVE  Forgets(i)
    BY <1>1, <2>2, AskedForgets DEF Consult
  <2>3. ASSUME NEW connected \in SUBSET Models, NEW j \in Ids, Conflict(j, connected)
        PROVE  Forgets(i)
    BY <1>1, <2>3, AskedForgets DEF Conflict
  <2>4. ASSUME NEW m \in Models, Poll(m) \/ BodyLost(m)
        PROVE  Keeps(i)
    BY <2>1, <2>4, SameRow DEF Poll, BodyLost
  <2>5. ASSUME NEW m \in Models, NEW j \in Ids, Arrive(m, j) \/ ClaimArrive(m, j)
        PROVE  Keeps(i)
    BY <2>1, <2>5, SameRow DEF Arrive, ClaimArrive
  <2> QED BY <1>1, <2>1, <2>2, <2>3, <2>4, <2>5, RespondForgets, ClaimForgets,
             AutoRespondForgets, CloseForgets DEF Next
<1>2. IInv /\ [Next]_vars => [\A i \in Ids : Exists(i) => Keeps(i) \/ Forgets(i)]_vars
  BY <1>1
<1>3. [\A i \in Ids : Exists(i) => Keeps(i) \/ Forgets(i)]_vars
        => [\A i \in Ids : Exists(i) =>
              \/ /\ IsPrefix(rows[i].responses, rows'[i].responses)
                 /\ rows[i].claimed \in {Null, rows'[i].claimed}
              \/ \E m \in Models : Outdated(m) /\ req[m].id = i /\ req'[m] = Idle
              \/ spent'.asked > spent.asked]_vars
  BY Zenon DEF Keeps, Forgets
<1> QED BY <1>2, <1>3, Invariant, PTL DEF Spec, OnlyOutdatedWritesForget

=============================================================================
