---------------------------- MODULE Consultation ----------------------------
(***************************************************************************)
(* Consultations of the vcontext server: a question is put to several AI   *)
(* models, their sessions poll for what still needs an answer and post it, *)
(* and the server keeps the answers, the status and the consensus in one   *)
(* row per consultation (scripts/vcontext-server.js, 2859-3390).           *)
(*                                                                         *)
(* A row is always read whole and written whole.  /response and /claim     *)
(* read it, then wait for the request's body, then write it back; between  *)
(* the two any other request may write the same row.  /auto-respond and    *)
(* /close read and write without a wait between.                           *)
(*                                                                         *)
(* The id of a consultation names who asked it and the millisecond: /store *)
(* asks one itself when a decision conflicts with active ones (1564-1672). *)
(* That row is of another form, `responses: {}`, which no handler can push *)
(* an answer to, and of a status, `pending_responses`, that no poll looks  *)
(* for; only the sessions connected when it is announced hear of it.       *)
(***************************************************************************)
EXTENDS Integers, Sequences, FiniteSets, SequencesExt

CONSTANTS
    Models,     \* the names consultations ask and sessions poll with
    Lower,      \* String.toLowerCase on those names
    Numbers,    \* numbers a session may choose
    Null,       \* the column holds no value
    Listed,     \* the rows a poll looks at: LIMIT 50
    MsPerSecond,
    MaxMs,      \* bound: the milliseconds in which questions are asked
    MaxAsked,   \* bound: consultations asked
    MaxExtra    \* bound: claims sent and replies or bodies that get lost, together

ASSUME ConsultationAssumption ==
    /\ IsFiniteSet(Models) /\ Models \subseteq DOMAIN Lower
    /\ Numbers \subseteq Int
    /\ Null \notin Numbers \cup Models
    /\ {Listed, MsPerSecond} \subseteq Nat \ {0}
    /\ {MaxMs, MaxAsked, MaxExtra} \subseteq Nat

VARIABLES
    rows,   \* the consultations table: id -> row, or NoRow
    todo,   \* what each session found pending and has not had acknowledged
    req,    \* the request of each session that waits for its body, or Idle
    spent   \* consultations, and claims and losses, so far (the bounds)

vars == <<rows, todo, req, spent>>

Ids   == {"consult", "auto"} \X (1..MaxMs)
NoRow == [status |-> "none"]
Idle  == [op |-> "idle"]
Open  == {"pending", "partial"}

Answer(m, c) == [model |-> m, chosen |-> c]

Init ==
    /\ rows = [i \in Ids |-> NoRow]
    /\ todo = [m \in Models |-> {}]
    /\ req = [m \in Models |-> Idle]
    /\ spent = [asked |-> 0, extra |-> 0]

Count(what, max) ==
    /\ spent[what] < max
    /\ spent' = [spent EXCEPT ![what] = @ + 1]

Exists(i) == rows[i].status # "none"

Votes(answers, c) == Cardinality({k \in DOMAIN answers : answers[k].chosen = c})

\* The keys of votes come in ascending order, so a tie goes to the lowest.
Leader(answers) ==
    LET cast == {answers[k].chosen : k \in DOMAIN answers}
    IN  CHOOSE c \in cast : \A d \in cast :
            \/ Votes(answers, c) > Votes(answers, d)
            \/ Votes(answers, c) = Votes(answers, d) /\ c <= d

Status(row, answers) ==
    IF Len(answers) >= Cardinality(row.models) THEN "complete" ELSE "partial"

-----------------------------------------------------------------------------
\* Time does not go back.
Latest(i) == \A j \in Ids : j[2] > i[2] => ~Exists(j)

\* POST /consult.  INSERT OR REPLACE: a second question of the same
\* millisecond takes the place of the first.
Consult(i, models) ==
    /\ Count("asked", MaxAsked)
    /\ i[1] = "consult" /\ Latest(i)
    /\ rows' = [rows EXCEPT ![i] =
          [status |-> "pending", list |-> TRUE, models |-> models, responses |-> <<>>,
           consensus |-> Null, claimed |-> Null]]
    /\ UNCHANGED <<todo, req>>

\* A conflict found by POST /store: it asks all models, and the request is
\* broadcast to the sessions connected at that moment.
Conflict(i, connected) ==
    /\ Count("asked", MaxAsked)
    /\ i[1] = "auto" /\ Latest(i)
    /\ rows' = [rows EXCEPT ![i] =
          [status |-> "pending_responses", list |-> FALSE, models |-> Models,
           responses |-> <<>>, consensus |-> Null, claimed |-> Null]]
    /\ todo' = [m \in Models |-> IF m \in connected THEN todo[m] \cup {i} ELSE todo[m]]
    /\ UNCHANGED req

-----------------------------------------------------------------------------
\* GET /consult/pending?model=m.  Names are compared as they were written.  It
\* looks through the newest rows, whatever their status, and created_at is in
\* whole seconds: of rows of one second any may be among them.

Created(i) == i[2] \div MsPerSecond

Pending(m, row) ==
    /\ row.status \in Open
    /\ m \in row.models
    /\ \A k \in DOMAIN row.responses : row.responses[k].model # m

\* Mutant: ORDER BY created_at without DESC.
Oldest(listed) ==
    LET others == {i \in Ids : Exists(i)} \ listed
    IN  /\ \A i \in listed : Exists(i) /\ \A j \in others : Created(i) <= Created(j)
        /\ Cardinality(listed) <= Listed
        /\ others # {} => Cardinality(listed) = Listed

\* What listConsultations may return.
Newest(listed) ==
    LET others == {i \in Ids : Exists(i)} \ listed
    IN  /\ \A i \in listed : Exists(i) /\ \A j \in others : Created(i) >= Created(j)
        /\ Cardinality(listed) <= Listed
        /\ others # {} => Cardinality(listed) = Listed

Poll(m) ==
    /\ req[m] = Idle /\ todo[m] = {}
    /\ \E listed \in SUBSET Ids :
          /\ Newest(listed)
          /\ todo' = [todo EXCEPT ![m] = {i \in listed : Pending(m, rows[i])}]
    /\ UNCHANGED <<rows, req, spent>>

-----------------------------------------------------------------------------
\* POST /consult/:id/response

Arrive(m, i) ==
    /\ req[m] = Idle /\ i \in todo[m]
    /\ req' = [req EXCEPT ![m] = [op |-> "respond", id |-> i, seen |-> rows[i]]]
    /\ UNCHANGED <<rows, todo, spent>>

\* Mutant: the answers of before are not carried over.
RespondedAlone(row, m, c) ==
    LET answers == <<Answer(Lower[m], c)>>
    IN  [row EXCEPT !.responses = answers, !.status = Status(row, answers),
                    !.consensus = c]

Responded(row, m, c) ==
    LET answers == Append(row.responses, Answer(Lower[m], c))
        best    == Leader(answers)
    IN  [row EXCEPT !.responses = answers,
                    !.status    = Status(row, answers),
                    !.consensus = IF 2 * Votes(answers, best) > Len(answers)
                                  THEN best ELSE Null]

\* What the rest of the handler does once the body is there.  The reply may
\* be lost: the session then posts the same answer again.
Respond(m, c) ==
    /\ req[m].op = "respond"
    /\ rows' = IF req[m].seen.list
               THEN [rows EXCEPT ![req[m].id] = Responded(req[m].seen, m, c)]
               ELSE rows                       \* push is not a function: 500
    /\ req' = [req EXCEPT ![m] = Idle]
    /\ \/ todo' = [todo EXCEPT ![m] = @ \ {req[m].id}] /\ UNCHANGED spent
       \/ Count("extra", MaxExtra) /\ UNCHANGED todo

\* The connection breaks before the body is complete: readBody rejects.
BodyLost(m) ==
    /\ req[m] # Idle
    /\ Count("extra", MaxExtra)
    /\ req' = [req EXCEPT ![m] = Idle]
    /\ UNCHANGED <<rows, todo>>

-----------------------------------------------------------------------------
\* POST /consult/auto-respond: every answer of the session in one request.
\* The majority is of the models asked; without one the old consensus stays.
\* A row without a list of answers ends the request, with some rows written.

\* Mutant: the choice with most votes is the consensus, majority or not.
AutoPlurality(row, m, c) ==
    LET answers == Append(row.responses, Answer(m, c))
    IN  [row EXCEPT !.responses = answers, !.status = Status(row, answers),
                    !.consensus = c]

AutoAnswered(row, m, c) ==
    LET answers == Append(row.responses, Answer(m, c))
        best    == Leader(answers)
    IN  IF \E k \in DOMAIN row.responses : row.responses[k].model = m
        THEN row
        ELSE [row EXCEPT !.responses = answers,
                         !.status    = Status(row, answers),
                         !.consensus = IF 2 * Votes(answers, best) > Cardinality(row.models)
                                       THEN best ELSE @]

AutoRespond(m, c) ==
    /\ req[m] = Idle /\ todo[m] # {}
    /\ LET good == {i \in todo[m] : rows[i].list}
       IN  \E done \in SUBSET good :
              /\ done = good \/ good # todo[m]
              /\ rows' = [i \in Ids |-> IF i \in done THEN AutoAnswered(rows[i], m, c)
                                                    ELSE rows[i]]
    /\ todo' = [todo EXCEPT ![m] = {}]
    /\ UNCHANGED <<req, spent>>

-----------------------------------------------------------------------------
\* POST /consult/:id/claim and /consult/:id/close

ClaimArrive(m, i) ==
    /\ req[m] = Idle /\ Exists(i)
    /\ Count("extra", MaxExtra)
    /\ req' = [req EXCEPT ![m] = [op |-> "claim", id |-> i, seen |-> rows[i]]]
    /\ UNCHANGED <<rows, todo>>

Claim(m) ==
    /\ req[m].op = "claim"
    /\ LET free == req[m].seen.claimed \in {Null, m}
       IN  rows' = IF free THEN [rows EXCEPT ![req[m].id] =
                                     [req[m].seen EXCEPT !.claimed = m]]
                           ELSE rows
    /\ req' = [req EXCEPT ![m] = Idle]
    /\ UNCHANGED <<todo, spent>>

Close(i) ==
    /\ Exists(i)
    /\ rows' = [rows EXCEPT ![i].status = "closed"]
    /\ UNCHANGED <<todo, req, spent>>

Next ==
    \/ \E models \in SUBSET Models \ {{}}, i \in Ids : Consult(i, models)
    \/ \E connected \in SUBSET Models, i \in Ids : Conflict(i, connected)
    \/ \E i \in Ids : Close(i)
    \/ \E m \in Models :
          \/ Poll(m) \/ BodyLost(m) \/ Claim(m)
          \/ \E i \in Ids : Arrive(m, i) \/ ClaimArrive(m, i)
          \/ \E c \in Numbers : Respond(m, c) \/ AutoRespond(m, c)

\* A session goes on polling and answers what it found; a request that was
\* sent is handled.  Nobody has to ask, claim or close.
Fairness ==
    \A m \in Models :
        /\ WF_vars(Poll(m))
        /\ WF_vars(\E i \in Ids : Arrive(m, i))
        /\ WF_vars(\E c \in Numbers : Respond(m, c))
        /\ WF_vars(Claim(m))

Spec == Init /\ [][Next]_vars /\ Fairness

-----------------------------------------------------------------------------
(***************************************************************************)
(* Properties                                                              *)
(***************************************************************************)

Row == [status : Open \cup {"pending_responses", "complete", "closed"},
        list : BOOLEAN, models : SUBSET Models,
        responses : Seq([model : Models \cup {Lower[m] : m \in Models}, chosen : Numbers]),
        consensus : Numbers \cup {Null}, claimed : Models \cup {Null}]

Request == [op : {"respond", "claim"}, id : Ids, seen : Row]

TypeOK ==
    /\ rows \in [Ids -> Row \cup {NoRow}]
    /\ todo \in [Models -> SUBSET Ids]
    /\ req \in [Models -> Request \cup {Idle}]
    /\ spent \in [asked : 0..MaxAsked, extra : 0..MaxExtra]

\* The row was written between the read and the write of this request.
Outdated(m) == req[m] # Idle /\ rows[req[m].id] # req[m].seen

\* Answers and claims given stay in the row: what a step takes out of it was
\* overwritten by a request that had read the row before somebody else wrote
\* it, or by a new consultation of the same millisecond.
OnlyOutdatedWritesForget ==
    [][\A i \in Ids : Exists(i) =>
          \/ /\ IsPrefix(rows[i].responses, rows'[i].responses)
             /\ rows[i].claimed \in {Null, rows'[i].claimed}
          \/ \E m \in Models : Outdated(m) /\ req[m].id = i /\ req'[m] = Idle
          \/ spent'.asked > spent.asked]_vars

\* So many others are at least as new that a poll need not list it.
Crowded(i) == Cardinality({j \in Ids \ {i} : Exists(j) /\ Created(j) >= Created(i)}) >= Listed

\* A consultation ends up complete or closed, even when answers are overwritten
\* or a session's name is not in lower case and its answers are not recognised,
\* as long as the polls list it: newer ones, answered or not, push it out.
\* Of the ones /store asks this is not so (AutoSettles).
Settles ==
    \A i \in Ids :
        rows[i].status \in Open ~> rows[i].status \in {"complete", "closed"} \/ Crowded(i)

\* "Returns consultations that still need responses from the given model.  AI
\* sessions poll this to discover work they need to evaluate" (3257): all of
\* them, so that each one settles.
EverySettles ==
    \A i \in Ids : rows[i].status \in Open ~> rows[i].status \in {"complete", "closed"}

\* "Auto-create consultation for conflicting decisions" (1587), which nobody
\* can answer: it ends only when somebody closes it.
AutoSettles ==
    \A i \in Ids : rows[i].status = "pending_responses" ~>
                       rows[i].status \in {"complete", "closed"}

\* A complete consultation holds as many answers as models were asked, and
\* its consensus is a choice that more than half of the answers, or of the
\* models, had made when it was set: it is never a choice nobody made.
HasMajority(row) ==
    \E k \in DOMAIN row.responses :
        LET answers == SubSeq(row.responses, 1, k)
            n       == Votes(answers, row.consensus)
        IN  2 * n > k \/ 2 * n > Cardinality(row.models)

ConsensusWasReached ==
    \A i \in Ids : Exists(i) =>
        /\ rows[i].status = "complete" => Len(rows[i].responses) >= Cardinality(rows[i].models)
        /\ rows[i].consensus # Null => HasMajority(rows[i])

=============================================================================
