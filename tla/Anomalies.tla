----------------------------- MODULE Anomalies ------------------------------
(***************************************************************************)
(* The anomaly detection at the end of every maintenance cycle and its     *)
(* automatic responses (scripts/vcontext-server.js 3733-3905), with the    *)
(* backlog of embeddings they look at.  The embed server is restarted when *)
(* many rows are without an embedding and none of the rows of the last     *)
(* half hour has one; the alert and the response are rows themselves.      *)
(*                                                                         *)
(* Time is counted in cycles of five minutes.  Rows are counted by their   *)
(* age; what is no longer counted by anybody is forgotten.  That there are *)
(* many errors, that the primary is ahead of the archive, and the alerts   *)
(* without a response, are choices.  A batch is embedded row by row; what  *)
(* becomes of a batch under way is the matter of Embedding.  RAM-disk mode *)
(* is left out.                                                            *)
(***************************************************************************)
EXTENDS Integers, FiniteSetsExt

CONSTANTS
    Window,         \* the half hour, in cycles
    Tolerated,      \* rows without an embedding that are no stall
    MaxRows,        \* bound: rows of one age that wait, further ones not counted
    MaxTroubles     \* bound: hangs, failed restarts, other anomalies

Old  == Window + 1
Ages == 0..Old                              \* Old stands for all from there on
Kinds == {"stall", "spike", "ahead"}        \* those with a response
Others == {"spike", "ahead", "other"}       \* "other": latency, database errors, growth

AnomaliesAssumption ==
    /\ Window \in Nat \ {0} /\ Tolerated \in Nat
    /\ MaxRows \in Nat /\ MaxRows > Tolerated /\ MaxTroubles \in Nat

VARIABLES
    waiting,        \* rows the embed loop is to do, by age
    quiet,          \* rows it leaves out, without an embedding
    fresh,          \* ages up to Window of rows with an embedding
    stuck,          \* the embed server takes requests and answers none
    since,          \* cycles since the last response to each kind, up to 2
    due,            \* the cycle has come round
    restarted,      \* cycles since a restart of the embed server that was recorded (history)
    embedded,       \* something was embedded since (history)
    again,          \* it was restarted within Window all the same (history)
    idle,           \* it was restarted and was not stuck (history)
    troubles

rows == <<waiting, quiet, fresh>>
seen == <<restarted, embedded, again, idle>>
vars == <<rows, stuck, since, due, seen, troubles>>

Trouble == troubles < MaxTroubles /\ troubles' = troubles + 1
Least(n, m) == IF n < m THEN n ELSE m

Init ==
    /\ waiting = [a \in Ages |-> 0] /\ quiet = 0 /\ fresh = {}
    /\ stuck = FALSE /\ since = [k \in Kinds |-> 2] /\ due = FALSE
    /\ restarted = Old /\ embedded = FALSE /\ again = FALSE /\ idle = FALSE
    /\ troubles = 0

-----------------------------------------------------------------------------
(* The rows *)

OneMore == [waiting EXCEPT ![0] = Least(@ + 1, MaxRows)]
OneQuiet == Least(quiet + 1, Tolerated + 1)

\* A row of a type the embed loop does.
Stored ==
    /\ waiting' = OneMore
    /\ UNCHANGED <<quiet, fresh, stuck, since, due, seen, troubles>>

\* A row of a type it leaves out.
StoredQuiet ==
    /\ quiet' = OneQuiet
    /\ UNCHANGED <<waiting, fresh, stuck, since, due, seen, troubles>>

\* Mutant: the oldest first.
OldestFirst == Max({a \in Ages : waiting[a] > 0})

\* ORDER BY id DESC
NextAge == Min({a \in Ages : waiting[a] > 0})

\* The embed loop has a row done; more may wait than are counted.
Embeds ==
    /\ ~stuck /\ \E a \in Ages : waiting[a] > 0
    /\ \/ waiting' = [waiting EXCEPT ![NextAge] = @ - 1]
       \/ waiting[NextAge] = MaxRows /\ UNCHANGED waiting
    /\ fresh' = fresh \cup ({NextAge} \ {Old})
    /\ embedded' = TRUE
    /\ UNCHANGED <<quiet, stuck, since, due, restarted, again, idle, troubles>>

\* launchd restarts a server that ends, not one that hangs.
Sticks ==
    /\ ~stuck /\ Trouble /\ stuck' = TRUE
    /\ UNCHANGED <<rows, since, due, seen>>

\* Five minutes.
Tick ==
    /\ ~due /\ due' = TRUE
    /\ waiting' = [a \in Ages |-> CASE a = 0   -> 0
                                    [] a = Old -> Least(waiting[Window] + waiting[Old], MaxRows)
                                    [] OTHER   -> waiting[a - 1]]
    /\ fresh' = {a + 1 : a \in fresh} \ {Old}
    /\ since' = [k \in Kinds |-> Least(since[k] + 1, 2)]
    /\ restarted' = Least(restarted + 1, Old)
    /\ UNCHANGED <<quiet, stuck, embedded, again, idle, troubles>>

\* _anomalyLastAction is memory.
ServerRestarts ==
    /\ Trouble
    /\ due' = FALSE /\ since' = [k \in Kinds |-> 2]
    /\ UNCHANGED <<rows, stuck, seen>>

-----------------------------------------------------------------------------
(* detectAnomalies and respondToAnomalies *)

Backlog == quiet + MapThenSumSet(LAMBDA a : waiting[a], Ages)

Stalled == Backlog > Tolerated /\ fresh = {}

\* The cooldown is as long as a cycle: one cycle later it is over or not.
Tried(alerts) == {tried \in SUBSET (alerts \cap Kinds) :
                    \A k \in alerts \cap Kinds : since[k] = 2 => k \in tried}

\* A row of a type the embed loop does, when anything was done and the INSERT
\* goes through: its failure is caught.
Audit(acted, recorded) ==
    IF acted # {} /\ recorded THEN waiting' = OneMore ELSE UNCHANGED waiting

Kickstart(recorded) ==
    /\ stuck' = FALSE
    /\ IF recorded THEN restarted' = 0 /\ embedded' = FALSE ELSE UNCHANGED <<restarted, embedded>>
    /\ again' = (again \/ (restarted < Window /\ embedded))
    /\ idle' = (idle \/ ~stuck)

NoRestart == UNCHANGED <<stuck, seen>>
TimesOut  == stuck' \in {stuck, FALSE} /\ UNCHANGED seen

\* An alert is a row; so is what was done.  The cooldown of a kind starts when
\* its response is tried; a restart that times out (failed) counts as not done.
Alert(alerts, failed, recorded) ==
    \E tried \in Tried(alerts) :
        /\ failed => "stall" \in tried
        /\ quiet' = OneQuiet
        /\ since' = [k \in Kinds |-> IF k \in tried THEN 0 ELSE since[k]]
        /\ IF failed THEN TimesOut
                     ELSE IF "stall" \in tried THEN Kickstart(recorded) ELSE NoRestart
        /\ Audit(IF failed THEN tried \ {"stall"} ELSE tried, recorded)

Detect ==
    /\ due /\ due' = FALSE
    /\ \E others \in {{}} \cup {{k} : k \in Others}, failed, recorded \in BOOLEAN :
         LET alerts == others \cup (IF Stalled THEN {"stall"} ELSE {}) IN
         /\ IF others = {} /\ ~failed /\ recorded THEN UNCHANGED troubles ELSE Trouble
         /\ IF alerts = {} THEN ~failed /\ recorded /\ UNCHANGED <<waiting, quiet, since, stuck, seen>>
                           ELSE Alert(alerts, failed, recorded)
    /\ UNCHANGED fresh

AnomaliesNext ==
    \/ Stored \/ StoredQuiet \/ Embeds \/ Sticks \/ Tick \/ ServerRestarts \/ Detect

-----------------------------------------------------------------------------
(* Properties *)

\* "Track last-action timestamps per anomaly kind to avoid flapping" (3846):
\* the cooldown of five minutes is one cycle and avoids nothing.  What does is
\* that the response is a row, the first the loop takes: once a restarted embed
\* server has done anything, it is not restarted again within the half hour
\* (unless nothing was recorded: the command timed out, 3870, or the audit row
\* could not be inserted, 3900).
RestartsSpaced == ~again

\* "MLX embed worker stopped producing" (3869): only a server that is stuck is
\* restarted.  It does not hold.  Rows the loop leaves out count as backlog
\* (3744), and a half hour in which nothing is stored has no embeddings (3745).
RestartsOnlyStalled == ~idle
=============================================================================
