------------------------------- MODULE Resume -------------------------------
(***************************************************************************)
(* How a session takes up the work of an earlier one in its directory      *)
(* (scripts/vcontext-hooks.js): the working states and handoffs that       *)
(* sessions leave (1386-1403, 1543-1566, 1471-1506, 1777-1800), the        *)
(* commands attach and detach (2613-2640), and handleSessionRecall         *)
(* (1808-2130), which asks the server for such rows, leaves out its own,   *)
(* and continues the latest.  The search (searchTier, server 1844-1885)    *)
(* has a limit, and gives the oldest rows first: it adds the date to a     *)
(* rank of which the least is the best.                                    *)
(*                                                                         *)
(* All rows are of one directory.  A row's place in the table is its time. *)
(***************************************************************************)
EXTENDS Integers, Sequences, FiniteSets

CONSTANTS
    Me,             \* the session that recalls
    Others,         \* sessions that worked in the directory
    Commands,       \* processes running attach or detach for it
    HandoffLimit,   \* limit=10 of the handoffs
    WorkLimit,      \* limit=20 of the working states
    Recent,         \* rows of the last five minutes
    MaxRows,        \* bound: rows stored
    MaxTroubles     \* bound: requests without an answer

NoOne == "none"
Sessions == {Me} \cup Others

ResumeAssumption ==
    /\ Me \notin Others /\ NoOne \notin Sessions
    /\ HandoffLimit \in Nat \ {0} /\ WorkLimit \in Nat \ {0}
    /\ Recent \in Nat /\ MaxRows \in Nat /\ MaxTroubles \in Nat

VARIABLES
    trail,          \* the handoff and working-state rows, oldest first
    attached,       \* /tmp/vcontext-attach-<Me>: a session, or NoOne
    detached,       \* /tmp/vcontext-detach-<Me> says 1
    command,        \* what each command is in the middle of
    wish,           \* what the last command asked for, or "race" (history)
    recall,         \* where the recall stands, what it read and what it showed
    troubles

marks == <<attached, detached, command, wish>>
vars == <<trail, marks, recall, troubles>>

NoHit == 0
Resting == [at |-> "idle", target |-> NoOne, off |-> FALSE, seen |-> 0,
            pool |-> {}, pick |-> NoHit, warned |-> {}, failed |-> FALSE]
Idle == [at |-> "idle", to |-> NoOne]

Init ==
    /\ trail = <<>>
    /\ attached = NoOne /\ detached = FALSE
    /\ command = [c \in Commands |-> Idle] /\ wish = NoOne
    /\ recall = Resting /\ troubles = 0

-----------------------------------------------------------------------------
(* What sessions leave *)

Leave(s, kind, says) ==
    /\ Len(trail) < MaxRows
    /\ trail' = Append(trail, [by |-> s, kind |-> kind, says |-> says])
    /\ UNCHANGED <<marks, recall, troubles>>

\* A prompt and the start of a subagent leave the prompt, a tool call only the
\* tool's name.
Prompted(s) == Leave(s, "working", TRUE)
UsedTool(s) == Leave(s, "working", FALSE)
Ended(s)    == s # Me /\ Leave(s, "handoff", TRUE)

-----------------------------------------------------------------------------
(* attach and detach: each changes two files, one after the other *)

\* Files of one command written between those of another.
Overlapped(c) == \E d \in Commands \ {c} : command[d] # Idle

AttachWrites(c, s) ==
    /\ command[c] = Idle
    /\ attached' = s
    /\ command' = [command EXCEPT ![c] = [at |-> "attach", to |-> s]]
    /\ wish' = IF Overlapped(c) THEN "race" ELSE NoOne
    /\ UNCHANGED <<trail, detached, recall, troubles>>

AttachUnlinks(c) ==
    /\ command[c].at = "attach"
    /\ detached' = FALSE
    /\ command' = [command EXCEPT ![c] = Idle]
    /\ wish' = IF wish = "race" THEN "race" ELSE command[c].to
    /\ UNCHANGED <<trail, attached, recall, troubles>>

DetachUnlinks(c) ==
    /\ command[c] = Idle
    /\ attached' = NoOne
    /\ command' = [command EXCEPT ![c] = [at |-> "detach", to |-> NoOne]]
    /\ wish' = IF Overlapped(c) THEN "race" ELSE NoOne
    /\ UNCHANGED <<trail, detached, recall, troubles>>

DetachWrites(c) ==
    /\ command[c].at = "detach"
    /\ detached' = TRUE
    /\ command' = [command EXCEPT ![c] = Idle]
    /\ wish' = IF wish = "race" THEN "race" ELSE "detach"
    /\ UNCHANGED <<trail, attached, recall, troubles>>

-----------------------------------------------------------------------------
(* handleSessionRecall *)

OfKind(kind) == {i \in DOMAIN trail : trail[i].kind = kind}

\* The oldest rows of a kind, as many as asked for.
Searched(kind, limit) ==
    {i \in OfKind(kind) : Cardinality({j \in OfKind(kind) : j < i}) < limit}

NotMine(ids) == {i \in ids : trail[i].by # Me}

\* "Concurrent Session Detected": sessions with a working state of late.
RecallWarns ==
    /\ recall = Resting
    /\ recall' = [recall EXCEPT !.at = "flags",
          !.warned = {trail[i].by : i \in {j \in NotMine(Searched("working", WorkLimit)) :
                                            j > Len(trail) - Recent}}]
    /\ UNCHANGED <<trail, marks, troubles>>

RecallFlags ==
    /\ recall.at = "flags"
    /\ recall' = [recall EXCEPT !.at = IF detached THEN "over" ELSE "handoffs",
                                !.off = detached, !.target = attached]
    /\ UNCHANGED <<trail, marks, troubles>>

\* A request without an answer counts as one without results.
AskHandoffs ==
    /\ recall.at = "handoffs"
    /\ \/ /\ recall' = [recall EXCEPT !.at = "work", !.seen = Len(trail),
                                      !.pool = NotMine(Searched("handoff", HandoffLimit))]
          /\ UNCHANGED troubles
       \/ /\ troubles < MaxTroubles /\ troubles' = troubles + 1
          /\ recall' = [recall EXCEPT !.at = "work", !.seen = Len(trail), !.failed = TRUE]
    /\ UNCHANGED <<trail, marks>>

AskWork ==
    /\ recall.at = "work"
    /\ \/ /\ recall' = [recall EXCEPT !.at = "pick",
                                      !.pool = @ \cup NotMine(Searched("working", WorkLimit))]
          /\ UNCHANGED troubles
       \/ /\ troubles < MaxTroubles /\ troubles' = troubles + 1
          /\ recall' = [recall EXCEPT !.at = "pick", !.failed = TRUE]
    /\ UNCHANGED <<trail, marks>>

Oldest(ids) == IF ids = {} THEN NoHit ELSE CHOOSE i \in ids : \A j \in ids : i <= j
Newest(ids) == IF ids = {} THEN NoHit ELSE CHOOSE i \in ids : \A j \in ids : j <= i

\* The first in the order of the answers, the handoffs before the working states.
FirstOf(ids) ==
    IF ids \cap OfKind("handoff") = {} THEN Oldest(ids) ELSE Oldest(ids \cap OfKind("handoff"))

Says(ids) == {i \in ids : trail[i].says}

\* Mutant: in the order of the answers.
LatestUnsorted(pool) == FirstOf(Says(pool))

\* The latest with something to show, by the time in the row.
Latest(pool) == Newest(Says(pool))

\* Attached to a session, its first row in the pool; otherwise the latest.
Pick ==
    /\ recall.at = "pick"
    /\ recall' = [recall EXCEPT !.at = "over",
          !.pick = IF recall.target # NoOne
                   THEN FirstOf({i \in recall.pool : trail[i].by = recall.target})
                   ELSE Latest(recall.pool)]
    /\ UNCHANGED <<trail, marks, troubles>>

\* The next start of the session, or its compaction.
RecallAgain ==
    /\ recall.at = "over"
    /\ recall' = Resting
    /\ UNCHANGED <<trail, marks, troubles>>

ResumeNext ==
    \/ \E s \in Sessions : Prompted(s) \/ UsedTool(s) \/ Ended(s)
    \/ \E c \in Commands : \/ \E s \in Others : AttachWrites(c, s)
                           \/ AttachUnlinks(c) \/ DetachUnlinks(c) \/ DetachWrites(c)
    \/ RecallWarns \/ RecallFlags \/ AskHandoffs \/ AskWork \/ Pick \/ RecallAgain

-----------------------------------------------------------------------------
(***************************************************************************)
(* Properties                                                              *)
(***************************************************************************)

Useful(i) == trail[i].by # Me /\ trail[i].says
Crowded == \/ Cardinality(OfKind("handoff")) > HandoffLimit
           \/ Cardinality(OfKind("working")) > WorkLimit

\* Nothing useful that was there when the recall asked is later than its pick.
PickedLatest ==
    \A i \in 1..recall.seen : Useful(i) => i <= recall.pick

Continues == recall.at = "over" /\ ~recall.off /\ recall.target = NoOne /\ ~recall.failed

\* "pick the most recent entry that still has useful content" (1997): so it is
\* while the rows of a kind, the session's own included, are within the limit.
LatestUnlessCrowded == Continues /\ ~Crowded => PickedLatest

\* The same whatever the number of rows.
LatestAlways == Continues => PickedLatest

\* "suppress auto-continuation for the current session" (2629), "Explicitly
\* attach to a prior session" (2612): of commands one after the other the last
\* one holds.
LastWordHolds ==
    (\A c \in Commands : command[c] = Idle) =>
        /\ wish = "detach" => detached /\ attached = NoOne
        /\ wish \in Others => ~detached /\ attached = wish

\* The same of a detach that ends last, whatever it overlapped.
RaceIsDecided ==
    (\A c \in Commands : command[c] = Idle) /\ wish # NoOne => detached \/ attached # NoOne
=============================================================================
