----------------------------- MODULE HookEvents -----------------------------
(***************************************************************************)
(* What the hooks of one session record (scripts/vcontext-hooks.js):       *)
(* recordEvent (1342-1572) for a tool call or the end of the session.      *)
(* Each event is a process of its own, and tools that ran in parallel end  *)
(* in parallel.  What the processes share they keep in files of /tmp: how  *)
(* far the transcript was read (1136), how many working states were        *)
(* written this minute (38), and when the last one was (1584).  They read  *)
(* these files and write them, without a lock.                             *)
(*                                                                         *)
(* The transcript is appended to while it is read.  A line is two units    *)
(* long here, so that a reader may find half of one.  What becomes of a    *)
(* post is module HookQueue's subject: it arrives, now or from the queue.  *)
(***************************************************************************)
EXTENDS Integers, FiniteSets, SequencesExt

CONSTANTS
    Hooks,          \* the tool-use events
    EndHooks,       \* the session-end events
    MaxLines,       \* bound: assistant messages in the transcript
    Short,          \* messages of fewer than five characters
    Limit,          \* RATE_LIMIT_PER_MIN
    MaxTime,        \* bound on the clock, which counts half minutes
    MaxTroubles     \* bound: hooks killed

Processes == Hooks \cup EndHooks

HookEventsAssumption ==
    /\ Hooks \cap EndHooks = {} /\ Short \subseteq 1..MaxLines
    /\ MaxLines \in Nat /\ Limit \in Nat /\ MaxTime \in Nat /\ MaxTroubles \in Nat

VARIABLES
    length,         \* of the transcript, in half lines
    position,       \* the position file
    hook,           \* what each process is at, and what it holds
    kept,           \* messages stored
    torn,           \* messages a saved position fell into the middle of (history)
    lost,           \* messages in the hands of a process that was killed (history)
    now,
    count,          \* the counter file of each minute
    admitted,       \* working states admitted in each minute (history)
    stamp,          \* the throttle file: when the last one was let through
    troubles

text == <<length, position, kept, torn, lost>>
rate == <<now, count, admitted, stamp>>
vars == <<text, hook, rate, troubles>>

Line(n) == n \div 2                 \* lines complete in a text of length n
Minute == now \div 2
Never == 0 - 2

New == [at |-> "idle", from |-> 0, to |-> 0, batch |-> <<>>, wrote |-> 0, final |-> 0,
        read |-> 0, minute |-> 0]

Init ==
    /\ length = 0 /\ position = 0
    /\ hook = [h \in Processes |-> New]
    /\ kept = {} /\ torn = {} /\ lost = {}
    /\ now = 0 /\ count = [m \in 0..MaxTime \div 2 |-> 0]
    /\ admitted = [m \in 0..MaxTime \div 2 |-> 0] /\ stamp = Never
    /\ troubles = 0

Becomes(h, state) == hook' = [hook EXCEPT ![h] = state]
Goes(h, to) == Becomes(h, [hook[h] EXCEPT !.at = to])
At(h, step) == hook[h].at = step

-----------------------------------------------------------------------------
(* The session goes on *)

Speak == length < 2 * MaxLines /\ length' = length + 1
         /\ UNCHANGED <<position, kept, torn, lost, hook, rate, troubles>>

Tick == now < MaxTime /\ now' = now + 1
        /\ UNCHANGED <<text, hook, count, admitted, stamp, troubles>>

\* An event, once its raw row is posted.  The one that ends the session says
\* what the last message was; where it is in the transcript, it may not know.
Fire(h) ==
    /\ At(h, "idle")
    /\ \E final \in {0, Line(length)} :
          Becomes(h, [hook[h] EXCEPT !.at = "position",
                                   !.final = IF h \in EndHooks THEN final ELSE 0])
    /\ UNCHANGED <<text, rate, troubles>>

-----------------------------------------------------------------------------
(* extractNewAssistantMessages, and what is done with them *)

ReadPosition(h) ==
    /\ At(h, "position")
    /\ Becomes(h, [hook[h] EXCEPT !.at = "text", !.from = position])
    /\ UNCHANGED <<text, rate, troubles>>

\* The lines that begin in the slice and are whole parse; the piece of one that
\* it begins or ends with does not, and is passed over.
Parsed(from, to) ==
    LET before == Line(from + 1) IN [i \in 1..(Line(to) - before) |-> before + i]

ReadText(h) ==
    /\ At(h, "text")
    /\ Becomes(h, [hook[h] EXCEPT !.at = IF length > hook[h].from THEN "save" ELSE "post",
                                   !.to = length, !.batch = Parsed(hook[h].from, length)])
    /\ UNCHANGED <<text, rate, troubles>>

\* Mutant: what is saved is how long the transcript is by now.
SavedSize(h) == length

\* content.length
Saved(h) == hook[h].to

SavePosition(h) ==
    /\ At(h, "save")
    /\ position' = Saved(h)
    /\ torn' = torn \cup {m \in 1..MaxLines : 2 * m - 1 = Saved(h)}
    /\ Goes(h, "post")
    /\ UNCHANGED <<length, kept, lost, rate, troubles>>

\* One message after the other, each awaited; the short ones are not stored.
Post(h) ==
    /\ At(h, "post") /\ hook[h].batch # <<>>
    /\ LET m == Head(hook[h].batch)
       IN  /\ kept' = IF m \in Short THEN kept ELSE kept \cup {m}
           /\ Becomes(h, [hook[h] EXCEPT !.batch = Tail(@),
                                   !.wrote = IF m \in Short THEN @ ELSE @ + 1])
    /\ UNCHANGED <<length, position, torn, lost, rate, troubles>>

\* If the transcript gave nothing, the event's own last message is stored.
PostFinal(h) ==
    /\ At(h, "post") /\ hook[h].batch = <<>>
    /\ kept' = IF hook[h].wrote = 0 /\ hook[h].final # 0 THEN kept \cup {hook[h].final} ELSE kept
    /\ Goes(h, IF h \in EndHooks THEN "over" ELSE "count")
    /\ UNCHANGED <<length, position, torn, lost, rate, troubles>>

-----------------------------------------------------------------------------
(* The working state of a tool call: rateLimitOk, then the throttle *)

\* The file's name has the minute in it.
ReadCount(h) ==
    /\ At(h, "count")
    /\ Becomes(h, [hook[h] EXCEPT !.at = IF count[Minute] >= Limit THEN "refused" ELSE "admit",
                                   !.read = count[Minute], !.minute = Minute])
    /\ UNCHANGED <<text, rate, troubles>>

\* The file read from.
File(h) == hook[h].minute

\* String(n + 1), n the number read before
WriteCount(h) ==
    /\ At(h, "admit")
    /\ count' = [count EXCEPT ![File(h)] = hook[h].read + 1]
    /\ admitted' = [admitted EXCEPT ![hook[h].minute] = @ + 1]
    /\ Goes(h, "throttle")
    /\ UNCHANGED <<text, now, stamp, troubles>>

\* At most one in 30 seconds: the admitted one is not written then.
Throttle(h) ==
    /\ At(h, "throttle")
    /\ stamp' = IF now - stamp < 1 THEN stamp ELSE now
    /\ Goes(h, "over")
    /\ UNCHANGED <<text, now, count, admitted, troubles>>

\* The hook is killed at its timeout, or with its session.
Killed(h) ==
    /\ ~At(h, "idle") /\ ~At(h, "over") /\ ~At(h, "refused")
    /\ troubles < MaxTroubles /\ troubles' = troubles + 1
    /\ lost' = lost \cup ToSet(hook[h].batch)
    /\ Goes(h, "over")
    /\ UNCHANGED <<length, position, kept, torn, rate>>

Steps(h) ==
    \/ Fire(h) \/ ReadPosition(h) \/ ReadText(h) \/ SavePosition(h) \/ Post(h) \/ PostFinal(h)
    \/ ReadCount(h) \/ WriteCount(h) \/ Throttle(h) \/ Killed(h)

EventNext == Speak \/ Tick \/ \E h \in Processes : Steps(h)

-----------------------------------------------------------------------------
(***************************************************************************)
(* Properties                                                              *)
(***************************************************************************)

InHand == UNION {ToSet(hook[h].batch) : h \in Processes}

\* "extracts assistant text blocks that appeared since the last read position"
\* (1130): a message the position is past is stored or on its way, unless a
\* reader found it half written or was killed with it.  Readers that overlap
\* cost nothing: they may store a message twice, which is one row (module
\* TierStore), and put the position back.
MessageKept ==
    \A m \in 1..MaxLines :
        position >= 2 * m => m \in kept \cup InHand \cup Short \cup torn \cup lost

\* The same without the half-written ones: a position saved in the middle of a
\* line has the line skipped for good.
NoneTorn ==
    \A m \in 1..MaxLines : position >= 2 * m => m \in kept \cup InHand \cup Short \cup lost

\* "per-session, per-minute" (30): the counter never runs ahead of what it
\* counts, so that a hook is refused only when Limit were admitted before it;
\* with several at work it lags behind.
RefusedWhenFull ==
    \A h \in Processes : At(h, "refused") => admitted[hook[h].minute] >= Limit

\* "Keeps a single runaway session from overwhelming the DB" (30): no more than
\* Limit in a minute.
LimitHolds == \A m \in 0..MaxTime \div 2 : admitted[m] <= Limit
=============================================================================
