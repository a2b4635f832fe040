----------------------------- MODULE PatchFlow ------------------------------
(***************************************************************************)
(* Proposed changes and the user's verdict on them: POST                   *)
(* /admin/approve-patch, reject-patch, adopt-idea and reject-idea          *)
(* (scripts/vcontext-server.js 6868-6992).                                 *)
(*                                                                         *)
(* An approval edits a file of the repository on a branch of its own,      *)
(* tests its syntax, commits, merges into main, has the server reloaded,   *)
(* and then writes the verdict into the row.  It runs without an await, so *)
(* no other request comes between; but every git command and every write   *)
(* may fail, the process may be killed between two of them, and nothing    *)
(* that was begun is looked for afterwards.                                *)
(*                                                                         *)
(* The text of a file is the set of patches applied to it, with Broken in  *)
(* it when git left the markers of a conflict there or it was half         *)
(* written.                                                                *)
(***************************************************************************)
EXTENDS Integers, Sequences, FiniteSetsExt

CONSTANTS
    Patches,
    Files,
    FileOf,         \* the file a patch edits
    Sound,          \* the texts that parse: sets of patches
    Parsed,         \* patches whose proposal has FILE, BEFORE and AFTER
    Ideas,          \* the pending-idea rows
    MaxAdopted,     \* bound: adopted-idea rows of one idea
    MaxCommits,     \* bound: commits
    MaxTroubles     \* bound: failed commands and deaths

Main   == "main"
Broken == "broken"
Text   == SUBSET (Patches \cup {Broken})

\* What the constants are; the module that gives them values assumes it.
PatchFlowAssumption ==
    /\ FileOf \in [Patches -> Files] /\ Main \notin Patches
    /\ Sound \subseteq SUBSET Patches /\ {} \in Sound /\ Parsed \subseteq Patches
    /\ MaxAdopted \in Nat /\ MaxCommits \in Nat /\ MaxTroubles \in Nat

VARIABLES
    status,         \* the status in the row of each patch
    log,            \* the commits: the files of each, and the commits before it
    tip,            \* the last commit of each branch there is
    head,           \* the branch checked out
    work,           \* the working files
    tangled,        \* a conflict is in the index
    step,           \* where the approval under way stands, its patch, the file it read
    cut,            \* an approval ended over a file written and not tested, or not
                    \* put back (history)
    untested,       \* git merged two changes of one file (history)
    idea,           \* the status of each idea, and its adopted-idea rows
    troubles

git  == <<log, tip, head, work, tangled>>
hist == <<cut, untested>>
vars == <<status, git, step, hist, idea, troubles>>

Free == [at |-> "free"]
Goes(place) == step' = [step EXCEPT !.at = place]
Trouble == troubles < MaxTroubles /\ troubles' = troubles + 1
Clean == [f \in Files |-> {}]

Init ==
    /\ status = [p \in Patches |-> "pending"]
    /\ log = <<[files |-> Clean, past |-> {}]>>
    /\ tip = [b \in {Main} |-> 1]
    /\ head = Main /\ work = Clean /\ tangled = FALSE
    /\ step = Free /\ cut = FALSE /\ untested = FALSE
    /\ idea = [i \in Ideas |-> [status |-> "pending-review", adopted |-> 0]]
    /\ troubles = 0

-----------------------------------------------------------------------------
(* git, as far as an approval uses it *)

Tip(b)  == log[tip[b]].files
Past(b) == log[tip[b]].past \cup {tip[b]}

\* A checkout takes uncommitted changes along.  It refuses to when the branch
\* has another text of a file that is changed, or a conflict is in the index.
Carries(b) == ~tangled /\ \A f \in Files : work[f] # Tip(head)[f] => Tip(b)[f] = Tip(head)[f]
CheckedOut(b) == [f \in Files |-> IF work[f] # Tip(head)[f] THEN work[f] ELSE Tip(b)[f]]

With(b, commit)    == [c \in DOMAIN tip \cup {b} |-> IF c = b THEN commit ELSE tip[c]]
Without(p)         == [b \in DOMAIN tip \ {p} |-> tip[b]]
Commits(files, past) ==
    /\ Len(log) < MaxCommits
    /\ log' = Append(log, [files |-> files, past |-> past])

\* The latest commit two branches have in common, and the files both changed.
Base(b, c) == log[Max(Past(b) \cap Past(c))].files
BothChanged(base, ours, theirs) ==
    {f \in Files : base[f] # ours[f] /\ base[f] # theirs[f] /\ ours[f] # theirs[f]}

\* A change of either side is taken.  Of a file both have changed, either git
\* finds the changes apart, or it leaves both texts between markers.
Combined(base, ours, theirs, clash) ==
    [f \in Files |->
        IF f \in clash THEN ours[f] \cup theirs[f] \cup {Broken}
        ELSE IF ours[f] = base[f] THEN theirs[f]
        ELSE IF theirs[f] \in {base[f], ours[f]} THEN ours[f]
        ELSE {x \in ours[f] \cup theirs[f] : x \in base[f] => x \in ours[f] \cap theirs[f]}]

-----------------------------------------------------------------------------
(* approve-patch *)

\* The status is not looked at: a rejected patch may be approved, an applied
\* one again.  BEFORE is in the file unless the patch was applied to it; of a
\* broken text nothing is known.
Approve(p) ==
    /\ step = Free /\ p \in Parsed
    /\ LET original == work[FileOf[p]]
       IN  \/ /\ p \in original \/ Broken \in original
              /\ status' = [status EXCEPT ![p] = "rejected-no-match"]
              /\ UNCHANGED step
           \/ /\ p \notin original \/ Broken \in original
              /\ step' = [at |-> "branch", patch |-> p, original |-> original]
              /\ UNCHANGED status
    /\ UNCHANGED <<git, hist, idea, troubles>>

\* An exception of a command ends the request: 500, and nothing is undone.  What
\* git add has put into the index before the commit failed is no conflict.
Fails(places) ==
    /\ step.at \in places
    /\ Trouble /\ step' = Free
    /\ tangled' \in IF step.at = "commit" THEN {tangled, FALSE} ELSE {tangled}
    /\ UNCHANGED <<status, log, tip, head, work, hist, idea>>

\* git checkout -b patch-N || git checkout patch-N.  The first goes through with
\* a conflict in the index, too.
Branch ==
    /\ step.at = "branch"
    /\ LET p == step.patch IN
         \/ /\ p \notin DOMAIN tip
            /\ tip' = With(p, tip[head]) /\ head' = p
            /\ Goes("write") /\ UNCHANGED work
         \/ /\ p \in DOMAIN tip /\ Carries(p)
            /\ head' = p /\ work' = CheckedOut(p)
            /\ Goes("write") /\ UNCHANGED tip
         \/ p \in DOMAIN tip /\ ~Carries(p) /\ step' = Free /\ UNCHANGED <<tip, head, work>>
    /\ UNCHANGED <<status, log, tangled, hist, idea, troubles>>

Writes(text) == work' = [work EXCEPT ![FileOf[step.patch]] = text]

\* The file becomes what was read before the branch was checked out, patched.
Write ==
    /\ step.at = "write"
    /\ Writes(step.original \cup {step.patch})
    /\ Goes("test")
    /\ UNCHANGED <<status, log, tip, head, tangled, hist, idea, troubles>>

\* Mutant: the exit status of node -c is not looked at.
PassesAlways(p) == p \in Patches

\* node -c of the patched file
Passes(p) == work[FileOf[p]] \in Sound

Test ==
    /\ step.at = "test"
    /\ Goes(IF Passes(step.patch) THEN "commit" ELSE "undo")
    /\ UNCHANGED <<status, git, hist, idea, troubles>>

\* The file as it was read.
Undo ==
    /\ step.at = "undo"
    /\ Writes(step.original)
    /\ Goes("leave")
    /\ UNCHANGED <<status, log, tip, head, tangled, hist, idea, troubles>>

\* Either write may throw, or the process end in it: the file is as it was, or
\* cut short.
WriteFails ==
    /\ step.at \in {"write", "undo"} /\ Trouble
    /\ UNCHANGED work \/ Writes({Broken})
    /\ cut' = TRUE /\ step' = Free
    /\ UNCHANGED <<status, log, tip, head, tangled, untested, idea>>

\* git checkout main, after a test that failed and after the commit
Return ==
    /\ step.at \in {"leave", "return"}
    /\ \/ /\ Carries(Main)
          /\ work' = CheckedOut(Main) /\ head' = Main
          /\ Goes(IF step.at = "leave" THEN "delete" ELSE "merge")
       \/ ~Carries(Main) /\ step' = Free /\ UNCHANGED <<work, head>>
    /\ UNCHANGED <<status, log, tip, tangled, hist, idea, troubles>>

\* git branch -D patch-N
Delete ==
    /\ step.at = "delete"
    /\ tip' = Without(step.patch)
    /\ status' = [status EXCEPT ![step.patch] = "rejected-test-failed"]
    /\ step' = Free
    /\ UNCHANGED <<log, head, work, tangled, hist, idea, troubles>>

\* git add -A && git commit takes every changed file, markers and all, and
\* fails when there is none.
Commit ==
    /\ step.at = "commit"
    /\ \/ /\ work # Tip(head) /\ Commits(work, Past(head))
          /\ tip' = [tip EXCEPT ![head] = Len(log) + 1]
          /\ Goes("return")
       \/ work = Tip(head) /\ step' = Free /\ UNCHANGED <<log, tip>>
    /\ tangled' = FALSE
    /\ UNCHANGED <<status, head, work, hist, idea, troubles>>

\* git merge patch-N: main is moved on when it has nothing of its own; else
\* both are combined, and committed unless there is a conflict.
Merge ==
    /\ step.at = "merge"
    /\ LET p == step.patch
           base == Base(Main, p)
           both == BothChanged(base, Tip(Main), Tip(p))
       IN  \/ /\ tip[Main] \in Past(p)
              /\ tip' = [tip EXCEPT ![Main] = tip[p]] /\ work' = Tip(p)
              /\ Goes("drop")
              /\ UNCHANGED <<log, tangled, untested>>
           \/ /\ tip[Main] \notin Past(p)
              /\ untested' = (untested \/ both # {})
              /\ \E clash \in SUBSET both :
                   /\ work' = Combined(base, Tip(Main), Tip(p), clash)
                   /\ tangled' = (clash # {})
                   /\ IF clash = {}
                      THEN /\ Commits(work', Past(Main) \cup Past(p))
                           /\ tip' = [tip EXCEPT ![Main] = Len(log) + 1]
                           /\ Goes("drop")
                      ELSE step' = Free /\ UNCHANGED <<log, tip>>
    /\ UNCHANGED <<status, head, cut, idea, troubles>>

\* git branch -d patch-N
Drop ==
    /\ step.at = "drop"
    /\ tip' = Without(step.patch)
    /\ Goes("reload")
    /\ UNCHANGED <<status, log, head, work, tangled, hist, idea, troubles>>

\* Where the file has the patch, and the test has not passed.
Tested == {"test", "undo"}

\* Where the approval stands when the verdict is written.
Recorded == {"reload"}

\* vcontext-reload.sh has launchd restart this very server: the verdict is
\* written only when the reload leaves the process alone (no launchd).
Reload ==
    /\ step.at \in Recorded
    /\ status' = [status EXCEPT ![step.patch] = "applied"]
    /\ step' = Free
    /\ UNCHANGED <<git, hist, idea, troubles>>

Reloaded ==
    /\ step.at = "reload" /\ step' = Free
    /\ UNCHANGED <<status, git, hist, idea, troubles>>

\* The process ends where it stands.
Die ==
    /\ step.at \in Tested \cup {"write", "leave", "delete", "commit", "return", "merge", "drop"}
    /\ Trouble
    /\ cut' = (cut \/ step.at \in Tested)
    /\ step' = Free
    /\ UNCHANGED <<status, git, untested, idea>>

-----------------------------------------------------------------------------
(* reject-patch, adopt-idea, reject-idea *)

Reject(p) ==
    /\ step = Free
    /\ status' = [status EXCEPT ![p] = "rejected"]
    /\ UNCHANGED <<git, step, hist, idea, troubles>>

\* The row is marked, and mirrored into an adopted-idea row each time.
Adopt(i) ==
    /\ step = Free /\ idea[i].adopted < MaxAdopted
    /\ idea' = [idea EXCEPT ![i] = [status |-> "adopted", adopted |-> @.adopted + 1]]
    /\ UNCHANGED <<status, git, step, hist, troubles>>

Dismiss(i) ==
    /\ step = Free
    /\ idea' = [idea EXCEPT ![i].status = "rejected"]
    /\ UNCHANGED <<status, git, step, hist, troubles>>

PatchNext ==
    \/ \E p \in Patches : Approve(p) \/ Reject(p)
    \/ Branch \/ Write \/ Test \/ Undo \/ WriteFails \/ Return \/ Delete \/ Commit
    \/ Merge \/ Drop \/ Reload \/ Reloaded \/ Die
    \/ Fails({"branch", "leave", "delete", "commit", "return", "merge", "drop", "reload"})

IdeaNext == \E i \in Ideas : Adopt(i) \/ Dismiss(i)

Next == PatchNext \/ IdeaNext

Spec == Init /\ [][Next]_vars

-----------------------------------------------------------------------------
(* Properties *)

InMain == UNION {Tip(Main)[f] : f \in Files}
MainIsSound == \A f \in Files : Tip(Main)[f] \in Sound

\* "Apply patch -> test -> reload." (6869): whatever commands fail, and whatever
\* files, branches and conflicts earlier approvals left behind, a text that does
\* not parse reaches main only when a file was written and neither tested nor
\* put back, or when git merged two changes of one file, which nobody tests.
OnlySoundMerged == MainIsSound \/ cut \/ untested

\* "Auto-rollback on failure." (6869), of an approval no write of which failed.
FailureRollsBack == MainIsSound \/ cut

\* "Create git branch, apply, test, reload" (6914): a row says applied only of a
\* change that is in main.  It does not hold: the file is read before the branch
\* is checked out and written over the text the branch has (6909, 6917).
AppliedIsIn == \A p \in Patches : status[p] = "applied" => p \in InMain

\* No status of a patch keeps it out of main once it was written: what a failed
\* commit left in the files goes with the next patch that is approved.
RejectedStaysOut ==
    [][\A p \in Patches : status[p] = "rejected" /\ p \in InMain' => p \in InMain
                          \/ (step # Free /\ step.patch = p)]_vars
\* A merged change says so, sooner or later.
VerdictRecorded == \A p \in Patches : step = Free /\ p \in InMain => status[p] = "applied"
=============================================================================
