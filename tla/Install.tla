------------------------------ MODULE Install -------------------------------
(***************************************************************************)
(* The installer (scripts/install-apply.mjs): it builds the skills for a   *)
(* target, copies the selected ones into a project, adds the hooks to the  *)
(* project's own, and records what it did.  A project is installed into    *)
(* again: another profile, another target, a newer repository.  A run may  *)
(* end anywhere, and a file it was writing is then cut short.              *)
(*                                                                         *)
(* A skill's files are abstracted to the version of the repository they    *)
(* are from, hooks.json to the hooks in it and to whether the installer    *)
(* can merge it: a file with a comment or a trailing comma, or one whose   *)
(* events are no lists, is the user's all the same ("odd").                *)
(***************************************************************************)
EXTENDS Integers, SequencesExt

CONSTANTS
    Components,
    Plans,          \* selections: components a profile, --with and --without give
    Merging,        \* targets whose hooks.json is merged: codex, cursor
    Copying,        \* targets that only have files copied: kiro, antigravity
    Versions,       \* bound: versions of the repository, 1..Versions
    MaxTroubles     \* bound: runs that end early, edits by the user

Targets == Merging \cup Copying

InstallAssumption ==
    /\ Plans \subseteq SUBSET Components /\ Merging \cap Copying = {}
    /\ Versions \in Nat \ {0} /\ MaxTroubles \in Nat

VARIABLES
    repo,           \* the version of the repository
    lacks,          \* components no build has an output for
    tree,           \* what the project has of each component, for each target
    hooks,          \* the hooks file of each target that merges
    record,         \* .install-state.json
    run,            \* the run under way
    owners,         \* targets for which the user has written hooks (history)
    cut,            \* hooks files a run that ended left half written (history)
    unmerged,       \* hooks files that were there and were copied over (history)
    edited,         \* components the user changed that were overwritten (history)
    troubles

hist == <<owners, cut, unmerged>>
vars == <<repo, lacks, tree, hooks, record, run, hist, edited, troubles>>

Absent == 0
Half == -1              \* copied in part
Mine == -2              \* the user's own version
File(is, has) == [is |-> is, has |-> has]
NoFile == File("none", <<>>)
Torn   == File("torn", <<>>)
Writings == {<<"user">>, <<"user", "ours">>, <<"ours", "user">>}    \* what the user may write
NoRun == [at |-> "none", to |-> "none", all |-> {}, left |-> {}]
NoRecord == [to |-> "none", all |-> {}, skipped |-> {}]

Init ==
    /\ repo = 1 /\ lacks \in SUBSET Components
    /\ tree = [t \in Targets |-> [c \in Components |-> Absent]]
    /\ hooks \in [Merging -> {NoFile, File("json", <<"user">>), File("odd", <<"user">>)}]
    /\ owners = {t \in Merging : hooks[t] # NoFile}
    /\ record = NoRecord /\ run = NoRun
    /\ cut = {} /\ unmerged = {} /\ edited = {} /\ troubles = 0

Trouble == troubles < MaxTroubles /\ troubles' = troubles + 1
Goes(to) == run' = [run EXCEPT !.at = to]

-----------------------------------------------------------------------------
(* Around the installer *)

NewVersion ==
    /\ repo < Versions /\ repo' = repo + 1
    /\ UNCHANGED <<lacks, tree, hooks, record, run, hist, edited, troubles>>

UserEdits(t, c) ==
    /\ tree[t][c] > Absent /\ Trouble
    /\ tree' = [tree EXCEPT ![t][c] = Mine]
    /\ UNCHANGED <<repo, lacks, hooks, record, run, hist, edited>>

\* The user writes the hooks file of a target, or mends it.
UserWrites(t) ==
    /\ Trouble
    /\ \E is \in {"json", "odd"}, has \in Writings : hooks' = [hooks EXCEPT ![t] = File(is, has)]
    /\ owners' = owners \cup {t} /\ cut' = cut \ {t} /\ unmerged' = unmerged \ {t}
    /\ UNCHANGED <<repo, lacks, tree, record, run, edited>>

-----------------------------------------------------------------------------
(* applyPlan *)

\* The manifests are read and the selection made; the build ends the run if it
\* fails.  What a dry run does is nothing.
Begin(t, plan) ==
    /\ run = NoRun
    /\ run' = [at |-> "copy", to |-> t, all |-> plan, left |-> plan]
    /\ UNCHANGED <<repo, lacks, tree, hooks, record, hist, edited, troubles>>

\* cpSync writes over whatever is there; what has no build output is skipped.
Copy(c) ==
    /\ run.at = "copy" /\ c \in run.left
    /\ tree' = IF c \in lacks THEN tree ELSE [tree EXCEPT ![run.to][c] = repo]
    /\ edited' = IF c \notin lacks /\ tree[run.to][c] = Mine THEN edited \cup {c} ELSE edited
    /\ run' = [run EXCEPT !.left = @ \ {c}]
    /\ UNCHANGED <<repo, lacks, hooks, record, hist, troubles>>

Copied ==
    /\ run.at = "copy" /\ run.left = {}
    /\ Goes("hooks")
    /\ UNCHANGED <<repo, lacks, tree, hooks, record, hist, edited, troubles>>

\* isDuplicate compares the commands.
Merged(has) == IF Contains(has, "ours") THEN has ELSE Append(has, "ours")

\* Mutant: the file is copied over, as where there is none.
NewHooksCopied(t) == File("json", <<"ours">>)

\* The user's file with ours added; where there is none, ours is copied.
NewHooks(t) == File("json", IF hooks[t] = NoFile THEN <<"ours">> ELSE Merged(hooks[t].has))

\* A file that cannot be read or written back is caught, and copied over.
CopyOver(t) ==
    /\ hooks[t] # NoFile
    /\ IF hooks[t].is = "json" THEN Trouble ELSE UNCHANGED troubles
    /\ hooks' = [hooks EXCEPT ![t] = File("json", <<"ours">>)]
    /\ unmerged' = unmerged \cup {t}
    /\ UNCHANGED <<owners, cut>>

Merge(t) ==
    /\ hooks[t].is \in {"json", "none"}
    /\ hooks' = [hooks EXCEPT ![t] = NewHooks(t)]
    /\ UNCHANGED <<hist, troubles>>

Hook ==
    /\ run.at = "hooks"
    /\ IF run.to \in Merging THEN Merge(run.to) \/ CopyOver(run.to)
                             ELSE UNCHANGED <<hooks, hist, troubles>>
    /\ Goes("record")
    /\ UNCHANGED <<repo, lacks, tree, record, edited>>

\* components.map(c => c.name): the skipped ones too.  One file for all targets.
Recorded(skipped) == [to |-> run.to, all |-> run.all, skipped |-> skipped]

Record ==
    /\ run.at = "record"
    /\ record' = Recorded(run.all \cap lacks) /\ run' = NoRun
    /\ UNCHANGED <<repo, lacks, tree, hooks, hist, edited, troubles>>

\* The run ends: between two steps, or in the middle of writing a file.
Ends ==
    /\ run # NoRun /\ Trouble
    /\ run' = NoRun
    /\ \/ UNCHANGED <<tree, hooks, cut>>
       \/ /\ run.at = "copy"
          /\ \E c \in run.left \ lacks : tree' = [tree EXCEPT ![run.to][c] = Half]
          /\ UNCHANGED <<hooks, cut>>
       \/ /\ run.at = "hooks" /\ run.to \in Merging
          /\ hooks' = [hooks EXCEPT ![run.to] = Torn]
          /\ cut' = cut \cup {run.to}
          /\ UNCHANGED tree
    /\ UNCHANGED <<repo, lacks, owners, unmerged, record, edited>>

InstallNext ==
    \/ NewVersion \/ \E t \in Targets, c \in Components : UserEdits(t, c)
    \/ \E t \in Merging : UserWrites(t)
    \/ \E t \in Targets, plan \in Plans : Begin(t, plan)
    \/ \E c \in Components : Copy(c)
    \/ Copied \/ Hook \/ Record \/ Ends

-----------------------------------------------------------------------------
(***************************************************************************)
(* Properties                                                              *)
(***************************************************************************)

\* "Avoid duplicates by checking command strings" (186): however often a
\* project is installed into, and whatever the user writes in between, our hook
\* is in a hooks file once at most, and the user's stays, unless since they
\* wrote it a run ended while it wrote the file, or the merge of it failed.
HooksKept ==
    \A t \in Merging :
        /\ \A i, k \in DOMAIN hooks[t].has :
             hooks[t].has[i] = "ours" /\ hooks[t].has[k] = "ours" => i = k
        /\ t \in owners \ (cut \cup unmerged) => Contains(hooks[t].has, "user")

\* "Merge: load existing, add vcontext hooks" (179), of every file that is there.
HooksAlwaysKept ==
    \A t \in owners \ cut : Contains(hooks[t].has, "user")

\* "Write install state" (266): what is recorded as installed is there, if a
\* build had it: copied before the record was written, and nothing removes it.
\* A run that ended later may have left it half copied.
RecordHolds ==
    \A c \in record.all \ record.skipped : tree[record.to][c] # Absent

\* The same of every component recorded.
RecordIsWhole ==
    \A c \in record.all : tree[record.to][c] # Absent

\* "refuses to overwrite authored files that have been locally modified"
\* (docs/SPEC.md 664).
EditsKept == edited = {}
=============================================================================
