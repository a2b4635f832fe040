-------------------------------- MODULE Parts --------------------------------
(***************************************************************************)
(* Parts that are checked for safety only, in one specification: what the  *)
(* hooks of sessions record (HookEvents), how a session takes up the work  *)
(* of another (Resume) and reads across the tiers (Recall), how the        *)
(* installer works (Install), the files of backups (Backup), the responses *)
(* to anomalies (Anomalies), the approval of changes (PatchFlow), the      *)
(* making of skills (SkillMaker), the scripts that bring ideas in          *)
(* (Scanners), the cycle that makes patches of them (SelfEvolve), and the  *)
(* summaries (Summaries, whose run checks liveness too).  They share only  *)
(* rows of the store, which each takes as it finds, so a behaviour has one *)
(* of them at work.                                                        *)
(***************************************************************************)
EXTENDS Integers

CONSTANTS
    AtWork,                                             \* the parts a run looks at
    MaxTroubles, MaxRows,                               \* bounds all have
    Hooks, EndHooks, MaxLines, Short, PerMinute, MaxTime,
    Components, Plans, Merging, Copying, Versions,
    Admins, Prunes, Nobody, MaxWal,
    Window, Tolerated,
    Patches, Files, FileOf, Sound, Formed, Ideas, MaxAdopted, MaxCommits,
    RunAlls, Names, Topics, BatchLimit, MaxSuggestions,
    Scans, Urls, Watchers, Miners, Tools, Shown, Terms, Keywords,
    Triggers, Span, Day, Week, RowLimit, Room, Every, Until, MaxWait, MaxEntries, MaxOutages,
    MaxFailures,
    Me, OtherSessions, Commands, HandoffLimit, WorkLimit, LastRows, MaxTrail,
    PageSize, MaxId,
    Findings, Skills, Protected, Evidence, Weights, Bias, TopK, Observe, MaxCycles

VARIABLES
    part,
    \* HookEvents
    length, position, hook, kept, torn, lost, now, count, admitted, stamp, killed,
    \* Install
    repo, lacks, tree, hooks, record, run, owners, halved, unmerged, edited, ended,
    \* Backup
    mode, main, bak, tmp, pc, turn, inFlight, cached, verdict, wal, bootStep,
    damaged, overlap, cutOff,
    \* Anomalies
    waiting, quiet, fresh, stuck, since, due, restarted, embedded, again, idle, odd,
    \* PatchFlow
    status, log, tip, head, work, tangled, step, cut, untested, idea, failures,
    \* SkillMaker
    found, triggers, suggestions, registry, job, available, faults,
    \* Scanners
    articles, ideas, scan, blind, overlapped, proposed, finder, words, troubles,
    \* Summaries
    clock, raw, chunks, making, next, started, up, usable, streak, restarts,
    \* Resume
    trail, attached, detached, command, wish, recall, unanswered,
    \* Recall
    last, newest, ram, ssd, vec, reader, missed,
    \* SelfEvolve
    rows, cycle, cycles, emitted

eventVars   == <<length, position, hook, kept, torn, lost, now, count, admitted, stamp, killed>>
installVars == <<repo, lacks, tree, hooks, record, run, owners, halved, unmerged, edited, ended>>
backupVars  == <<mode, main, bak, tmp, pc, turn, inFlight, cached, verdict, wal, bootStep,
                 damaged, overlap, cutOff>>
anomalyVars == <<waiting, quiet, fresh, stuck, since, due, restarted, embedded, again, idle, odd>>
patchVars   == <<status, log, tip, head, work, tangled, step, cut, untested, idea, failures>>
skillVars   == <<found, triggers, suggestions, registry, job, available, faults>>
scanVars    == <<articles, ideas, scan, blind, overlapped, proposed, finder, words, troubles>>
periodVars  == <<clock, raw, chunks, making, next, started, up, usable, streak, restarts>>
resumeVars  == <<trail, attached, detached, command, wish, recall, unanswered>>
readVars    == <<last, newest, ram, ssd, vec, reader, missed>>
evolveVars  == <<rows, cycle, cycles, emitted>>
all == <<part, eventVars, installVars, backupVars, anomalyVars, patchVars, skillVars, scanVars,
         periodVars, resumeVars, readVars, evolveVars>>

Text   == INSTANCE HookEvents WITH Limit <- PerMinute, troubles <- killed
Setup  == INSTANCE Install WITH cut <- halved, troubles <- ended
Copies == INSTANCE Backup
Odd    == INSTANCE Anomalies WITH troubles <- odd
Patch  == INSTANCE PatchFlow WITH Parsed <- Formed, troubles <- failures
Skill  == INSTANCE SkillMaker WITH Limit <- BatchLimit, troubles <- faults
Scan   == INSTANCE Scanners
Period == INSTANCE Summaries
          WITH Window <- Span, MaxTime <- Until, MaxTroubles <- MaxOutages,
               now <- clock, job <- making, available <- usable, troubles <- restarts
Resumed == INSTANCE Resume
           WITH Others <- OtherSessions, Recent <- LastRows, MaxRows <- MaxTrail,
                MaxTroubles <- MaxFailures, troubles <- unanswered
Reads  == INSTANCE Recall
          WITH Limit <- PageSize, MaxTroubles <- MaxFailures, next <- newest, troubles <- missed
Evolve == INSTANCE SelfEvolve WITH Rows <- Findings, MaxRows <- MaxTrail

ASSUME PartsAssumption ==
    /\ Text!HookEventsAssumption /\ Setup!InstallAssumption /\ Copies!BackupAssumption
    /\ Odd!AnomaliesAssumption /\ Patch!PatchFlowAssumption /\ Skill!SkillMakerAssumption
    /\ Scan!ScannersAssumption /\ Period!SummariesAssumption
    /\ Resumed!ResumeAssumption /\ Reads!RecallAssumption /\ Evolve!SelfEvolveAssumption

\* Of a part that is not at work the choices of its Init do not matter.
Init ==
    /\ part \in AtWork
    /\ Text!Init /\ Copies!Init /\ Odd!Init /\ Patch!Init /\ Scan!Init
    /\ Resumed!Init /\ Reads!Init /\ Evolve!Init
    /\ Setup!Init /\ (part # "install" => lacks = {} /\ owners = {})
    /\ Skill!Init /\ (part # "skills" => available)
    /\ Period!Init /\ (part # "periods" => up)

\* A part that is not at work stays as it is.
Still(vars, parts) == IF part \in parts THEN TRUE ELSE UNCHANGED vars

OthersStill ==
    /\ UNCHANGED part
    /\ Still(eventVars, {"text"})
    /\ Still(installVars, {"install"})
    /\ Still(backupVars, {"copies"})
    /\ Still(anomalyVars, {"odd"})
    /\ Still(patchVars, {"patches", "ideas"})
    /\ Still(skillVars, {"skills"})
    /\ Still(scanVars, {"scan", "find", "words"})
    /\ Still(periodVars, {"periods"})
    /\ Still(resumeVars, {"resume"})
    /\ Still(readVars, {"read"})
    /\ Still(evolveVars, {"evolve"})

Next ==
    /\ OthersStill
    /\ \/ part = "text" /\ Text!EventNext
       \/ part = "install" /\ Setup!InstallNext
       \/ part = "copies" /\ Copies!Next
       \/ part = "odd" /\ Odd!AnomaliesNext
       \/ part = "patches" /\ Patch!PatchNext
       \/ part = "ideas" /\ Patch!IdeaNext
       \/ part = "skills" /\ Skill!SkillNext
       \/ part = "scan" /\ Scan!ScanNext
       \/ part = "find" /\ Scan!FindNext
       \/ part = "words" /\ Scan!WordNext
       \/ part = "periods" /\ Period!Next
       \/ part = "resume" /\ Resumed!ResumeNext
       \/ part = "read" /\ Reads!RecallNext
       \/ part = "evolve" /\ Evolve!Next

Spec == Init /\ [][Next]_all

MessageKept      == Text!MessageKept
HooksKept        == Setup!HooksKept
GoodCopySurvives == Copies!GoodCopySurvives
RestartsSpaced   == Odd!RestartsSpaced
OnlySoundMerged  == Patch!OnlySoundMerged
OneSkillEach     == Skill!OneSkillEach
IdeaOnce         == Scan!IdeaOnce
PeriodIsWhole    == Period!PeriodIsWhole
LatestUnlessCrowded == Resumed!LatestUnlessCrowded
RepeatsOnlyCopies   == Reads!RepeatsOnlyCopies
MergesRight         == Evolve!MergesRight
=============================================================================
