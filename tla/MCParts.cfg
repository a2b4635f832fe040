\* Two hooks on a transcript of two messages, the clock standing still; a
\* component and two targets; three backups, two of them requests; a half hour
\* of two cycles; three patches, two of them of one file that does not parse
\* with both, and three commits; the loop and a run-all; two scans of one
\* article; a session and another, two commands, lists of one handoff and of two
\* working states; answers of two rows; three rows of candidates in one cycle,
\* two of them taken; summaries of two entries, days of two units and a week of
\* five, the generator awaited for a unit and never failing.
CONSTANTS
  p1 = p1
  p2 = p2
  p3 = p3
  f1 = f1
  f2 = f2
  AtWork = {"text", "install", "copies", "odd", "patches", "ideas", "skills", "scan", "find", "words",
            "periods", "resume", "read", "evolve"}
  MaxTroubles = 2
  MaxRows = 2
  Hooks = {h1}
  EndHooks = {e1}
  MaxLines = 2
  Short = {}
  PerMinute = 1
  MaxTime = 0
  Components = {skillA}
  Plans = {{skillA}}
  Merging = {codex}
  Copying = {kiro}
  Versions = 2
  Admins = {a1, a2}
  Prunes = {d1}
  Nobody = Nobody
  MaxWal = 4
  Window = 2
  Tolerated = 1
  Patches = {p1, p2, p3}
  Files = {f1, f2}
  FileOf <- MCFileOf
  Sound <- MCSound
  Formed = {p1, p2, p3}
  Ideas = {i1}
  MaxAdopted = 1
  MaxCommits = 4
  RunAlls = {r1}
  Names = {n1, n2}
  Topics = {x1}
  BatchLimit = 2
  MaxSuggestions = 2
  Scans = {s1, s2}
  Urls = {u1}
  Watchers = {w1}
  Miners = {w2}
  Tools = {t1, t2}
  Shown = {t2}
  Terms = {k1, k2, k3}
  Keywords = {k3}
  Triggers = {t1}
  Span = 1
  Day = 2
  Week = 5
  RowLimit <- MCRowLimit
  Room <- MCRoom
  Every <- MCEvery
  Until = 5
  MaxWait = 1
  MaxEntries = 2
  MaxOutages = 0
  MaxFailures = 1
  Me = me
  OtherSessions = {other}
  Commands = {cmd1, cmd2}
  HandoffLimit = 1
  WorkLimit = 2
  LastRows = 1
  MaxTrail = 3
  PageSize = 2
  MaxId = 4
  Findings <- MCFindings
  Skills = {"s1"}
  Protected = {"s1"}
  Evidence <- MCEvidence
  Weights <- MCWeights
  Bias <- MCBias
  TopK = 2
  Observe = FALSE
  MaxCycles = 1
SPECIFICATION Spec
INVARIANTS MessageKept HooksKept GoodCopySurvives RestartsSpaced OnlySoundMerged OneSkillEach
           IdeaOnce PeriodIsWhole LatestUnlessCrowded RepeatsOnlyCopies MergesRight
CHECK_DEADLOCK FALSE
