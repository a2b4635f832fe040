\* Limit and the windows are the code's own; the rest are bounds.
CONSTANTS
  Limit = 20
  RequestWindow = 200
  UpdateWindow = 400
  ResultWindow = 200
  MaxTasks = 2
  MaxFailures = 1
  MaxCrashes = 1
  MaxStops = 1
SPECIFICATION FairSpec
INVARIANTS RunsOnce VerdictStands
PROPERTY EveryTaskClaimed
