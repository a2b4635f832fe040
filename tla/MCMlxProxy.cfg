\* Three requests, one end of the proxy, one failed command or backend.
CONSTANTS
  r1 = r1
  r2 = r2
  r3 = r3
  NoReq = NoReq
  Reqs = {r1, r2, r3}
  Watchdog = TRUE
  MaxCrashes = 1
  MaxFailures = 1
SPECIFICATION FairSpec
\* With every connection of the instance hung nothing is left to happen.
INVARIANTS OneStart StopsAlone
PROPERTIES Answered UnloadsWhenIdle
CHECK_DEADLOCK FALSE
