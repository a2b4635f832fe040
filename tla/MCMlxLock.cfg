\* The task runner and its child, which may die anywhere, and the server.
CONSTANTS
  runner = runner
  child = child
  server = server
  script = script
  Nobody = Nobody
  Procs <- MCProcs
  WithPid <- MCWithPid
  Env <- MCEnv
  Mortal <- MCMortal
  CrashAnywhere = TRUE
  Ageing = TRUE
SPECIFICATION FairSpec
INVARIANT ExclusiveUntilBroken
PROPERTIES OnlyClearingBreaks OrphanCleared
