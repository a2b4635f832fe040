\* Three unrelated processes, of which one ends normally after its release.
CONSTANTS
  runner = runner
  child = child
  server = server
  script = script
  Nobody = Nobody
  Procs <- PeerProcs
  WithPid = {server, script}
  Env <- PeerEnv
  Mortal = {script}
  CrashAnywhere = FALSE
  Ageing = FALSE
SPECIFICATION Spec
INVARIANTS MutualExclusion
