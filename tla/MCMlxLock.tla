---- MODULE MCMlxLock ----
(* The task runner (no PID in its holder id) with the child it spawns, and  *)
(* the server and a script, whose ids hold their PIDs.                      *)
EXTENDS MlxLock
CONSTANTS runner, child, server, script
MCProcs == {runner, child, server, script}
MCEnv == [p \in MCProcs |-> IF p = child THEN runner ELSE Nobody]
MCWithPid == {child, server, script}
MCMortal == {runner, child, script}
PeerProcs == {runner, server, script}
PeerEnv == [p \in PeerProcs |-> Nobody]
====
