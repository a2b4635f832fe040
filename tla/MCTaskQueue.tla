---------------------------- MODULE MCTaskQueue ----------------------------
EXTENDS TaskQueue
=============================================================================
