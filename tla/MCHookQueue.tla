---------------------------- MODULE MCHookQueue -----------------------------
EXTENDS HookQueue

CONSTANTS e1, e2, d1, d2
=============================================================================
