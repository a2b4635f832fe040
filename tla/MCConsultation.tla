--------------------------- MODULE MCConsultation ---------------------------
EXTENDS Consultation

CONSTANTS claude, Codex, codex

\* Codex is asked and polls under a name that is not in lower case.
MCLower == [m \in {claude, Codex} |-> IF m = Codex THEN codex ELSE m]
=============================================================================
