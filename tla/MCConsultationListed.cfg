\* Two questions, in one second or in two, a poll that lists one row, and a claim
\* or a lost reply.
CONSTANTS
    claude = claude
    Codex = Codex
    codex = codex
    Null = Null
    Models = {claude, Codex}
    Lower <- MCLower
    Numbers = {1}
    Listed = 1
    MsPerSecond = 2
    MaxMs = 2
    MaxAsked = 2
    MaxExtra = 1
SPECIFICATION Spec
PROPERTY Settles
CHECK_DEADLOCK FALSE
