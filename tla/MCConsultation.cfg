CONSTANTS
    claude = claude
    Codex = Codex
    codex = codex
    Null = Null
    Models = {claude, Codex}
    Lower <- MCLower
    Numbers = {1, 2}
    Listed = 2
    MsPerSecond = 2
    MaxMs = 1
    MaxAsked = 2
    MaxExtra = 1
SPECIFICATION Spec
INVARIANT ConsensusWasReached
PROPERTY OnlyOutdatedWritesForget
CHECK_DEADLOCK FALSE
