\* Two callers of high priority and one of low, an embedding, two tries, and
\* three troubles (errors, responses broken off, restarts).  Three ids, one of a
\* type left out, one the model has nothing for.
CONSTANTS
    c1 = c1
    c2 = c2
    c3 = c3
    e1 = e1
    Calls = {c1, c2, c3}
    Top = {c1, c2}
    Embeds = {e1}
    MaxTries = 2
    MaxTroubles = 3
    MaxId = 3
    Batch = 2
    SyncBatch = 1
    SsdBatch = 1
    Skipped = {2}
    Blank = {3}
    MaxFailures = 2
SPECIFICATION PartSpec
INVARIANTS OneAtATime ApartFromOthers OwnVector
PROPERTIES Settles BacklogDrains IndexCatchesUp
CHECK_DEADLOCK FALSE
