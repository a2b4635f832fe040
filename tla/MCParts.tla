------------------------------- MODULE MCParts -------------------------------
(* The parts on small instances. *)
EXTENDS Parts, TLC

CONSTANTS p1, p2, p3, f1, f2

\* Two patches of one file and one of another.
MCFileOf == p1 :> f1 @@ p2 :> f1 @@ p3 :> f2

\* The two patches of one file do not go together.
MCSound == {{}, {p1}, {p2}, {p3}}

\* Looks of the loops: every unit, every second, every second.
MCEvery == [l1 |-> 1, l2 |-> 2, l3 |-> 2]

\* Of two summaries the text has room for one, or for both.
MCRowLimit == [l2 |-> 2, l3 |-> 1]
MCRoom     == [l2 |-> 1, l3 |-> 1]

Finding(stream, url, path, text, score) ==
    [stream |-> stream, url |-> url, path |-> path, text |-> text, score |-> score,
     old |-> FALSE]

\* An article found as an idea, by the watcher and by the discovery, and as an
\* idea once more; a patch of the miner and one of the self-improvement script.
MCFindings ==
    {Finding("idea", "u1", "none", "x", 90), Finding("idea", "u1", "none", "y", 70),
     Finding("patch", "u1", "s1", "z", 66), Finding("patch", "none", "s1", "w", 66),
     Finding("suggestion", "u1", "none", "v", 66),
     [Finding("suggestion", "none", "none", "v", 66) EXCEPT !.old = TRUE],
     Finding("patch", "none", "none", "v", 66)}

MCEvidence ==
    {[used |-> [s \in {"s1"} |-> u], sessions |-> 2, older |-> [s \in {"s1"} |-> 2],
      recent |-> [s \in {"s1"} |-> 2], chunks |-> 0, triggered |-> 0] : u \in {0, 2}}

MCWeights == [adoption |-> 25, triggered |-> 25, errors |-> 20, approval |-> 20, fresh |-> 10]
MCBias    == [idea |-> 3, patch |-> 2, suggestion |-> 2]
=============================================================================
