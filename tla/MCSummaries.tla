---------------------------- MODULE MCSummaries ----------------------------
EXTENDS Summaries

CONSTANT t1

ASSUME SummariesAssumption

\* Looks of the loops: every unit, every second, every second.
MCEvery == [l1 |-> 1, l2 |-> 2, l3 |-> 2]

\* Of two summaries the text has room for one, or for both.
MCRowLimit == [l2 |-> 2, l3 |-> 1]
MCRoom     == [l2 |-> 1, l3 |-> 1]
=============================================================================
