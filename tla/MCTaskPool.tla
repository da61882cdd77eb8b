----------------------------- MODULE MCTaskPool -----------------------------
EXTENDS TaskPool
CONSTANTS t1, t2, d1, d2, w1, w2, c1, c2

All == {t1, t2}

\* The four (before, after) situations; one call restricted to a single id.
MCCalls ==
    [before : {"waiting"}, after : {"part_done", "done"}, query : {All}]
    \cup [before : {"part_done"}, after : {"part_done", "done"}, query : {All}]
    \cup [before : {"waiting"}, after : {"done"}, query : {{t1}}]

=============================================================================
