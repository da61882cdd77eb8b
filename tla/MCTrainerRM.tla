----------------------------- MODULE MCTrainerRM -----------------------------
EXTENDS TrainerRM
CONSTANTS t1, t2, t3, d1, d2, x1, x2, w1

\* Both trainers train d1, one of them d2 as well.
MCTasksOf == [x \in {x1, x2} |-> IF x = x1 THEN {d1} ELSE {d1, d2}]

MCDelayModes == {[x \in {x1, x2} |-> b] : b \in BOOLEAN}

\* worker() of a DelayTrainerRM works on the whole pool.
MCWorkerCalls == [before : {"part_done"}, after : {"done"},
                  query : {{t1, t2, t3}}]

MCCalls == [before : {"waiting", "part_done"}, after : {"done", "part_done"},
            query : SUBSET {t1, t2, t3}]
=============================================================================
