\* Three workers compete for the three tasks of two callers: a notification can
\* meet a worker that is busy, asleep or on its way to sleep.  No symmetry, which
\* would be unsound for the liveness properties.
CONSTANTS
    w1 = w1
    w2 = w2
    w3 = w3
    c1 = c1
    c2 = c2
    t1 = t1
    t2 = t2
    t3 = t3
    Worker = {w1, w2, w3}
    Caller = {c1, c2}
    Task = {t1, t2, t3}
    NoTask = NoTask
SPECIFICATION FairSpec
INVARIANTS
    FifoOnce
    NoLostWakeup
    DrainedWhenDestroyed
PROPERTIES
    ImplementsExecutor
    EveryTaskRuns
    DestructorReturns
