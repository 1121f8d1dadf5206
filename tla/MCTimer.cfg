\* Three tasks with equal, earlier and later times, once and periodic, added
\* while the thread sleeps.
CONSTANTS
    t1 = t1
    t2 = t2
    t3 = t3
    Task = {t1, t2, t3}
    NoTime = NoTime
    MaxDelay = 2
    MaxLate = 2
SPECIFICATION FairTimerSpec
INVARIANTS
    StoppedIsQuiet
    RestartIsSafe
    NothingSleptOver
PROPERTIES
    EarliestFirst
    QueuedTaskRuns
