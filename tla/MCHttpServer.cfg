\* Two connections for two workers; the rest of the process may leave them two
\* descriptors or one.  Requests arrive whole or in two pieces.
CONSTANTS
    c1 = c1
    c2 = c2
    f1 = f1
    f2 = f2
    f3 = f3
    w1 = w1
    w2 = w2
    Conn = {c1, c2}
    Fd = {f1, f2, f3}
    Worker = {w1, w2}
    ListenFd = f1
    Taken = {f3}
    NoFd = NoFd
    Free = Free
    Listener = Listener
    Other = Other
    Whole = 2
SPECIFICATION FairSpec
INVARIANTS
    OneKeeper
    NobodyOverlooked
    NoSilentClose
PROPERTIES
    UsesPool
    EveryoneIsServed
    StopEndsRun
