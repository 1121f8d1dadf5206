\* Two requests, one of which the pool finishes late.
CONSTANTS
    r1 = r1
    r2 = r2
    Request = {r1, r2}
    w1 = w1
    w2 = w2
    Worker = {w1, w2}
    MaxSignals = 1
SPECIFICATION Spec
INVARIANTS
    ClosedSafely
