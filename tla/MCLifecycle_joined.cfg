\* One signal, which comes while the thread of the hub is being started.
CONSTANTS
    r1 = r1
    Request = {r1}
    w1 = w1
    Worker = {w1}
    MaxSignals = 1
SPECIFICATION Spec
INVARIANTS
    StopWaitsForHandlers
