\* One request, one worker and two signals, equal or different ones, which any of the
\* five threads may take; requests, messages and signals come at any time.
CONSTANTS
    r1 = r1
    Request = {r1}
    w1 = w1
    Worker = {w1}
    MaxSignals = 2
SPECIFICATION FairSpec
INVARIANTS
    DbAndHubOutliveUsers
    NothingCutOff
PROPERTIES
    SignalEndsProgram
