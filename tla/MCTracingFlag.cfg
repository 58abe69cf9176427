CONSTANTS
    w1 = w1
    w2 = w2
    w3 = w3
    q1 = q1
    q2 = q2
    t1 = t1
    t2 = t2
    Workers <- MCWorkers
    Entries <- MCEntries
    Traces <- MCTraces
    NoTrace = none
SPECIFICATION Spec
INVARIANT FlagHasTracer
