CONSTANTS
    p1 = p1
    p2 = p2
    p3 = p3
    c1 = c1
    c2 = c2
    cOut = cOut
    cIn = cIn
    cSwap = cSwap
    Sched = Sched
    NULL = NULL
    Proc = {p1, p2, p3}
    Chan = {c1, c2}
    RunOut = cOut
    RunIn = cIn
    SwapBuf = cSwap
    Hash <- HashApart
    Core = 2
    Traced = {p3}
SYMMETRY Symmetry
SPECIFICATION Spec
INVARIANTS QueuesOK SchedHasWork NoSignalLost
PROPERTY WakesAll
