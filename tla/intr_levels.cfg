CONSTANTS
    IRQ = {0, 1, 4, 14}
    MaxNest = 6
SPECIFICATION IntrFairSpec
INVARIANTS SplExcludes ClockOnce
PROPERTY NotedIsHandled
