CONSTANTS
    Timer = {t1, t2, t3}
    NCALL = 10
    MaxTim = 2
    MaxRunTicks = 1
    MaxCopyTicks = 1
    NoFunc = NoFunc
SPECIFICATION FairSpec
INVARIANTS OneEntryEach OnTime
PROPERTY EachIsCalled
