\* Two fronts, two threads, a front that dies.
CONSTANTS
    t1 = t1
    t2 = t2
    N = 2
    Threads = {t1, t2}
    MaxAsk = 2
    MaxDie = 1
SPECIFICATION FairSpec
INVARIANTS
    TypeOK
    RestartsExclude
PROPERTY
    FirstDownIsSeen
CHECK_DEADLOCK FALSE
