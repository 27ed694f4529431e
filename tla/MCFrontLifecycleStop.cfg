\* Two stops of different nodes.
CONSTANTS
    t1 = t1
    t2 = t2
    N = 2
    Threads = {t1, t2}
    MaxAsk = 2
    MaxDie = 0
SPECIFICATION Spec
PROPERTY
    LastRunningKept
CHECK_DEADLOCK FALSE
