\* The start submitted before the commit.
CONSTANTS
    h1 = h1
    h2 = h2
    Hosts = {h1}
    Reqs = {1, 2}
    MaxAsk = 3
    MaxCrash = 0
SPECIFICATION Spec
INVARIANT
    RunningMeansStarted
CHECK_DEADLOCK FALSE
