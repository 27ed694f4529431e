\* Two hosts and overlapping requests.
CONSTANTS
    h1 = h1
    h2 = h2
    Hosts = {h1, h2}
    Reqs = {1, 2}
    MaxAsk = 3
    MaxCrash = 1
SPECIFICATION FairSpec
INVARIANTS
    TypeOK
    RowHasFiles
    InitSuccessMeansDone
PROPERTIES
    StartsOnReadyHosts
    InitiatingEnds
CHECK_DEADLOCK FALSE
