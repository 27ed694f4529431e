CONSTANTS
    NumFronts = 2
    Requests = {"r1"}
    Behind = {}
    InitWorlds <- MCInitWorlds
    MaxChange = 1
    MaxAsk = 1
    MaxLoad = 1
SPECIFICATION FairSpec
INVARIANTS
    TypeOK
    StoppedIsKept
PROPERTIES
    MapFollows
    CacheFollows
    GroupFollows
    NoOrphansAtLast
