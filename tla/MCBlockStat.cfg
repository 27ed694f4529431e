\* A short page, so that a pull is far behind; every interruption point.
CONSTANTS
    g1 = g1
    g2 = g2
    Groups = {g1, g2}
    MaxHeight = 4
    LastHeight <- MCLastHeight
    PageSize = 1
    RetainMax = 2
    Lag = 1
    MaxFail = 1
    MaxRemovals = 1
SPECIFICATION FairSpec
INVARIANTS
    TypeOK
    IdsFollowNumbers
    CycleIsExact
PROPERTIES
    StatMirrors
    StatCatchesUp
