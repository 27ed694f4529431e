\* Two groups, every interruption point, retention shorter than the chain.
CONSTANTS
    g1 = g1
    g2 = g2
    Groups = {g1, g2}
    MaxHeight = 4
    LastHeight <- MCLastHeight
    TxCount <- MCTxCount
    FromZero = FALSE
    InitCnts = 2
    RetainMax = 2
    TransRetain = 2
    Lag = 1
    MaxFail = 2
SPECIFICATION FairSpec
INVARIANTS
    TypeOK
    CountByMinMax
    TransOfStoredBlocks
    SavedInFull
PROPERTIES
    MirrorsChain
    CatchesUp
