\* The announced atomicity of saveBLockInfo, against its statements.
CONSTANTS
    g1 = g1
    g2 = g2
    Groups = {g1}
    MaxHeight = 2
    LastHeight <- MCLastHeight
    TxCount <- MCTxCount
    FromZero = TRUE
    InitCnts = 1
    RetainMax = 2
    TransRetain = 1
    Lag = 0
    MaxFail = 1
SPECIFICATION Spec
INVARIANT
    SaveIsAtomic
