\* Two groups in one run, two days, a block without transactions, a failure.
CONSTANTS
    g1 = g1
    g2 = g2
    Groups = {g1, g2}
    NoGroup = NoGroup
    MaxHeight = 3
    TxCount <- MCTxCount
    DayOf <- MCDayOf
    MaxFail = 1
SPECIFICATION FairSpec
INVARIANTS
    TypeOK
    CountsExact
    NothingJumpedOver
PROPERTIES
    NeverLowered
    CountedAtLast
