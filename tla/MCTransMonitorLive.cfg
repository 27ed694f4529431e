\* A transaction that never can be analysed, at the head of the list.
CONSTANTS
    u1 = u1
    u2 = u2
    m1 = m1
    m2 = m2
    NumTx = 2
    Users = {u1}
    Methods = {m1}
    From <- MCFrom
    Method <- MCOneMethod
    Stamp <- MCStamp
    DayLength = 3
    YearLength = 2
    Broken = {1}
    ListLimit = 2
    UnusualMax = 2
    TransRetain = 1
    RowRetain = 9
    MaxCrash = 1
SPECIFICATION FairSpec
PROPERTY
    AllAudited
