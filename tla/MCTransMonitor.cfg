\* Three transactions, two users, every interleaving of audit and renaming.
CONSTANTS
    u1 = u1
    u2 = u2
    m1 = m1
    m2 = m2
    NumTx = 3
    Users = {u1, u2}
    Methods = {m1, m2}
    From <- MCFrom
    Method <- MCMethod
    Stamp <- MCStamp
    DayLength = 3
    YearLength = 2
    Broken = {}
    ListLimit = 2
    UnusualMax = 2
    TransRetain = 1
    RowRetain = 1
    MaxCrash = 1
SPECIFICATION Spec
INVARIANTS
    TypeOK
    CountsAddUp
    RowsAreOfOneDay
    UnusualIsUnregistered
PROPERTY
    CleanUpKeeps
