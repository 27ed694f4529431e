\* A page and the monitor check two nodes; requests to the front of the first
\* may find it down.
CONSTANTS
    N = 2
    Fronts <- MCFronts
    Roles <- MCRoles
SPECIFICATION FairSpec
INVARIANT
    TypeOK
PROPERTIES
    DeadIsFound
    AliveIsCleared
    DeadIsMailed
