SPECIFICATION FairSpec
CONSTANTS
    p1 = p1
    p2 = p2
    Puts = {p1, p2}
    Gets = {g1}
    Deletes = {d1, d2}
    Target <- MCTarget
    Absent = Absent
INVARIANTS
    TypeOK
    IndexesClaimedOnce
    NoReportLost
    GetSeesCompletedPuts
    GetReturnsInOrder
    DeleteFindsCompletedPuts
PROPERTIES
    EveryCallReturns
    ImplementsReportBook
CHECK_DEADLOCK FALSE
