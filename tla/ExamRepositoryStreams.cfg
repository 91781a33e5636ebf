SPECIFICATION FairSpec
CONSTANTS
    u = u
    v = v
    broken = broken
    good = good
    upU = upU
    upV = upV
    upU2 = upU2
    lookup = lookup
    listing = listing
    ccna = ccna
    mine = mine
    Users = {u, v}
    Files = {broken, good}
    Uploads = {upU}
    Owner <- MCOwner
    Content <- MCContent
    ExamIds = {ccna, mine}
    Editions <- MCEditions
    FirstEdition <- MCFirstEdition
    Lookups = {lookup}
    Listings = {listing}
    Caller <- MCCaller
    Wanted <- MCWanted
    Filter <- MCFilter
    Broken = Broken
    Missing = Missing
    Nothing = Nothing
    Failure = Failure
    MaxEdits = 0
    MaxAssociations = 2
INVARIANTS
    TypeOK
    OwnExamTakesPrecedence
PROPERTIES
    EveryRequestReturns
    ListingsStrandNoProducer
CHECK_DEADLOCK FALSE
