SPECIFICATION Spec
CONSTANTS
    u = u
    v = v
    broken = broken
    good = good
    upU = upU
    upV = upV
    upU2 = upU2
    lookup = lookup
    listing = listing
    ccna = ccna
    mine = mine
    Users = {u, v}
    Files = {broken, good}
    Uploads = {upV}
    Owner <- MCOwner
    Content <- MCContent
    ExamIds = {ccna, mine}
    Editions <- MCEditions
    FirstEdition <- MCFirstEdition
    Lookups = {lookup}
    Listings = {listing}
    Caller <- MCCaller
    Wanted <- MCWanted
    Filter <- MCFilter
    Broken = Broken
    Missing = Missing
    Nothing = Nothing
    Failure = Failure
    MaxEdits = 1
    MaxAssociations = 1
INVARIANTS
    OwnExamsOnly
    LastingExamsAreFound
    ListingIsComplete
CHECK_DEADLOCK FALSE
