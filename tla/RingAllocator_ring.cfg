SPECIFICATION Spec
CONSTANTS
    Capacity = 7
    Requests <- MCRequests
    Null = Null
    Junk = Junk
INVARIANTS
    TypeOK
    BlocksIntact
    FrontIsOldest
    EmptiesWhenReturned
    Tiled
