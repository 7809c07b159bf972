SPECIFICATION Spec
CONSTANTS
    Messages <- MCMessages
    MaxMessages = 3
    Types <- MCTypes
    Methods <- MCMethods
    Waiting <- MCWaiting
CHECK_DEADLOCK FALSE
INVARIANTS
    BoundaryKept
    Delivered
    AnsweredOnce
