SPECIFICATION FairSpec
CONSTANTS
    a = a
    b = b
    Lengths = {1, 3}
    MaxMessages <- MCMaxMessages
    ObufSize = 2
    IbufSize = 2
    Capacity = 1
CHECK_DEADLOCK FALSE
INVARIANTS
    NoLostSignal
    OneSignal
PROPERTIES
    AllRead
    CloseReturns
