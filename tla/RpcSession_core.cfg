SPECIFICATION Spec
CONSTANTS
    c1 = c1
    c2 = c2
    w1 = w1
    w2 = w2
    Calls = {c1, c2}
    Sync = {c2}
    Timed = {c2}
    Workers = {w1, w2}
    Notifiers = {}
    Closers = {k1}
    MaxMsgId = 2
    None = None
    Moved = Moved
SYMMETRY WorkerSymmetry
CHECK_DEADLOCK FALSE
INVARIANTS
    TypeOK
    OneOwner
    AtMostOnce
    LocksFollowThreads
    OneReceiveCycle
    NoStrayRequest
PROPERTIES
    ImplementsContract
