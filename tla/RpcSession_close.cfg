SPECIFICATION FairSpec
CONSTANTS
    c1 = c1
    c2 = c2
    w1 = w1
    w2 = w2
    Calls = {c1, c2}
    Sync = {}
    Timed = {}
    Workers = {w1}
    Notifiers = {n1}
    Closers = {k1}
    MaxMsgId = 2
    None = None
    Moved = Moved
CHECK_DEADLOCK FALSE
PROPERTIES
    CloseReturns
    ExpiryCompletesAll
    ReplyCompletes
