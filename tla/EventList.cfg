SPECIFICATION Spec
CONSTANTS
    h1 = h1
    h2 = h2
    h3 = h3
    t1 = t1
    t2 = t2
    Handlers = {h1, h2, h3}
    Priority <- MCPriority
    Threads = {t1, t2}
    MaxInvocations = 1
    Null = Null
SYMMETRY Symmetry
CHECK_DEADLOCK FALSE
INVARIANTS
    Linked
    Invoked
