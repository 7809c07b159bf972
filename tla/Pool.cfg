SPECIFICATION Spec
CONSTANTS
    Nodes = {n1, n2, n3}
    Pools = {p1, p2}
    Threads = {t1, t2, t3}
    None = None
SYMMETRY Symmetry
CHECK_DEADLOCK FALSE
INVARIANTS
    OneHolder
    NoneForgotten
