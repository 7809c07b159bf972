SPECIFICATION Spec
CONSTANTS
    Queues = {q1, q2}
    Values = {a, b}
    MaxCapacity = 3
    MaxBulk = 3
    Junk = Junk
SYMMETRY Symmetry
CHECK_DEADLOCK FALSE
PROPERTIES
    ImplementsBoundedQueue
