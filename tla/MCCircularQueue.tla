--------------------------- MODULE MCCircularQueue --------------------------
\* CircularQueue for TLC: queues may be exchanged for one another, and so may values.
EXTENDS CircularQueue, TLC

Symmetry == Permutations(Queues) \union Permutations(Values)
=============================================================================
