------------------------------- MODULE MCPool -------------------------------
\* Pool for TLC: nodes, pools and threads may be exchanged for one another.
EXTENDS Pool, TLC

Symmetry == Permutations(Nodes) \union Permutations(Pools) \union Permutations(Threads)
=============================================================================
