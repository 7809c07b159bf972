---------------------------- MODULE MCEventList ----------------------------
\* EventList for TLC: two handlers of one priority and one of a higher one.  Handlers of
\* one priority may be exchanged, and so may the threads.
EXTENDS EventList, TLC

CONSTANTS h1, h2, h3, t1, t2

MCPriority == [h \in Handlers |-> IF h = h3 THEN 2 ELSE 1]
Symmetry   == Permutations({h1, h2}) \union Permutations(Threads)
=============================================================================
