--------------------------- MODULE MCInmemoryPipe ---------------------------
\* InmemoryPipe for TLC.
EXTENDS InmemoryPipe

MCMaxMessages == [e \in Ends |-> IF e = a THEN 2 ELSE 1]
=============================================================================
