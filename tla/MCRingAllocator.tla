-------------------------- MODULE MCRingAllocator --------------------------
(* TLC instance of RingAllocator: requests of every size class from nothing to *)
(* more than the buffer, on a buffer small enough to wrap often.              *)
EXTENDS RingAllocator

MCRequests == {0, 1, 8, 9, 24, 8 * (Capacity - 1), 8 * Capacity}
=============================================================================
