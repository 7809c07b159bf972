--------------------------- MODULE MCEventQueue ---------------------------
(* EventQueue for TLC: see EventQueue.cfg for the threads.                *)
EXTENDS EventQueue

CONSTANTS m1, m2, m3, r1, r2, t1, f1, c1, c2
=============================================================================
