---------------------------- MODULE MCRpcSession ----------------------------
(* RpcSession on small instances: see the .cfg files that begin with         *)
(* RpcSession for the threads of each.                                       *)
EXTENDS RpcSession, TLC

CONSTANTS c1, c2, w1, w2

\* Workers are interchangeable.
WorkerSymmetry == Permutations(Workers)
=============================================================================
