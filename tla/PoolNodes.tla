------------------------------ MODULE PoolNodes ------------------------------
(***************************************************************************)
(* Where the nodes of the object pools (memory/pool.hxx) are, and what is   *)
(* to be true of it: the state of Pool and its invariants.                  *)
(***************************************************************************)
EXTENDS Integers, Sequences, SequencesExt, FiniteSets

CONSTANTS Nodes, Pools, Threads, None

ASSUME NoneAssumption == None \notin Nodes \union Pools

VARIABLES
    alive,      \* the pools that are not destroyed
    idle,       \* the list _idle_nodes of each pool's base
    owner,      \* of each node, the base that it refers to
    made,       \* the nodes that were allocated
    freed,      \* the nodes that were deallocated
    held,       \* the nodes in the pool_ptrs of each thread
    pc,         \* of each thread: "idle", "push", "unpin", "clear"
    pin,        \* the base it shares to check a node in
    node,       \* that node
    list        \* the nodes it destroys

-----------------------------------------------------------------------------
\* The base of a pool exists: the pool or a thread shares it.
Pinned(p) == \E t \in Threads : pin[t] = p
Base(p)   == p \in alive \/ Pinned(p)

\* Each allocated node has one holder: a pool_ptr, a list of idle nodes, a thread that checks
\* it in or one that destroys it; a deallocated one has none.
Positions(n, s) == {i \in DOMAIN s : s[i] = n}
Holders(n) ==
    {<<"held", t, 0>> : t \in {u \in Threads : n \in held[u]}}
        \union {<<"node", t, 0>> : t \in {u \in Threads : node[u] = n}}
        \union (UNION {{<<"idle", p, i>> : i \in Positions(n, idle[p])} : p \in Pools})
        \union (UNION {{<<"list", t, i>> : i \in Positions(n, list[t])} : t \in Threads})
OneHolder ==
    \A n \in Nodes : Cardinality(Holders(n)) = IF n \in made \ freed THEN 1 ELSE 0

\* No node is forgotten: an idle node belongs to the base that keeps it, and that base is
\* there, so that its destruction deletes the node, also when the node was checked in while
\* its pool was destroyed.
NoneForgotten ==
    \A p \in Pools : idle[p] # <<>> => Base(p) /\ \A n \in ToSet(idle[p]) : owner[n] = p
=============================================================================
