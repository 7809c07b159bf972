-------------------------------- MODULE Pool --------------------------------
(***************************************************************************)
(* pool and pool_ptr (memory/pool.hxx): nodes are checked out of pools,     *)
(* moved between threads, given to another pool or detached, and checked in *)
(* when their pool_ptr goes, while the pools are shrunk or destroyed.       *)
(*                                                                          *)
(* A pool and everybody who checks a node in share the pool_base, which     *)
(* keeps the idle nodes; a node refers to it weakly.  The last one to let   *)
(* it go destroys it, and with it the idle nodes.  What is done under the   *)
(* mutex of a base is one step, and so is a change of a reference count.    *)
(*                                                                          *)
(* A pool is used while it lives, by whichever thread.  The elements and    *)
(* their constructors' exceptions are left out.                             *)
(***************************************************************************)
EXTENDS PoolNodes

vars == <<alive, idle, owner, made, freed, held, pc, pin, node, list>>

Init ==
    /\ alive = Pools /\ idle = [p \in Pools |-> <<>>]
    /\ owner = [n \in Nodes |-> None] /\ made = {} /\ freed = {}
    /\ held = [t \in Threads |-> {}]
    /\ pc = [t \in Threads |-> "idle"] /\ pin = [t \in Threads |-> None]
    /\ node = [t \in Threads |-> None] /\ list = [t \in Threads |-> <<>>]

-----------------------------------------------------------------------------
Ready(t) == pc[t] = "idle"
Hold(t, n)    == held' = [held EXCEPT ![t] = @ \union {n}]
Release(t, n) == held' = [held EXCEPT ![t] = @ \ {n}]

\* checkout: try_checkout, or construct when nothing is idle.
Checkout(t, p) ==
    /\ Ready(t) /\ p \in alive
    /\ \/ /\ idle[p] # <<>>
          /\ Hold(t, Head(idle[p]))
          /\ idle' = [idle EXCEPT ![p] = Tail(@)]
          /\ UNCHANGED <<owner, made>>
       \/ /\ idle[p] = <<>>
          /\ \E n \in Nodes \ made :
                Hold(t, n) /\ made' = made \union {n} /\ owner' = [owner EXCEPT ![n] = p]
          /\ idle' = idle
    /\ UNCHANGED <<alive, freed, pc, pin, node, list>>

\* take_ownership
TakeOwnership(t, p, n) ==
    /\ Ready(t) /\ p \in alive /\ n \in held[t]
    /\ owner' = [owner EXCEPT ![n] = p]
    /\ UNCHANGED <<alive, idle, made, freed, held, pc, pin, node, list>>

\* detach
DetachNode(t, n) ==
    /\ Ready(t) /\ n \in held[t]
    /\ owner' = [owner EXCEPT ![n] = None]
    /\ UNCHANGED <<alive, idle, made, freed, held, pc, pin, node, list>>

\* A pool_ptr moves to a variable of another thread.
Give(t, u, n) ==
    /\ Ready(t) /\ n \in held[t] /\ u # t
    /\ held' = [held EXCEPT ![t] = @ \ {n}, ![u] = @ \union {n}]
    /\ UNCHANGED <<alive, idle, owner, made, freed, pc, pin, node, list>>

\* checkin of a pool_ptr, by its destructor too: shares the owner, or disposes of the node.
Locked(p) == p # None /\ Base(p)
Checkin(t, n) ==
    /\ Ready(t) /\ n \in held[t]
    /\ Release(t, n)
    /\ \/ /\ Locked(owner[n])
          /\ pin' = [pin EXCEPT ![t] = owner[n]] /\ node' = [node EXCEPT ![t] = n]
          /\ pc' = [pc EXCEPT ![t] = "push"]
          /\ freed' = freed
       \/ /\ ~Locked(owner[n])
          /\ freed' = freed \union {n}
          /\ UNCHANGED <<pc, pin, node>>
    /\ UNCHANGED <<alive, idle, owner, made, list>>

\* checkin of the base
Push(t) ==
    /\ pc[t] = "push"
    /\ idle' = [idle EXCEPT ![pin[t]] = <<node[t]>> \o @]
    /\ node' = [node EXCEPT ![t] = None]
    /\ pc' = [pc EXCEPT ![t] = "unpin"]
    /\ UNCHANGED <<alive, owner, made, freed, held, pin, list>>

\* clear_all_idle takes the list of idle nodes, and deletes them without the mutex.
TakeList_slip(t, p) ==
    /\ list' = [list EXCEPT ![t] = idle[p]] /\ idle' = idle
    /\ pc' = [pc EXCEPT ![t] = "clear"]
TakeList(t, p) ==
    /\ list' = [list EXCEPT ![t] = idle[p]] /\ idle' = [idle EXCEPT ![p] = <<>>]
    /\ pc' = [pc EXCEPT ![t] = "clear"]

\* The base's share is let go, and the base destroyed when it was the last one.
IsLast_slip(t, p) == FALSE
IsLast(t, p) == \A u \in Threads \ {t} : pin[u] # p
Unpin(t) ==
    /\ pc[t] = "unpin"
    /\ pin' = [pin EXCEPT ![t] = None]
    /\ IF pin[t] \notin alive /\ IsLast(t, pin[t]) THEN TakeList(t, pin[t])
       ELSE pc' = [pc EXCEPT ![t] = "idle"] /\ UNCHANGED <<idle, list>>
    /\ UNCHANGED <<alive, owner, made, freed, held, node>>

\* ~pool
Destroy(t, p) ==
    /\ Ready(t) /\ p \in alive
    /\ alive' = alive \ {p}
    /\ IF IsLast(t, p) THEN TakeList(t, p) ELSE UNCHANGED <<idle, list, pc>>
    /\ UNCHANGED <<owner, made, freed, held, pin, node>>

\* shrink
Shrink(t, p) ==
    /\ Ready(t) /\ p \in alive
    /\ TakeList(t, p)
    /\ UNCHANGED <<alive, owner, made, freed, held, pin, node>>

\* One turn of the loop of clear_all_idle, or its end.
ClearNext(t) ==
    /\ pc[t] = "clear"
    /\ \/ /\ list[t] # <<>>
          /\ freed' = freed \union {Head(list[t])}
          /\ list' = [list EXCEPT ![t] = Tail(@)]
          /\ pc' = pc
       \/ /\ list[t] = <<>>
          /\ pc' = [pc EXCEPT ![t] = "idle"]
          /\ UNCHANGED <<freed, list>>
    /\ UNCHANGED <<alive, idle, owner, made, held, pin, node>>

Next ==
    \E t \in Threads :
        \/ \E p \in Pools : \/ Checkout(t, p) \/ Destroy(t, p) \/ Shrink(t, p)
                            \/ \E n \in Nodes : TakeOwnership(t, p, n)
        \/ \E n \in Nodes : \/ DetachNode(t, n) \/ Checkin(t, n)
                            \/ \E u \in Threads : Give(t, u, n)
        \/ Push(t) \/ Unpin(t) \/ ClearNext(t)

Spec == Init /\ [][Next]_vars
=============================================================================
